--------------------------- MODULE Billing_proofs ---------------------------
(***************************************************************************)
(* Safety of a workspace's subscription for any subscriptions, requests    *)
(* and reminder runs: every statement of a handler is a step, deliveries   *)
(* repeat and overlap, requests fail halfway.                              *)
(***************************************************************************)
EXTENDS Billing, FiniteSetTheorems, TLAPS

-----------------------------------------------------------------------------
(* The reminder.  A mail that was sent, or is being sent, shows in the row,  *)
(* and no write takes that away.                                             *)

Mailing == {r \in Reminders : remind[r] = "mail"}

RemindInv ==
  /\ \A r \in Reminders : remind[r] # "idle" => row # None
  /\ \/ reminded = 0 /\ Mailing = {}
     \/ /\ row # None /\ row.reminded
        /\ \/ reminded = 1 /\ Mailing = {}
           \/ reminded = 0 /\ \E r \in Reminders : Mailing = {r}

-----------------------------------------------------------------------------
(* What Stripe has emitted.                                                  *)

About(n, s) == n \in DOMAIN log /\ log[n].sub = s
LastOf(n) == \A m \in DOMAIN log : log[m].sub = log[n].sub => m <= n
HadStatus(s, st) == \E n \in DOMAIN log : log[n].sub = s /\ log[n].status = st

(* The last event of a subscription has its status; it was checked out once. *)
LogInv ==
  /\ \A n \in DOMAIN log :
       /\ stripe[log[n].sub] # "none"
       /\ LastOf(n) => log[n].status = stripe[log[n].sub]
       /\ log[n].kind = "deleted" => log[n].status = "canceled"
  /\ \A s \in Subs : stripe[s] # "none" => HadStatus(s, stripe[s])
  /\ \A m, n \in DOMAIN log :
       log[m].kind = "completed" /\ log[n].kind = "completed" /\ log[m].sub = log[n].sub
         => m = n

(* The stages before a request has written the row, and those after.         *)
Before == {"before", "select", "write", "one"}
After == {"plan", "mail", "answer"}
Syncs(n) == FirstStage(log[n]) # "one"

(* What a request carries is of its event: a status the subscription had,    *)
(* the newest one if the event is its last.  Two requests with the same      *)
(* event put the subscription in doubt.                                      *)
HandInv ==
  /\ \A h \in Handlers :
       /\ hand[h].pc \in Before =>
            /\ HadStatus(Ev(h).sub, hand[h].live)
            /\ LastOf(hand[h].ev) => hand[h].live = stripe[Ev(h).sub]
       /\ hand[h].pc \in {"before", "select", "write", "plan", "mail"} => Syncs(hand[h].ev)
       /\ hand[h].pc = "one" => ~Syncs(hand[h].ev)
       /\ hand[h].pc \in {"before", "mail"} \/ hand[h].first => Ev(h).kind = "completed"
       /\ hand[h].first => hand[h].pc \in {"select", "write", "plan"}
  /\ \A h, g \in Handlers :
       h # g /\ hand[h].pc # "idle" /\ hand[g].pc # "idle" /\ hand[h].ev = hand[g].ev
         => Ev(h).sub \in doubt

-----------------------------------------------------------------------------
(* The conversion mail.  Once it is on its way, the row names the            *)
(* subscription, and keeps its name unless that puts it in doubt.            *)

ToldAt(s) ==
  /\ converted[s] <= 1
  /\ converted[s] = 1 =>
       /\ row # None /\ row.sub = s
       /\ \A h \in Handlers : hand[h].pc # "idle" /\ Ev(h).sub = s =>
            ~hand[h].first /\ hand[h].pc # "mail"
  /\ \A h \in Handlers :
       hand[h].pc \in {"plan", "mail"} /\ Ev(h).sub = s => row # None /\ row.sub = s

ConvInv == \A s \in Subs \ doubt : ToldAt(s)

-----------------------------------------------------------------------------
(* The row and Stripe.                                                       *)

(* Every event of the subscription is acknowledged, or written and about to  *)
(* be.                                                                       *)
Applied(s) ==
  \A n \in DOMAIN log : log[n].sub = s =>
    n \in acked \/ \E h \in Handlers : hand[h].ev = n /\ hand[h].pc \in After

InOrder ==
  /\ \A n \in acked : 1..n \subseteq acked
  /\ \A h \in Handlers : hand[h].pc # "idle" =>
       /\ hand[h].ev \notin acked /\ 1..(hand[h].ev - 1) \subseteq acked
       /\ \A g \in Handlers : hand[g].pc # "idle" => g = h

RowShows ==
  row # None /\ row.sub # None /\ row.status # "trialing" /\ Applied(row.sub) =>
    row.status = mapStripeStatus(stripe[row.sub])

MirrorInv == tidy => InOrder /\ RowShows

-----------------------------------------------------------------------------
(* The plan.                                                                 *)

PlanOfHand(h) == PlanOf[Ev(h).sub]

(* A delivery was cut short after it wrote the row's plan, and Stripe will   *)
(* repeat it.                                                                *)
Unfinished(n) ==
  /\ n \in DOMAIN log \ acked /\ Syncs(n) /\ PlanOf[log[n].sub] = row.plan
  /\ \A h \in Handlers : hand[h].pc \in {"mail", "answer"} => hand[h].ev # n

(* What a writer relies on the row for is there.                             *)
RowInv ==
  /\ row = None => wsPlan = "starter"
  /\ trial = "plan" => row # None
  /\ \A h \in Handlers : hand[h].pc = "plan" \/ hand[h].found => row # None

(* Whoever is between its two writes writes one and the same plan twice; a   *)
(* request that saw no row before the trial inserted one will not write.     *)
OnePlan ==
  /\ \A h, g \in Handlers :
       hand[h].pc \in {"write", "plan"} /\ hand[g].pc \in {"write", "plan"}
         => PlanOfHand(h) = PlanOfHand(g)
  /\ \A h \in Handlers : hand[h].pc = "plan" => PlanOfHand(h) = row.plan
  /\ trial = "plan" =>
       /\ row.plan = "growth"
       /\ \A h \in Handlers : hand[h].pc \in {"write", "plan"} =>
            (hand[h].pc = "write" /\ ~hand[h].found) \/ PlanOfHand(h) = "growth"

(* If the plans differ, somebody still has to write the workspace's.         *)
PlanOwed ==
  row # None =>
    \/ wsPlan = row.plan
    \/ trial = "plan"
    \/ \E h \in Handlers : hand[h].pc = "plan"
    \/ \E n \in DOMAIN log : Unfinished(n)

PlanInv == RowInv /\ (torn = {} => OnePlan /\ PlanOwed)

-----------------------------------------------------------------------------
(* Steps, as far as the invariants tell them apart.                          *)

(* An event in the log, and the event of a request that is served.           *)
LEMMA EventTypes ==
  ASSUME TypeOK
  PROVE  /\ \A n \in DOMAIN log : log[n] \in Events /\ log[n].sub \in Subs
                                  /\ log[n].status \in StripeStatuses /\ n \in Nat
         /\ DOMAIN log = 1..Len(log) /\ Len(log) \in Nat
         /\ \A h \in Handlers : hand[h] \in Requests
         /\ \A h \in Handlers : hand[h].pc # "idle" =>
              Ev(h) \in Events /\ Ev(h).sub \in Subs /\ hand[h].ev \in DOMAIN log
<1>1. log \in Seq(Events) /\ hand \in [Handlers -> Requests]
      /\ \A h \in Handlers : hand[h].pc # "idle" => hand[h].ev \in DOMAIN log
  BY DEF TypeOK
<1>2. DOMAIN log = 1..Len(log) /\ Len(log) \in Nat /\ \A n \in DOMAIN log : log[n] \in Events
  BY <1>1
<1>3. \A e \in Events : e.sub \in Subs /\ e.status \in StripeStatuses
  BY DEF Events
<1>4. QED BY <1>1, <1>2, <1>3 DEF Ev

(* Only the request h goes on, and becomes r.                                *)
OnlyHand(h, r) ==
  /\ hand' \in [Handlers -> Requests] /\ hand'[h] = r
  /\ \A g \in Handlers \ {h} : hand'[g] = hand[g]

(* A step that replaces one request leaves the others.                       *)
LEMMA OnlyHandMoves ==
  ASSUME TypeOK, NEW h \in Handlers, NEW r \in Requests, hand' = [hand EXCEPT ![h] = r]
  PROVE  OnlyHand(h, r)
BY DEF OnlyHand, TypeOK

(* Where each statement of a handler takes its request.                      *)
Read(h) ==
  [hand[h] EXCEPT !.first = (row = None \/ row.sub # Ev(h).sub), !.pc = "select"]
Selected(h) == [hand[h] EXCEPT !.found = (row # None), !.pc = "write"]
Written(h) == [hand[h] EXCEPT !.found = FALSE, !.live = "none", !.pc = "plan"]
Planned(h) ==
  [hand[h] EXCEPT !.first = FALSE, !.pc = IF hand[h].first THEN "mail" ELSE "answer"]
Answering(h) == [hand[h] EXCEPT !.pc = "answer"]
Delivered(n) ==
  [Idle EXCEPT !.pc = FirstStage(log[n]), !.ev = n,
               !.live = IF log[n].kind = "completed" THEN stripe[log[n].sub]
                        ELSE log[n].status]

(* What a request carries when an event is delivered (handleWebhookEvent).   *)
LEMMA DeliveredFields ==
  ASSUME NEW n
  PROVE  /\ Delivered(n).pc = FirstStage(log[n]) /\ Delivered(n).ev = n
         /\ Delivered(n).live = IF log[n].kind = "completed" THEN stripe[log[n].sub]
                               ELSE log[n].status
         /\ Delivered(n).first = FALSE /\ Delivered(n).found = FALSE
BY DEF Delivered, Idle

(* Each statement of a handler moves its own request only.                   *)
LEMMA HandlersMove ==
  ASSUME TypeOK, NEW h \in Handlers
  PROVE  /\ ReadBefore(h) => OnlyHand(h, Read(h))
         /\ SelectRow(h) => OnlyHand(h, Selected(h))
         /\ WriteRow(h) => OnlyHand(h, IF Conflicts(h) THEN Idle ELSE Written(h))
         /\ WritePlan(h) => OnlyHand(h, Planned(h))
         /\ SendConverted(h) \/ UpdateBySubscription(h) => OnlyHand(h, Answering(h))
         /\ Answer(h) \/ RequestFails(h) => OnlyHand(h, Idle)
         /\ \A n \in DOMAIN log : Deliver(h, n) => OnlyHand(h, Delivered(n))
<1>1. hand \in [Handlers -> Requests] /\ hand[h] \in Requests
  BY DEF TypeOK
<1>2. /\ Read(h) \in Requests /\ Selected(h) \in Requests /\ Written(h) \in Requests
      /\ Planned(h) \in Requests /\ Answering(h) \in Requests /\ Idle \in Requests
  BY <1>1 DEF Read, Selected, Written, Planned, Answering, Idle, Requests, HandStages
<1>3. ReadBefore(h) => OnlyHand(h, Read(h))
  <2>1. ReadBefore(h) => hand' = [hand EXCEPT ![h] = Read(h)]
    BY <1>1 DEF ReadBefore, Read
  <2>2. QED BY <1>2, <2>1, OnlyHandMoves
<1>4. SelectRow(h) => OnlyHand(h, Selected(h))
  <2>1. SelectRow(h) => hand' = [hand EXCEPT ![h] = Selected(h)]
    BY <1>1 DEF SelectRow, Selected
  <2>2. QED BY <1>2, <2>1, OnlyHandMoves
<1>5. WriteRow(h) => OnlyHand(h, IF Conflicts(h) THEN Idle ELSE Written(h))
  <2>1. WriteRow(h) =>
          hand' = [hand EXCEPT ![h] = IF Conflicts(h) THEN Idle ELSE Written(h)]
    BY <1>1 DEF WriteRow, Written
  <2>2. QED BY <1>2, <2>1, OnlyHandMoves
<1>6. WritePlan(h) => OnlyHand(h, Planned(h))
  <2>1. WritePlan(h) => hand' = [hand EXCEPT ![h] = Planned(h)]
    BY <1>1 DEF WritePlan, Planned
  <2>2. QED BY <1>2, <2>1, OnlyHandMoves
<1>7. SendConverted(h) \/ UpdateBySubscription(h) => OnlyHand(h, Answering(h))
  <2>1. SendConverted(h) \/ UpdateBySubscription(h) =>
          hand' = [hand EXCEPT ![h] = Answering(h)]
    BY <1>1 DEF SendConverted, UpdateBySubscription, Goto, Answering
  <2>2. QED BY <1>2, <2>1, OnlyHandMoves
<1>8. Answer(h) \/ RequestFails(h) => OnlyHand(h, Idle)
  <2>1. Answer(h) \/ RequestFails(h) => hand' = [hand EXCEPT ![h] = Idle]
    BY DEF Answer, RequestFails
  <2>2. QED BY <1>2, <2>1, OnlyHandMoves
<1>9. ASSUME NEW n \in DOMAIN log, Deliver(h, n)
      PROVE  OnlyHand(h, Delivered(n))
  <2>1. log[n].sub \in Subs /\ log[n].status \in StripeStatuses /\ n \in Nat
    BY EventTypes
  <2>2. FirstStage(log[n]) \in HandStages
    BY DEF FirstStage, HandStages
  <2>3. stripe[log[n].sub] \in StripeStatuses \cup {"none"}
    BY <2>1 DEF TypeOK
  <2>4. Delivered(n) \in Requests
    BY <1>2, <2>1, <2>2, <2>3 DEF Delivered, Requests
  <2>5. hand' = [hand EXCEPT ![h] = Delivered(n)]
    BY <1>9 DEF Deliver, Delivered
  <2>6. QED BY <2>4, <2>5, OnlyHandMoves
<1>10. QED BY <1>3, <1>4, <1>5, <1>6, <1>7, <1>8, <1>9

(* The same, field by field.                                                 *)
Becomes(h, pc, live, first, found) ==
  /\ hand' \in [Handlers -> Requests]
  /\ hand'[h].pc = pc /\ hand'[h].ev = hand[h].ev /\ hand'[h].live = live
  /\ hand'[h].first = first /\ hand'[h].found = found
  /\ \A g \in Handlers \ {h} : hand'[g] = hand[g]

Rests(h) ==
  /\ hand' \in [Handlers -> Requests] /\ hand'[h].pc = "idle" /\ ~hand'[h].first
  /\ \A g \in Handlers \ {h} : hand'[g] = hand[g]

(* What each statement of a handler leaves in its request.                   *)
LEMMA HandlerFields ==
  ASSUME TypeOK, NEW h \in Handlers
  PROVE  /\ ReadBefore(h) =>
              Becomes(h, "select", hand[h].live, row = None \/ row.sub # Ev(h).sub,
                      hand[h].found)
         /\ SelectRow(h) =>
              Becomes(h, "write", hand[h].live, hand[h].first, row # None)
         /\ WriteRow(h) /\ ~Conflicts(h) =>
              Becomes(h, "plan", "none", hand[h].first, FALSE)
         /\ WritePlan(h) =>
              Becomes(h, IF hand[h].first THEN "mail" ELSE "answer", hand[h].live, FALSE,
                      hand[h].found)
         /\ SendConverted(h) \/ UpdateBySubscription(h) =>
              Becomes(h, "answer", hand[h].live, hand[h].first, hand[h].found)
         /\ (WriteRow(h) /\ Conflicts(h)) \/ Answer(h) \/ RequestFails(h) => Rests(h)
<1>1. hand[h] \in Requests
  BY EventTypes
<1>2. ReadBefore(h) =>
        Becomes(h, "select", hand[h].live, row = None \/ row.sub # Ev(h).sub, hand[h].found)
  <2>1. /\ Read(h).pc = "select" /\ Read(h).ev = hand[h].ev /\ Read(h).live = hand[h].live
        /\ Read(h).first = (row = None \/ row.sub # Ev(h).sub)
        /\ Read(h).found = hand[h].found
    BY <1>1 DEF Read, Requests
  <2>2. QED BY <2>1, HandlersMove DEF OnlyHand, Becomes
<1>3. SelectRow(h) => Becomes(h, "write", hand[h].live, hand[h].first, row # None)
  <2>1. /\ Selected(h).pc = "write" /\ Selected(h).ev = hand[h].ev
        /\ Selected(h).live = hand[h].live /\ Selected(h).first = hand[h].first
        /\ Selected(h).found = (row # None)
    BY <1>1 DEF Selected, Requests
  <2>2. QED BY <2>1, HandlersMove DEF OnlyHand, Becomes
<1>4. WriteRow(h) /\ ~Conflicts(h) => Becomes(h, "plan", "none", hand[h].first, FALSE)
  <2>1. /\ Written(h).pc = "plan" /\ Written(h).ev = hand[h].ev /\ Written(h).live = "none"
        /\ Written(h).first = hand[h].first /\ Written(h).found = FALSE
    BY <1>1 DEF Written, Requests
  <2>2. QED BY <2>1, HandlersMove DEF OnlyHand, Becomes
<1>5. WritePlan(h) =>
        Becomes(h, IF hand[h].first THEN "mail" ELSE "answer", hand[h].live, FALSE,
                hand[h].found)
  <2>1. /\ Planned(h).pc = (IF hand[h].first THEN "mail" ELSE "answer")
        /\ Planned(h).ev = hand[h].ev /\ Planned(h).live = hand[h].live
        /\ Planned(h).first = FALSE /\ Planned(h).found = hand[h].found
    BY <1>1 DEF Planned, Requests
  <2>2. QED BY <2>1, HandlersMove DEF OnlyHand, Becomes
<1>6. SendConverted(h) \/ UpdateBySubscription(h) =>
        Becomes(h, "answer", hand[h].live, hand[h].first, hand[h].found)
  <2>1. /\ Answering(h).pc = "answer" /\ Answering(h).ev = hand[h].ev
        /\ Answering(h).live = hand[h].live /\ Answering(h).first = hand[h].first
        /\ Answering(h).found = hand[h].found
    BY <1>1 DEF Answering, Requests
  <2>2. QED BY <2>1, HandlersMove DEF OnlyHand, Becomes
<1>7. (WriteRow(h) /\ Conflicts(h)) \/ Answer(h) \/ RequestFails(h) => Rests(h)
  <2>1. Idle.pc = "idle" /\ ~Idle.first
    BY DEF Idle
  <2>2. QED BY <2>1, HandlersMove DEF OnlyHand, Rests
<1>8. QED BY <1>2, <1>3, <1>4, <1>5, <1>6, <1>7

(* What a delivery leaves in the request that takes it.                      *)
LEMMA DeliverFields ==
  ASSUME TypeOK, NEW h \in Handlers, NEW n \in DOMAIN log, Deliver(h, n)
  PROVE  /\ hand' \in [Handlers -> Requests]
         /\ hand'[h].pc = FirstStage(log[n]) /\ hand'[h].ev = n
         /\ hand'[h].live = IF log[n].kind = "completed" THEN stripe[log[n].sub]
                            ELSE log[n].status
         /\ hand'[h].first = FALSE /\ hand'[h].found = FALSE
         /\ \A g \in Handlers \ {h} : hand'[g] = hand[g]
<1>1. OnlyHand(h, Delivered(n))
  BY HandlersMove
<1>2. QED BY <1>1, DeliveredFields DEF OnlyHand

(* Steps that concern neither the requests nor what Stripe has emitted.      *)
OtherStep ==
  \/ TrialNearsEnd \/ TrialInsert \/ TrialPlan \/ TrialFails
  \/ \E call \in {"override", "extend"} : AdminReads(call)
  \/ \E plan \in Plans : overrideWorkspacePlan(plan)
  \/ extendTrial
  \/ \E r \in Reminders : FindTrials(r) \/ ClaimReminder(r) \/ SendReminder(r)

(* Stripe emits an event: the next of the log, which nobody has seen.        *)
EmitStep ==
  \E s \in Subs, e \in Events :
    /\ e.sub = s /\ stripe' = [stripe EXCEPT ![s] = e.status]
    /\ log' = Append(log, e)
    /\ e.kind = "completed" => stripe[s] = "none"
    /\ e.kind # "completed" => stripe[s] # "none"
    /\ e.kind = "deleted" => e.status = "canceled"
    /\ Len(log) < scenario.events
    /\ UNCHANGED <<acked, table, trial, admin, hand, remind, bounds, history>>

(* A checkout, a change and a cancellation each emit an event.               *)
LEMMA EmitIsEmit ==
  ASSUME TypeOK, NEW s \in Subs,
         CheckOut(s) \/ Cancel(s) \/ \E st \in StripeStatuses : Change(s, st)
  PROVE  EmitStep
<1>1. PICK kind \in {"completed", "updated", "deleted"}, st \in StripeStatuses,
           previous \in StripeStatuses \cup {None} :
        /\ Emit(s, kind, st, previous)
        /\ kind = "completed" => stripe[s] = "none"
        /\ kind # "completed" => stripe[s] # "none"
        /\ kind = "deleted" => st = "canceled"
  <2>1. CASE CheckOut(s)
    BY <2>1 DEF CheckOut, StripeStatuses
  <2>2. CASE Cancel(s)
    BY <2>2 DEF Cancel, StripeStatuses
  <2>3. ASSUME NEW st \in StripeStatuses, Change(s, st)
        PROVE  /\ Emit(s, "updated", st, stripe[s])
               /\ stripe[s] # "none" /\ stripe[s] \in StripeStatuses
    BY <2>3 DEF Change, TypeOK
  <2>4. QED BY <2>1, <2>2, <2>3
<1> DEFINE e == [kind |-> kind, sub |-> s, status |-> st, previous |-> previous]
<1>2. e \in Events
  BY DEF Events
<1>3. e.sub = s /\ e.status = st /\ e.kind = kind
  OBVIOUS
<1>4. QED BY <1>1, <1>2, <1>3 DEF Emit, EmitStep

(* Every step is one of these.                                               *)
LEMMA StepKinds ==
  ASSUME TypeOK, Next
  PROVE  \/ EmitStep \/ OtherStep
         \/ \E h \in Handlers : HandlerStep(h) \/ RequestFails(h)
         \/ \E h \in Handlers, n \in DOMAIN log : Deliver(h, n)
BY EmitIsEmit DEF Next, OtherStep

(* What tears the plans has a name, and no step but a sync that writes alone *)
(* forgets it.                                                               *)
LEMMA TearsAreKept ==
  ASSUME TypeOK, Next
  PROVE  /\ torn' \subseteq Tears
         /\ torn' = {} => torn = {} \/ \E h \in Handlers : WritePlan(h) /\ WritesAlone(h)
<1> USE DEF stripeVars, table, bounds, history
<1>0. torn \subseteq Tears
  BY DEF TypeOK
<1>1. CASE TrialFails
  BY <1>0, <1>1 DEF TrialFails, Tears
<1>2. CASE \E plan \in Plans : overrideWorkspacePlan(plan)
  BY <1>0, <1>2 DEF overrideWorkspacePlan, Tears
<1>3. CASE \E h \in Handlers : SelectRow(h)
  BY <1>0, <1>3 DEF SelectRow, Tears
<1>4. CASE \E h \in Handlers : RequestFails(h)
  BY <1>0, <1>4 DEF RequestFails, Tears
<1>5. CASE \E h \in Handlers : WritePlan(h)
  <2>1. PICK h \in Handlers : WritePlan(h)
    BY <1>5
  <2>2. torn' = IF WritesAlone(h) THEN {} ELSE torn
    BY <2>1 DEF WritePlan
  <2>3. QED BY <1>0, <2>1, <2>2
<1>6. CASE EmitStep \/ \E h \in Handlers, n \in DOMAIN log : Deliver(h, n)
  BY <1>0, <1>6 DEF EmitStep, Deliver
<1>7. CASE OtherStep /\ ~TrialFails /\ ~\E plan \in Plans : overrideWorkspacePlan(plan)
  BY <1>0, <1>7 DEF OtherStep, TrialNearsEnd, TrialInsert, TrialPlan, AdminReads, extendTrial,
     FindTrials, ClaimReminder, SendReminder
<1>8. CASE \E h \in Handlers : ReadBefore(h) \/ WriteRow(h) \/ SendConverted(h)
                             \/ UpdateBySubscription(h) \/ Answer(h)
  BY <1>0, <1>8 DEF ReadBefore, WriteRow, SendConverted, UpdateBySubscription, Answer
<1>9. QED BY <1>1, <1>2, <1>3, <1>4, <1>5, <1>6, <1>7, <1>8, StepKinds DEF HandlerStep

-----------------------------------------------------------------------------
(* Types.                                                                    *)

LEMMA InitType == Init => TypeOK
<1> SUFFICES ASSUME Init PROVE TypeOK
  OBVIOUS
<1>1. log \in Seq(Events) /\ acked \subseteq DOMAIN log
  BY DEF Init
<1>2. hand \in [Handlers -> Requests]
  BY DEF Init, Idle, Requests, HandStages
<1>3. 0 \in 0..scenario.faults /\ 0 \in 0..scenario.admin
  BY BillingAssumption DEF Init
<1>4. QED BY <1>1, <1>2, <1>3 DEF Init, TypeOK, Plans, NoCall, Idle

(* A row that a statement leaves is a row.                                   *)
LEMMA RowsStayRows ==
  ASSUME TypeOK, RemindInv, HandInv, Next
  PROVE  row' \in Rows \cup {None} /\ wsPlan' \in Plans
<1> USE DEF stripeVars, table, bounds, history
<1>1. CASE EmitStep
  BY <1>1 DEF EmitStep, TypeOK
<1>2. CASE OtherStep
  <2>1. row' \in Rows \cup {None}
    <3>1. CASE TrialNearsEnd
      BY <3>1 DEF TrialNearsEnd, TypeOK, Rows
    <3>2. CASE TrialInsert
      <4>1. [plan |-> "growth", status |-> "trialing", sub |-> None,
             ends |-> "later", reminded |-> FALSE] \in Rows
        BY DEF Rows, Plans, Statuses
      <4>2. QED BY <3>2, <4>1 DEF TrialInsert, TypeOK
    <3>3. CASE extendTrial
      BY <3>3 DEF extendTrial, TypeOK, Rows, Plans, Statuses
    <3>4. ASSUME NEW plan \in Plans, overrideWorkspacePlan(plan)
          PROVE  row' \in Rows \cup {None}
      BY <3>4 DEF overrideWorkspacePlan, TypeOK, Rows, Statuses
    <3>5. ASSUME NEW r \in Reminders, ClaimReminder(r)
          PROVE  row' \in Rows \cup {None}
      BY <3>5 DEF ClaimReminder, TypeOK, RemindInv, Rows
    <3>6. CASE \/ TrialPlan \/ TrialFails
               \/ \E call \in {"override", "extend"} : AdminReads(call)
               \/ \E r \in Reminders : FindTrials(r) \/ SendReminder(r)
      BY <3>6 DEF TrialPlan, TrialFails, AdminReads, FindTrials, SendReminder, TypeOK
    <3>7. QED BY <1>2, <3>1, <3>2, <3>3, <3>4, <3>5, <3>6 DEF OtherStep
  <2>2. wsPlan' \in Plans
    BY <1>2 DEF OtherStep, TrialNearsEnd, TrialInsert, TrialPlan, TrialFails, AdminReads,
       overrideWorkspacePlan, extendTrial, FindTrials, ClaimReminder, SendReminder,
       TypeOK, Plans
  <2>3. QED BY <2>1, <2>2
<1>3. ASSUME NEW h \in Handlers, HandlerStep(h) \/ RequestFails(h)
      PROVE  row' \in Rows \cup {None} /\ wsPlan' \in Plans
  <2>1. hand[h].pc # "idle" => Ev(h).sub \in Subs /\ PlanOf[Ev(h).sub] \in Plans
    BY EventTypes, BillingAssumption
  <2>2. hand[h].pc \in Before => mapStripeStatus(hand[h].live) \in Statuses
    BY EventTypes DEF HandInv, HadStatus, mapStripeStatus, StripeStatuses, Statuses
  <2>3. CASE WriteRow(h)
    <3>1. SyncedRow(h) \in Rows
      BY <2>1, <2>2, <2>3 DEF WriteRow, SyncedRow, Rows, TypeOK, Before
    <3>2. QED BY <2>3, <3>1 DEF WriteRow, TypeOK
  <2>4. CASE UpdateBySubscription(h)
    BY <2>1, <2>2, <2>4 DEF UpdateBySubscription, TypeOK, Rows, Statuses, Before
  <2>5. CASE WritePlan(h)
    BY <2>1, <2>5 DEF WritePlan, TypeOK
  <2>6. CASE \/ ReadBefore(h) \/ SelectRow(h) \/ SendConverted(h) \/ Answer(h)
             \/ RequestFails(h)
    BY <2>6 DEF ReadBefore, SelectRow, SendConverted, Answer, RequestFails, TypeOK
  <2>7. QED BY <1>3, <2>3, <2>4, <2>5, <2>6 DEF HandlerStep
<1>4. ASSUME NEW h \in Handlers, NEW n \in DOMAIN log, Deliver(h, n)
      PROVE  row' \in Rows \cup {None} /\ wsPlan' \in Plans
  BY <1>4 DEF Deliver, TypeOK
<1>5. QED BY <1>1, <1>2, <1>3, <1>4, StepKinds

(* Stripe's step keeps what there was, and adds an event at the end.         *)
LEMMA EmitAppends ==
  ASSUME TypeOK, EmitStep
  PROVE  /\ log' \in Seq(Events) /\ DOMAIN log \subseteq DOMAIN log'
         /\ Len(log') = Len(log) + 1 /\ DOMAIN log' = DOMAIN log \cup {Len(log) + 1}
         /\ Len(log) + 1 \notin DOMAIN log
         /\ \A n \in DOMAIN log : log'[n] = log[n] /\ n < Len(log) + 1
<1>1. PICK e \in Events : log' = Append(log, e)
  BY DEF EmitStep
<1>2. log \in Seq(Events)
  BY DEF TypeOK
<1>3. QED BY <1>1, <1>2

(* Every step keeps the types.                                               *)
LEMMA NextKeepsType ==
  ASSUME TypeOK, RemindInv, HandInv, Next
  PROVE  TypeOK'
<1> USE DEF stripeVars, table, bounds, history
<1>0. row' \in Rows \cup {None} /\ wsPlan' \in Plans /\ torn' \subseteq Tears
  BY RowsStayRows, TearsAreKept
<1>1. /\ scenario' = scenario /\ scenario.faults \in Nat /\ scenario.admin \in Nat
  <2>1. scenario' = scenario
    BY StepKinds DEF EmitStep, OtherStep, HandlerStep, TrialNearsEnd, TrialInsert,
       TrialPlan, TrialFails, AdminReads, overrideWorkspacePlan, extendTrial, FindTrials,
       ClaimReminder, SendReminder, ReadBefore, SelectRow, WriteRow, WritePlan,
       SendConverted, UpdateBySubscription, Answer, RequestFails, Deliver
  <2>2. QED BY <2>1, BillingAssumption DEF TypeOK
<1>2. CASE EmitStep
  <2>1. PICK s \in Subs, e \in Events : stripe' = [stripe EXCEPT ![s] = e.status]
    BY <1>2 DEF EmitStep
  <2>2. stripe' \in [Subs -> StripeStatuses \cup {"none"}]
    BY <2>1 DEF TypeOK, Events
  <2>3. UNCHANGED <<acked, table, trial, admin, hand, remind, bounds, history>>
    BY <1>2 DEF EmitStep
  <2>4. log' \in Seq(Events) /\ DOMAIN log \subseteq DOMAIN log'
    BY <1>2, EmitAppends
  <2>5. QED BY <2>2, <2>3, <2>4 DEF TypeOK
<1>3. CASE OtherStep
  <2>1. UNCHANGED <<stripe, log, acked, hand, converted, doubt, tidy>>
    BY <1>3 DEF OtherStep, TrialNearsEnd, TrialInsert, TrialPlan, TrialFails, AdminReads,
       overrideWorkspacePlan, extendTrial, FindTrials, ClaimReminder, SendReminder
  <2>2. trial' \in {"insert", "plan", "done"}
    BY <1>3 DEF OtherStep, TrialNearsEnd, TrialInsert, TrialPlan, TrialFails,
       AdminReads, overrideWorkspacePlan, extendTrial, FindTrials, ClaimReminder,
       SendReminder, TypeOK
  <2>3. faults' \in 0..scenario.faults
    <3>1. CASE TrialFails
      BY <1>1, <3>1 DEF TrialFails, TypeOK
    <3>2. CASE ~TrialFails
      BY <1>3, <3>2 DEF OtherStep, TrialNearsEnd, TrialInsert, TrialPlan, AdminReads,
         overrideWorkspacePlan, extendTrial, FindTrials, ClaimReminder, SendReminder, TypeOK
    <3>3. QED BY <3>1, <3>2
  <2>6. /\ admin' \in [pc : {"idle", "override", "extend"}, found : BOOLEAN]
        /\ adminCalls' \in 0..scenario.admin
    <3>1. ASSUME NEW call \in {"override", "extend"}, AdminReads(call)
          PROVE  /\ admin' \in [pc : {"idle", "override", "extend"}, found : BOOLEAN]
                 /\ adminCalls' \in 0..scenario.admin
      <4>1. adminCalls < scenario.admin /\ adminCalls' = adminCalls + 1
            /\ admin' = [pc |-> call, found |-> row # None]
        BY <3>1 DEF AdminReads
      <4>2. QED BY <1>1, <4>1 DEF TypeOK
    <3>2. CASE (\E plan \in Plans : overrideWorkspacePlan(plan)) \/ extendTrial
      <4>1. admin' = NoCall /\ adminCalls' = adminCalls
        BY <3>2 DEF overrideWorkspacePlan, extendTrial
      <4>2. QED BY <4>1 DEF TypeOK, NoCall
    <3>3. CASE \/ TrialNearsEnd \/ TrialInsert \/ TrialPlan \/ TrialFails
               \/ \E r \in Reminders : FindTrials(r) \/ ClaimReminder(r) \/ SendReminder(r)
      BY <3>3 DEF TrialNearsEnd, TrialInsert, TrialPlan, TrialFails, FindTrials,
         ClaimReminder, SendReminder, TypeOK
    <3>4. QED BY <1>3, <3>1, <3>2, <3>3 DEF OtherStep
  <2>4. remind' \in [Reminders -> {"idle", "claim", "mail"}] /\ reminded' \in Nat
    <3>1. CASE \E r \in Reminders : FindTrials(r) \/ ClaimReminder(r) \/ SendReminder(r)
      BY <3>1 DEF FindTrials, ClaimReminder, SendReminder, TypeOK
    <3>2. CASE ~\E r \in Reminders : FindTrials(r) \/ ClaimReminder(r) \/ SendReminder(r)
      <4>1. remind' = remind /\ reminded' = reminded
        BY <1>3, <3>2 DEF OtherStep, TrialNearsEnd, TrialInsert, TrialPlan, TrialFails,
           AdminReads, overrideWorkspacePlan, extendTrial
      <4>2. QED BY <4>1 DEF TypeOK
    <3>3. QED BY <3>1, <3>2
  <2>5. QED BY <1>0, <1>1, <2>1, <2>2, <2>3, <2>4, <2>6 DEF TypeOK
<1>4. ASSUME NEW h \in Handlers, HandlerStep(h) \/ RequestFails(h)
      PROVE  TypeOK'
  <2>1. UNCHANGED <<stripe, log, trial, admin, remind, adminCalls, reminded, tidy>>
    BY <1>4 DEF HandlerStep, ReadBefore, SelectRow, WriteRow, WritePlan, SendConverted,
       UpdateBySubscription, Answer, RequestFails
  <2>2. /\ hand' \in [Handlers -> Requests]
        /\ \A g \in Handlers : hand'[g].pc # "idle" => hand'[g].ev \in DOMAIN log
    <3>1. CASE \/ ReadBefore(h) \/ SelectRow(h) \/ (WriteRow(h) /\ ~Conflicts(h))
               \/ WritePlan(h) \/ SendConverted(h) \/ UpdateBySubscription(h)
      <4>1. hand[h].pc # "idle"
        BY <3>1 DEF ReadBefore, SelectRow, WriteRow, WritePlan, SendConverted,
           UpdateBySubscription
      <4>2. /\ hand' \in [Handlers -> Requests] /\ hand'[h].ev = hand[h].ev
            /\ \A g \in Handlers \ {h} : hand'[g] = hand[g]
        BY <3>1, HandlerFields DEF Becomes
      <4>3. QED BY <4>1, <4>2, EventTypes
    <3>2. CASE (WriteRow(h) /\ Conflicts(h)) \/ Answer(h) \/ RequestFails(h)
      <4>1. Rests(h)
        BY <3>2, HandlerFields
      <4>2. QED BY <4>1, EventTypes DEF Rests
    <3>3. QED BY <1>4, <3>1, <3>2 DEF HandlerStep
  <2>3. acked' \subseteq DOMAIN log
    BY <1>4, EventTypes DEF HandlerStep, ReadBefore, SelectRow, WriteRow, WritePlan,
       SendConverted, UpdateBySubscription, Answer, RequestFails, TypeOK
  <2>4. faults' \in 0..scenario.faults
    <3>1. CASE RequestFails(h)
      BY <1>1, <3>1 DEF RequestFails, TypeOK
    <3>2. CASE HandlerStep(h)
      BY <3>2 DEF HandlerStep, ReadBefore, SelectRow, WriteRow, WritePlan, SendConverted,
         UpdateBySubscription, Answer, TypeOK
    <3>3. QED BY <1>4, <3>1, <3>2
  <2>5. doubt' \subseteq Subs
    <3>1. row # None /\ row.sub # None => row.sub \in Subs
      BY DEF TypeOK, Rows
    <3>2. QED BY <1>4, <3>1 DEF HandlerStep, ReadBefore, SelectRow, WriteRow, WritePlan,
             SendConverted, UpdateBySubscription, Answer, RequestFails, TypeOK
  <2>6. converted' \in [Subs -> Nat]
    BY <1>4, EventTypes DEF HandlerStep, ReadBefore, SelectRow, WriteRow, WritePlan,
       SendConverted, UpdateBySubscription, Answer, RequestFails, TypeOK
  <2>7. QED BY <1>0, <1>1, <2>1, <2>2, <2>3, <2>4, <2>5, <2>6 DEF TypeOK
<1>5. ASSUME NEW h \in Handlers, NEW n \in DOMAIN log, Deliver(h, n)
      PROVE  TypeOK'
  <2>1. /\ UNCHANGED <<stripe, log, acked, trial, admin, remind, bounds, reminded,
                       converted, torn>>
        /\ tidy' \in BOOLEAN /\ doubt' \subseteq Subs
    BY <1>5, EventTypes DEF Deliver, TypeOK
  <2>2. /\ hand' \in [Handlers -> Requests]
        /\ \A g \in Handlers : hand'[g].pc # "idle" => hand'[g].ev \in DOMAIN log
    BY <1>5, DeliverFields, EventTypes
  <2>3. QED BY <1>0, <1>1, <2>1, <2>2 DEF TypeOK
<1>6. QED BY <1>2, <1>3, <1>4, <1>5, StepKinds

-----------------------------------------------------------------------------
(* The log and the requests.                                                 *)

(* What Stripe has emitted stays, and a new event is the last.               *)
LEMMA NextKeepsLog ==
  ASSUME TypeOK, LogInv, Next
  PROVE  LogInv'
<1> USE DEF stripeVars, table, bounds, history
<1>1. CASE EmitStep
  <2>1. PICK s \in Subs, e \in Events :
          /\ e.sub = s /\ stripe' = [stripe EXCEPT ![s] = e.status]
          /\ log' = Append(log, e)
          /\ e.kind = "completed" => stripe[s] = "none"
          /\ e.kind # "completed" => stripe[s] # "none"
          /\ e.kind = "deleted" => e.status = "canceled"
    BY <1>1 DEF EmitStep
  <2> DEFINE last == Len(log) + 1
  <2>2. /\ DOMAIN log' = DOMAIN log \cup {last} /\ last \notin DOMAIN log
        /\ \A n \in DOMAIN log : log'[n] = log[n] /\ n < last /\ n \in Nat
        /\ log'[last] = e /\ last \in Nat
    <3>1. log \in Seq(Events)
      BY DEF TypeOK
    <3>2. log'[last] = e
      BY <2>1, <3>1
    <3>3. QED BY <1>1, <3>2, EmitAppends, EventTypes
  <2>3. /\ stripe'[s] = e.status /\ e.status \in StripeStatuses /\ e.status # "none"
        /\ \A t \in Subs \ {s} : stripe'[t] = stripe[t]
    BY <2>1 DEF TypeOK, Events, StripeStatuses
  <2> HIDE DEF last
  <2>4. \A n \in DOMAIN log' : stripe'[log'[n].sub] # "none"
    BY <2>1, <2>2, <2>3, EventTypes DEF LogInv
  <2>5. ASSUME NEW n \in DOMAIN log', \A m \in DOMAIN log' : log'[m].sub = log'[n].sub => m <= n
        PROVE  log'[n].status = stripe'[log'[n].sub]
    <3>1. CASE n = last
      BY <2>1, <2>2, <2>3, <3>1
    <3>2. CASE n # last
      <4>1. n \in DOMAIN log /\ log'[n] = log[n] /\ log[n].sub # s
        BY <2>1, <2>2, <2>5, <3>2
      <4>2. LastOf(n)
        BY <2>2, <2>5, <4>1 DEF LastOf
      <4>3. QED BY <2>3, <4>1, <4>2, EventTypes DEF LogInv
    <3>3. QED BY <3>1, <3>2
  <2>6. \A n \in DOMAIN log' : log'[n].kind = "deleted" => log'[n].status = "canceled"
    BY <2>1, <2>2 DEF LogInv
  <2>7. ASSUME NEW t \in Subs, stripe'[t] # "none"
        PROVE  \E n \in DOMAIN log' : log'[n].sub = t /\ log'[n].status = stripe'[t]
    BY <2>1, <2>2, <2>3, <2>7 DEF LogInv, HadStatus
  <2>8. \A m, n \in DOMAIN log' :
          log'[m].kind = "completed" /\ log'[n].kind = "completed" /\ log'[m].sub = log'[n].sub
            => m = n
    BY <2>1, <2>2 DEF LogInv
  <2>9. QED BY <2>4, <2>5, <2>6, <2>7, <2>8 DEF LogInv, LastOf, HadStatus
<1>2. CASE UNCHANGED <<stripe, log>>
  BY <1>2 DEF LogInv, LastOf, HadStatus
<1>3. CASE ~EmitStep
  <2>1. UNCHANGED <<stripe, log>>
    BY <1>3, StepKinds DEF OtherStep, HandlerStep, TrialNearsEnd, TrialInsert,
       TrialPlan, TrialFails, AdminReads, overrideWorkspacePlan, extendTrial, FindTrials,
       ClaimReminder, SendReminder, ReadBefore, SelectRow, WriteRow, WritePlan,
       SendConverted, UpdateBySubscription, Answer, RequestFails, Deliver
  <2>2. QED BY <1>2, <2>1
<1>4. QED BY <1>1, <1>3

(* A request carries what its event said, or what Stripe says now.           *)
LEMMA NextKeepsHands ==
  ASSUME TypeOK, LogInv, HandInv, Next
  PROVE  HandInv'
<1> USE DEF stripeVars, table, bounds, history
<1> DEFINE Fits(h) ==
      /\ hand[h].pc \in Before =>
           /\ HadStatus(Ev(h).sub, hand[h].live)
           /\ LastOf(hand[h].ev) => hand[h].live = stripe[Ev(h).sub]
      /\ hand[h].pc \in {"before", "select", "write", "plan", "mail"} => Syncs(hand[h].ev)
      /\ hand[h].pc = "one" => ~Syncs(hand[h].ev)
      /\ hand[h].pc \in {"before", "mail"} \/ hand[h].first => Ev(h).kind = "completed"
      /\ hand[h].first => hand[h].pc \in {"select", "write", "plan"}
<1>1. CASE EmitStep
  <2>1. PICK s \in Subs, e \in Events :
          /\ e.sub = s /\ stripe' = [stripe EXCEPT ![s] = e.status]
          /\ log' = Append(log, e) /\ UNCHANGED <<hand, doubt>>
    BY <1>1 DEF EmitStep
  <2> DEFINE last == Len(log) + 1
  <2>2. /\ DOMAIN log' = DOMAIN log \cup {last}
        /\ \A n \in DOMAIN log : log'[n] = log[n] /\ n < last /\ n \in Nat
        /\ log'[last] = e /\ last \in Nat
    <3>1. log \in Seq(Events)
      BY DEF TypeOK
    <3>2. log'[last] = e
      BY <2>1, <3>1
    <3>3. QED BY <1>1, <3>2, EmitAppends, EventTypes
  <2> HIDE DEF last
  <2>3. \A h \in Handlers : hand[h].pc # "idle" =>
          hand[h].ev \in DOMAIN log /\ log'[hand[h].ev] = log[hand[h].ev]
    BY <2>2, EventTypes
  <2>4. ASSUME NEW h \in Handlers, hand[h].pc \in Before
        PROVE  /\ \E n \in DOMAIN log' :
                    log'[n].sub = log'[hand[h].ev].sub /\ log'[n].status = hand[h].live
               /\ (\A m \in DOMAIN log' : log'[m].sub = log'[hand[h].ev].sub => m <= hand[h].ev)
                    => hand[h].live = stripe'[log'[hand[h].ev].sub]
    <3>1. hand[h].ev \in DOMAIN log /\ log'[hand[h].ev] = log[hand[h].ev] /\ Ev(h).sub \in Subs
      BY <2>3, <2>4, EventTypes DEF Before
    <3>2. \E n \in DOMAIN log' :
            log'[n].sub = log'[hand[h].ev].sub /\ log'[n].status = hand[h].live
      BY <2>2, <2>4, <3>1 DEF HandInv, HadStatus, Ev
    <3>3. ASSUME \A m \in DOMAIN log' : log'[m].sub = log'[hand[h].ev].sub => m <= hand[h].ev
          PROVE  hand[h].live = stripe'[log'[hand[h].ev].sub]
      <4>1. log[hand[h].ev].sub # s
        BY <2>1, <2>2, <3>1, <3>3
      <4>2. LastOf(hand[h].ev)
        BY <2>2, <3>1, <3>3 DEF LastOf
      <4>3. hand[h].live = stripe[Ev(h).sub]
        BY <2>4, <4>2 DEF HandInv
      <4>4. QED BY <2>1, <3>1, <4>1, <4>3 DEF Ev, TypeOK
    <3>4. QED BY <3>2, <3>3
  <2>5. QED BY <2>1, <2>3, <2>4 DEF HandInv, HadStatus, LastOf, Ev, Syncs, Before
<1>2. CASE OtherStep
  <2>1. UNCHANGED <<stripe, log, hand, doubt>>
    BY <1>2 DEF OtherStep, TrialNearsEnd, TrialInsert, TrialPlan, TrialFails, AdminReads,
       overrideWorkspacePlan, extendTrial, FindTrials, ClaimReminder, SendReminder
  <2>2. QED BY <2>1 DEF HandInv, HadStatus, LastOf, Ev, Syncs
<1>3. ASSUME NEW h \in Handlers, NEW r \in Requests, OnlyHand(h, r), UNCHANGED <<stripe, log>>,
             doubt \subseteq doubt',
             r.pc \in Before =>
               /\ HadStatus(log[r.ev].sub, r.live)
               /\ LastOf(r.ev) => r.live = stripe[log[r.ev].sub],
             r.pc \in {"before", "select", "write", "plan", "mail"} => Syncs(r.ev),
             r.pc = "one" => ~Syncs(r.ev),
             r.pc \in {"before", "mail"} \/ r.first => log[r.ev].kind = "completed",
             r.first => r.pc \in {"select", "write", "plan"},
             \A g \in Handlers \ {h} :
               r.pc # "idle" /\ hand[g].pc # "idle" /\ hand[g].ev = r.ev
                 => log[r.ev].sub \in doubt'
      PROVE  HandInv'
  <2>1. \A g \in Handlers : hand'[g] = IF g = h THEN r ELSE hand[g]
    BY <1>3 DEF OnlyHand
  <2>2. \A g \in Handlers : Fits(g)
    BY DEF HandInv
  <2>3. \A g \in Handlers : Fits(g)'
    <3>1. ASSUME NEW g \in Handlers, g # h
          PROVE  Fits(g)'
      <4>1. hand'[g] = hand[g]
        BY <2>1, <3>1
      <4>2. QED BY <1>3, <2>2, <4>1 DEF HadStatus, LastOf, Ev, Syncs
    <3>2. Fits(h)'
      <4>1. hand'[h] = r
        BY <2>1
      <4>2. QED BY <1>3, <4>1 DEF HadStatus, LastOf, Ev, Syncs
    <3>3. QED BY <3>1, <3>2
  <2>4. (\A f, g \in Handlers :
           f # g /\ hand[f].pc # "idle" /\ hand[g].pc # "idle" /\ hand[f].ev = hand[g].ev
             => Ev(f).sub \in doubt)'
    BY <1>3, <2>1 DEF HandInv, Ev
  <2>5. QED BY <2>3, <2>4 DEF HandInv
<1>4. ASSUME NEW h \in Handlers, HandlerStep(h) \/ RequestFails(h)
      PROVE  HandInv'
  <2>1. UNCHANGED <<stripe, log>> /\ doubt \subseteq doubt'
    BY <1>4 DEF HandlerStep, ReadBefore, SelectRow, WriteRow, WritePlan, SendConverted,
       UpdateBySubscription, Answer, RequestFails
  <2>2. hand[h] \in Requests
    BY EventTypes
  <2>3. Fits(h) /\ \A g \in Handlers \ {h} :
          hand[h].pc # "idle" /\ hand[g].pc # "idle" /\ hand[g].ev = hand[h].ev
            => log[hand[h].ev].sub \in doubt
    BY DEF HandInv, Ev
  <2>4. CASE ReadBefore(h)
    <3>1. OnlyHand(h, Read(h))
      BY <2>4, HandlersMove
    <3>2. /\ Read(h) \in Requests /\ Read(h).pc = "select" /\ Read(h).ev = hand[h].ev
          /\ Read(h).live = hand[h].live
      BY <2>2 DEF Read, Requests, HandStages
    <3>3. hand[h].pc = "before"
      BY <2>4 DEF ReadBefore
    <3>4. QED BY <1>3, <2>1, <2>3, <3>1, <3>2, <3>3 DEF Before, Ev
  <2>5. CASE SelectRow(h)
    <3>1. OnlyHand(h, Selected(h))
      BY <2>5, HandlersMove
    <3>2. /\ Selected(h) \in Requests /\ Selected(h).pc = "write"
          /\ Selected(h).ev = hand[h].ev /\ Selected(h).first = hand[h].first
          /\ Selected(h).live = hand[h].live
      BY <2>2 DEF Selected, Requests, HandStages
    <3>3. hand[h].pc = "select"
      BY <2>5 DEF SelectRow
    <3>4. QED BY <1>3, <2>1, <2>3, <3>1, <3>2, <3>3 DEF Before, Ev
  <2>6. CASE WriteRow(h) /\ ~Conflicts(h)
    <3>1. OnlyHand(h, Written(h))
      BY <2>6, HandlersMove
    <3>2. /\ Written(h) \in Requests /\ Written(h).pc = "plan"
          /\ Written(h).ev = hand[h].ev /\ Written(h).first = hand[h].first
      BY <2>2 DEF Written, Requests, HandStages
    <3>3. hand[h].pc = "write"
      BY <2>6 DEF WriteRow
    <3>4. QED BY <1>3, <2>1, <2>3, <3>1, <3>2, <3>3 DEF Before, Ev
  <2>7. CASE WritePlan(h)
    <3>1. OnlyHand(h, Planned(h))
      BY <2>7, HandlersMove
    <3>2. /\ Planned(h) \in Requests
          /\ Planned(h).pc = (IF hand[h].first THEN "mail" ELSE "answer")
          /\ Planned(h).ev = hand[h].ev /\ ~Planned(h).first
      BY <2>2 DEF Planned, Requests, HandStages
    <3>3. hand[h].pc = "plan"
      BY <2>7 DEF WritePlan
    <3>4. QED BY <1>3, <2>1, <2>3, <3>1, <3>2, <3>3 DEF Before, Ev
  <2>8. CASE SendConverted(h) \/ UpdateBySubscription(h)
    <3>1. OnlyHand(h, Answering(h))
      BY <2>8, HandlersMove
    <3>2. /\ Answering(h) \in Requests /\ Answering(h).pc = "answer"
          /\ Answering(h).ev = hand[h].ev /\ Answering(h).first = hand[h].first
      BY <2>2 DEF Answering, Requests, HandStages
    <3>3. hand[h].pc \in {"mail", "one"}
      BY <2>8 DEF SendConverted, UpdateBySubscription
    <3>4. QED BY <1>3, <2>1, <2>3, <3>1, <3>2, <3>3 DEF Before, Ev
  <2>9. CASE Answer(h) \/ RequestFails(h) \/ (WriteRow(h) /\ Conflicts(h))
    <3>1. OnlyHand(h, Idle)
      BY <2>9, HandlersMove
    <3>2. Idle \in Requests /\ Idle.pc = "idle" /\ ~Idle.first
      BY DEF Idle, Requests, HandStages
    <3>3. QED BY <1>3, <2>1, <3>1, <3>2 DEF Before
  <2>10. QED BY <1>4, <2>4, <2>5, <2>6, <2>7, <2>8, <2>9 DEF HandlerStep
<1>5. ASSUME NEW h \in Handlers, NEW n \in DOMAIN log, Deliver(h, n)
      PROVE  HandInv'
  <2>1. /\ UNCHANGED <<stripe, log>> /\ doubt \subseteq doubt'
        /\ (\E g \in Handlers : hand[g].pc # "idle" /\ hand[g].ev = n) => log[n].sub \in doubt'
    BY <1>5 DEF Deliver
  <2>2. OnlyHand(h, Delivered(n)) /\ Delivered(n) \in Requests
    BY <1>5, HandlersMove DEF OnlyHand
  <2>3. log[n].sub \in Subs /\ stripe[log[n].sub] # "none"
    BY EventTypes DEF LogInv
  <2>4. /\ HadStatus(log[n].sub, Delivered(n).live)
        /\ LastOf(n) => Delivered(n).live = stripe[log[n].sub]
    <3>1. CASE log[n].kind = "completed"
      <4>1. Delivered(n).live = stripe[log[n].sub]
        BY <3>1, DeliveredFields
      <4>2. QED BY <2>3, <4>1 DEF LogInv
    <3>2. CASE log[n].kind # "completed"
      <4>1. Delivered(n).live = log[n].status
        BY <3>2, DeliveredFields
      <4>2. QED BY <4>1 DEF LogInv, HadStatus
    <3>3. QED BY <3>1, <3>2
  <2>5. /\ FirstStage(log[n]) \in {"before", "select", "one"}
        /\ FirstStage(log[n]) = "before" => log[n].kind = "completed"
    BY DEF FirstStage
  <2>6. /\ Delivered(n).pc = FirstStage(log[n]) /\ Delivered(n).ev = n
        /\ Delivered(n).first = FALSE
    BY DeliveredFields
  <2>7. QED BY <1>3, <2>1, <2>2, <2>4, <2>5, <2>6 DEF Syncs
<1>6. QED BY <1>1, <1>2, <1>4, <1>5, StepKinds

-----------------------------------------------------------------------------
(* The row and the other writers.                                            *)

LEMMA OtherFrame ==
  ASSUME TypeOK, RemindInv, HandInv, OtherStep
  PROVE  /\ UNCHANGED <<stripe, log, acked, hand, converted, doubt, tidy>>
         /\ row # None =>
              /\ row' # None /\ row'.sub = row.sub
              /\ row'.status \in {row.status, "trialing"}
              /\ row.reminded => row'.reminded
         /\ row = None => row' = None \/ row'.sub = None
<1> USE DEF stripeVars, table, bounds, history
<1>1. UNCHANGED <<stripe, log, acked, hand, converted, doubt, tidy>>
  BY DEF OtherStep, TrialNearsEnd, TrialInsert, TrialPlan, TrialFails, AdminReads,
     overrideWorkspacePlan, extendTrial, FindTrials, ClaimReminder, SendReminder
<1>2. row \in Rows \cup {None} /\ None \notin Rows
  BY BillingAssumption DEF TypeOK
<1> DEFINE Kept ==
      /\ row # None =>
           /\ row' # None /\ row'.sub = row.sub
           /\ row'.status \in {row.status, "trialing"}
           /\ row.reminded => row'.reminded
      /\ row = None => row' = None \/ row'.sub = None
<1>3. ASSUME row' = row PROVE Kept
  BY <1>3, Zenon
<1>4. CASE TrialNearsEnd
  BY <1>2, <1>4 DEF TrialNearsEnd, Rows
<1>5. CASE TrialInsert
  BY <1>2, <1>5 DEF TrialInsert
<1>6. CASE extendTrial
  BY <1>2, <1>6 DEF extendTrial, Rows, Statuses
<1>7. ASSUME NEW plan \in Plans, overrideWorkspacePlan(plan)
      PROVE  Kept
  BY <1>2, <1>7 DEF overrideWorkspacePlan, Rows
<1>8. ASSUME NEW r \in Reminders, ClaimReminder(r)
      PROVE  Kept
  BY <1>2, <1>8 DEF ClaimReminder, RemindInv, Rows
<1>9. \/ row' = row \/ TrialNearsEnd \/ TrialInsert \/ extendTrial
      \/ \E plan \in Plans : overrideWorkspacePlan(plan)
      \/ \E r \in Reminders : ClaimReminder(r)
  BY DEF OtherStep, TrialPlan, TrialFails, AdminReads, FindTrials, SendReminder
<1>10. QED BY <1>1, <1>3, <1>4, <1>5, <1>6, <1>7, <1>8, <1>9

(* What a handler's statement does to the row.                               *)
LEMMA HandlerRow ==
  ASSUME TypeOK, HandInv, NEW h \in Handlers
  PROVE  /\ ReadBefore(h) \/ SelectRow(h) \/ (WriteRow(h) /\ Conflicts(h)) \/ WritePlan(h)
            \/ SendConverted(h) \/ Answer(h) \/ RequestFails(h) => row' = row
         /\ WriteRow(h) /\ ~Conflicts(h) =>
              /\ row' # None /\ row'.sub = Ev(h).sub /\ row'.plan = PlanOfHand(h)
              /\ row'.status = mapStripeStatus(hand[h].live)
              /\ row # None /\ row.reminded => row'.reminded
         /\ UpdateBySubscription(h) =>
              /\ row = None => row' = None
              /\ row # None =>
                   /\ row' # None /\ row'.sub = row.sub /\ row'.plan = row.plan
                   /\ row'.reminded = row.reminded
                   /\ row.sub # Ev(h).sub => row' = row
                   /\ row.sub = Ev(h).sub =>
                        row'.status = IF Ev(h).kind = "deleted" THEN "canceled"
                                      ELSE mapStripeStatus(hand[h].live)
<1> USE DEF stripeVars, table, bounds, history
<1>1. row \in Rows \cup {None} /\ None \notin Rows
  BY BillingAssumption DEF TypeOK
<1>2. ReadBefore(h) \/ SelectRow(h) \/ (WriteRow(h) /\ Conflicts(h)) \/ WritePlan(h)
        \/ SendConverted(h) \/ Answer(h) \/ RequestFails(h) => row' = row
  BY DEF ReadBefore, SelectRow, WriteRow, WritePlan, SendConverted, Answer, RequestFails
<1>3. ASSUME WriteRow(h), ~Conflicts(h)
      PROVE  /\ row' # None /\ row'.sub = Ev(h).sub /\ row'.plan = PlanOfHand(h)
             /\ row'.status = mapStripeStatus(hand[h].live)
             /\ row # None /\ row.reminded => row'.reminded
  <2>1. row' = SyncedRow(h) /\ hand[h].pc = "write"
    BY <1>3 DEF WriteRow
  <2>2. /\ SyncedRow(h).sub = Ev(h).sub /\ SyncedRow(h).plan = PlanOfHand(h)
        /\ SyncedRow(h).status = mapStripeStatus(hand[h].live)
        /\ row # None => SyncedRow(h).reminded = row.reminded
    BY DEF SyncedRow, PlanOfHand
  <2>3. SyncedRow(h) \in Rows
    <3>1. Ev(h).sub \in Subs /\ PlanOf[Ev(h).sub] \in Plans
      BY <2>1, EventTypes, BillingAssumption
    <3>2. mapStripeStatus(hand[h].live) \in Statuses
      BY <2>1, EventTypes DEF HandInv, HadStatus, mapStripeStatus, StripeStatuses, Statuses,
         Before
    <3>3. QED BY <1>1, <3>1, <3>2 DEF SyncedRow, Rows
  <2>4. QED BY <1>1, <2>1, <2>2, <2>3
<1>4. ASSUME UpdateBySubscription(h)
      PROVE  /\ row = None => row' = None
             /\ row # None =>
                  /\ row' # None /\ row'.sub = row.sub /\ row'.plan = row.plan
                  /\ row'.reminded = row.reminded
                  /\ row.sub # Ev(h).sub => row' = row
                  /\ row.sub = Ev(h).sub =>
                       row'.status = IF Ev(h).kind = "deleted" THEN "canceled"
                                     ELSE mapStripeStatus(hand[h].live)
  <2>1. CASE row # None /\ row.sub = Ev(h).sub
    <3> DEFINE st == IF Ev(h).kind = "deleted" THEN "canceled"
                     ELSE mapStripeStatus(hand[h].live)
    <3>1. hand[h].pc = "one" /\ row' = [row EXCEPT !.status = st]
      BY <1>4, <2>1 DEF UpdateBySubscription
    <3>2. st \in Statuses
      BY <3>1, EventTypes DEF HandInv, HadStatus, mapStripeStatus, StripeStatuses, Statuses,
         Before
    <3> HIDE DEF st
    <3>3. /\ row \in Rows /\ row' \in Rows /\ row'.status = st /\ row'.sub = row.sub
          /\ row'.plan = row.plan /\ row'.reminded = row.reminded
      BY <1>1, <2>1, <3>1, <3>2 DEF Rows
    <3>4. QED BY <1>1, <2>1, <3>3 DEF st
  <2>2. CASE ~(row # None /\ row.sub = Ev(h).sub)
    BY <1>4, <2>2 DEF UpdateBySubscription
  <2>3. QED BY <2>1, <2>2
<1>5. QED BY <1>2, <1>3, <1>4

-----------------------------------------------------------------------------
(* The reminder.                                                             *)

LEMMA NextKeepsRemind ==
  ASSUME TypeOK, RemindInv, HandInv, Next
  PROVE  RemindInv'
<1> USE DEF stripeVars, table, bounds, history
<1>1. row # None => row' # None /\ (row.reminded => row'.reminded)
  <2>1. CASE EmitStep
    BY <2>1 DEF EmitStep
  <2>2. CASE OtherStep
    BY <2>2, OtherFrame
  <2>3. ASSUME NEW h \in Handlers, HandlerStep(h) \/ RequestFails(h)
        PROVE  row # None => row' # None /\ (row.reminded => row'.reminded)
    BY <2>3, HandlerRow DEF HandlerStep
  <2>4. ASSUME NEW h \in Handlers, NEW n \in DOMAIN log, Deliver(h, n)
        PROVE  row' = row
    BY <2>4 DEF Deliver
  <2>5. QED BY <2>1, <2>2, <2>3, <2>4, StepKinds
<1>2. CASE UNCHANGED <<remind, reminded>>
  BY <1>1, <1>2 DEF RemindInv, Mailing
<1>3. ASSUME NEW r \in Reminders, FindTrials(r)
      PROVE  RemindInv'
  <2>1. /\ remind[r] = "idle" /\ remind' = [remind EXCEPT ![r] = "claim"]
        /\ row # None /\ reminded' = reminded /\ row' = row
    BY <1>3 DEF FindTrials
  <2>2. Mailing' = Mailing
    BY <2>1 DEF Mailing, TypeOK
  <2>3. QED BY <2>1, <2>2 DEF RemindInv, TypeOK
<1>4. ASSUME NEW r \in Reminders, ClaimReminder(r)
      PROVE  RemindInv'
  <2>1. /\ remind[r] = "claim" /\ row # None /\ reminded' = reminded
        /\ remind' = [remind EXCEPT ![r] = IF row.reminded THEN "idle" ELSE "mail"]
    BY <1>4 DEF ClaimReminder, RemindInv
  <2>2. row' # None /\ row'.reminded
    BY <1>1, <1>4, <2>1 DEF ClaimReminder, TypeOK, Rows
  <2>3. CASE row.reminded
    <3>1. Mailing' = Mailing
      BY <2>1, <2>3 DEF Mailing, TypeOK
    <3>2. QED BY <2>1, <2>2, <3>1 DEF RemindInv, TypeOK
  <2>4. CASE ~row.reminded
    <3>1. reminded = 0 /\ Mailing = {}
      BY <2>4 DEF RemindInv
    <3>2. Mailing' = {r}
      BY <2>1, <2>4, <3>1 DEF Mailing, TypeOK
    <3>3. QED BY <2>1, <2>2, <3>1, <3>2 DEF RemindInv
  <2>5. QED BY <2>3, <2>4
<1>5. ASSUME NEW r \in Reminders, SendReminder(r)
      PROVE  RemindInv'
  <2>1. /\ remind[r] = "mail" /\ remind' = [remind EXCEPT ![r] = "idle"]
        /\ reminded' = reminded + 1 /\ row' = row
    BY <1>5 DEF SendReminder
  <2>2. r \in Mailing
    BY <2>1 DEF Mailing
  <2>3. Mailing = {r} /\ reminded = 0 /\ row # None /\ row.reminded
    BY <2>2 DEF RemindInv
  <2>4. Mailing' = {}
    BY <2>1, <2>3 DEF Mailing, TypeOK
  <2>5. QED BY <2>1, <2>3, <2>4 DEF RemindInv
<1>6. \/ UNCHANGED <<remind, reminded>>
      \/ \E r \in Reminders : FindTrials(r) \/ ClaimReminder(r) \/ SendReminder(r)
  BY StepKinds DEF EmitStep, OtherStep, HandlerStep, TrialNearsEnd, TrialInsert, TrialPlan,
     TrialFails, AdminReads, overrideWorkspacePlan, extendTrial, ReadBefore, SelectRow,
     WriteRow, WritePlan, SendConverted, UpdateBySubscription, Answer, RequestFails, Deliver
<1>7. QED BY <1>2, <1>3, <1>4, <1>5, <1>6

-----------------------------------------------------------------------------
(* The conversion mail.                                                      *)

LEMMA NextKeepsConv ==
  ASSUME TypeOK, RemindInv, LogInv, HandInv, ConvInv, Next
  PROVE  ConvInv'
<1> USE DEF stripeVars, table, bounds, history
<1>1. CASE EmitStep
  <2>1. UNCHANGED <<row, hand, converted, doubt>>
    BY <1>1 DEF EmitStep
  <2>2. \A h \in Handlers : hand[h].pc # "idle" => Ev(h)' = Ev(h)
    <3>1. \A h \in Handlers : hand[h].pc # "idle" => log'[hand[h].ev] = log[hand[h].ev]
      BY <1>1, EmitAppends, EventTypes
    <3>2. QED BY <2>1, <3>1 DEF Ev
  <2>3. QED BY <2>1, <2>2 DEF ConvInv, ToldAt
<1>2. CASE OtherStep
  <2>1. UNCHANGED <<log, hand, converted, doubt>> /\ (row # None => row' # None /\ row'.sub = row.sub)
    BY <1>2, OtherFrame
  <2>2. QED BY <2>1 DEF ConvInv, ToldAt, Ev
<1>3. ASSUME NEW h \in Handlers, HandlerStep(h) \/ RequestFails(h)
      PROVE  ConvInv'
  <2>1. log' = log /\ doubt \subseteq doubt'
    BY <1>3 DEF HandlerStep, ReadBefore, SelectRow, WriteRow, WritePlan, SendConverted,
       UpdateBySubscription, Answer, RequestFails
  <2> SUFFICES ASSUME NEW s \in Subs \ doubt'
               PROVE  ToldAt(s)'
    BY DEF ConvInv
  <2>2. ToldAt(s) /\ s \notin doubt
    BY <2>1 DEF ConvInv
  <2>3. CASE ReadBefore(h)
    <3>1. /\ Becomes(h, "select", hand[h].live, row = None \/ row.sub # Ev(h).sub,
                     hand[h].found)
          /\ row' = row /\ converted' = converted /\ hand[h].pc = "before"
      BY <2>3, HandlerFields, HandlerRow DEF ReadBefore
    <3>2. QED BY <2>1, <2>2, <3>1 DEF ToldAt, Becomes, Ev
  <2>4. CASE SelectRow(h)
    <3>1. /\ Becomes(h, "write", hand[h].live, hand[h].first, row # None)
          /\ row' = row /\ converted' = converted /\ hand[h].pc = "select"
      BY <2>4, HandlerFields, HandlerRow DEF SelectRow
    <3>2. QED BY <2>1, <2>2, <3>1 DEF ToldAt, Becomes, Ev
  <2>5. CASE WriteRow(h) /\ ~Conflicts(h)
    <3>1. /\ Becomes(h, "plan", "none", hand[h].first, FALSE)
          /\ converted' = converted /\ hand[h].pc = "write"
          /\ row' # None /\ row'.sub = Ev(h).sub
          /\ doubt' = IF row # None /\ row.sub \notin {None, Ev(h).sub}
                      THEN doubt \cup {row.sub} ELSE doubt
      BY <2>5, HandlerFields, HandlerRow DEF WriteRow
    <3>2. CASE Ev(h).sub = s
      BY <2>1, <2>2, <3>1, <3>2 DEF ToldAt, Becomes, Ev
    <3>3. CASE Ev(h).sub # s
      <4>1. s # None
        BY BillingAssumption
      <4>2. ~(row # None /\ row.sub = s)
        BY <3>1, <3>3, <4>1
      <4>3. /\ converted[s] <= 1 /\ converted[s] # 1
            /\ \A g \in Handlers : ~(hand[g].pc \in {"plan", "mail"} /\ Ev(g).sub = s)
        BY <2>2, <4>2 DEF ToldAt
      <4>4. QED BY <2>1, <3>1, <3>3, <4>3 DEF ToldAt, Becomes, Ev
    <3>4. QED BY <3>2, <3>3
  <2>6. CASE WritePlan(h)
    <3>1. /\ Becomes(h, IF hand[h].first THEN "mail" ELSE "answer", hand[h].live, FALSE,
                     hand[h].found)
          /\ row' = row /\ converted' = converted /\ hand[h].pc = "plan"
      BY <2>6, HandlerFields, HandlerRow DEF WritePlan
    <3>2. QED BY <2>1, <2>2, <3>1 DEF ToldAt, Becomes, Ev
  <2>7. CASE SendConverted(h)
    <3>1. /\ Becomes(h, "answer", hand[h].live, hand[h].first, hand[h].found)
          /\ row' = row /\ hand[h].pc = "mail"
          /\ converted' = [converted EXCEPT ![Ev(h).sub] = @ + 1]
      BY <2>7, HandlerFields, HandlerRow DEF SendConverted
    <3>2. ~hand[h].first /\ Ev(h).kind = "completed" /\ Ev(h).sub \in Subs
      BY <3>1, EventTypes DEF HandInv
    <3>3. CASE Ev(h).sub # s
      <4>1. converted'[s] = converted[s]
        BY <3>1, <3>3 DEF TypeOK
      <4>2. QED BY <2>1, <2>2, <3>1, <3>3, <4>1 DEF ToldAt, Becomes, Ev
    <3>4. CASE Ev(h).sub = s
      <4>1. converted[s] = 0 /\ row # None /\ row.sub = s
        BY <2>2, <3>1, <3>4 DEF ToldAt, TypeOK
      <4>2. converted'[s] = 1
        BY <3>1, <3>4, <4>1 DEF TypeOK
      <4>3. \A g \in Handlers : g # h /\ hand[g].pc # "idle" /\ Ev(g).sub = s =>
              ~hand[g].first /\ hand[g].pc # "mail"
        <5> SUFFICES ASSUME NEW g \in Handlers, g # h, hand[g].pc # "idle", Ev(g).sub = s,
                            hand[g].first \/ hand[g].pc = "mail"
                     PROVE  FALSE
          OBVIOUS
        <5>1. Ev(g).kind = "completed"
          BY DEF HandInv
        <5>2. hand[g].ev = hand[h].ev
          BY <3>1, <3>2, <3>4, <5>1, EventTypes DEF LogInv, Ev
        <5>3. Ev(h).sub \in doubt
          BY <3>1, <5>2 DEF HandInv
        <5>4. QED BY <2>2, <3>4, <5>3
      <4>4. QED BY <2>1, <2>2, <3>1, <3>2, <3>4, <4>1, <4>2, <4>3 DEF ToldAt, Becomes, Ev
    <3>5. QED BY <3>3, <3>4
  <2>8. CASE UpdateBySubscription(h)
    <3>1. /\ Becomes(h, "answer", hand[h].live, hand[h].first, hand[h].found)
          /\ row # None => row' # None /\ row'.sub = row.sub
          /\ converted' = converted /\ hand[h].pc = "one"
      BY <2>8, HandlerFields, HandlerRow DEF UpdateBySubscription
    <3>2. QED BY <2>1, <2>2, <3>1 DEF ToldAt, Becomes, Ev
  <2>9. CASE (WriteRow(h) /\ Conflicts(h)) \/ Answer(h) \/ RequestFails(h)
    <3>1. Rests(h) /\ row' = row /\ converted' = converted
      BY <2>9, HandlerFields, HandlerRow DEF WriteRow, Answer, RequestFails
    <3>2. QED BY <2>1, <2>2, <3>1 DEF ToldAt, Rests, Ev
  <2>10. QED BY <1>3, <2>3, <2>4, <2>5, <2>6, <2>7, <2>8, <2>9 DEF HandlerStep
<1>4. ASSUME NEW h \in Handlers, NEW n \in DOMAIN log, Deliver(h, n)
      PROVE  ConvInv'
  <2>1. UNCHANGED <<log, row, converted>> /\ doubt \subseteq doubt'
    BY <1>4 DEF Deliver
  <2>2. FirstStage(log[n]) \in {"before", "select", "one"}
    BY DEF FirstStage
  <2>3. /\ hand'[h].pc = FirstStage(log[n]) /\ hand'[h].first = FALSE
        /\ \A g \in Handlers \ {h} : hand'[g] = hand[g]
    BY <1>4, DeliverFields
  <2>4. QED BY <2>1, <2>2, <2>3 DEF ConvInv, ToldAt, Ev
<1>5. QED BY <1>1, <1>2, <1>3, <1>4, StepKinds

-----------------------------------------------------------------------------
(* The row's status.                                                         *)

(* A status the subscription had is stored as one that it had.               *)
LEMMA HadIsStored ==
  ASSUME NEW s, NEW st, HadStatus(s, st)
  PROVE  mapStripeStatus(st) \in StatusesHad(s)
BY DEF HadStatus, StatusesHad

(* Every write of the row stores a status of the row's subscription.         *)
LEMMA NextKeepsStatus ==
  ASSUME TypeOK, RemindInv, LogInv, HandInv, NeverInvented, Next
  PROVE  NeverInvented'
<1> USE DEF stripeVars, table, bounds, history
<1>1. CASE EmitStep
  <2>1. \A s : StatusesHad(s) \subseteq StatusesHad(s)'
    BY <1>1, EmitAppends DEF StatusesHad
  <2>2. row' = row
    BY <1>1 DEF EmitStep
  <2>3. QED BY <2>1, <2>2 DEF NeverInvented
<1>2. CASE OtherStep
  BY <1>2, OtherFrame DEF NeverInvented, StatusesHad
<1>3. ASSUME NEW h \in Handlers, HandlerStep(h) \/ RequestFails(h)
      PROVE  NeverInvented'
  <2>1. log' = log
    BY <1>3 DEF HandlerStep, ReadBefore, SelectRow, WriteRow, WritePlan, SendConverted,
       UpdateBySubscription, Answer, RequestFails
  <2>2. \A s : StatusesHad(s)' = StatusesHad(s)
    BY <2>1 DEF StatusesHad
  <2>3. CASE row' = row
    BY <2>2, <2>3 DEF NeverInvented
  <2>4. CASE WriteRow(h) /\ ~Conflicts(h)
    <3>1. /\ row'.sub = Ev(h).sub /\ row'.status = mapStripeStatus(hand[h].live)
          /\ hand[h].pc = "write"
      BY <2>4, HandlerRow DEF WriteRow
    <3>2. mapStripeStatus(hand[h].live) \in StatusesHad(Ev(h).sub)
      BY <3>1, HadIsStored DEF HandInv, Before
    <3>3. QED BY <2>2, <3>1, <3>2 DEF NeverInvented
  <2>5. CASE UpdateBySubscription(h) /\ row' # row
    <3>1. /\ row'.sub = Ev(h).sub /\ hand[h].pc = "one"
          /\ row'.status = IF Ev(h).kind = "deleted" THEN "canceled"
                           ELSE mapStripeStatus(hand[h].live)
      BY <2>5, HandlerRow DEF UpdateBySubscription
    <3>2. mapStripeStatus(hand[h].live) \in StatusesHad(Ev(h).sub)
      BY <3>1, HadIsStored DEF HandInv, Before
    <3>3. Ev(h).kind = "deleted" => "canceled" \in StatusesHad(Ev(h).sub)
      <4>1. hand[h].ev \in DOMAIN log
        BY <3>1, EventTypes
      <4>2. Ev(h).kind = "deleted" => HadStatus(Ev(h).sub, "canceled")
        BY <4>1 DEF LogInv, HadStatus, Ev
      <4>3. mapStripeStatus("canceled") = "canceled"
        BY DEF mapStripeStatus
      <4>4. QED BY <4>2, <4>3, HadIsStored
    <3>4. QED BY <2>2, <3>1, <3>2, <3>3 DEF NeverInvented
  <2>6. QED BY <1>3, <2>3, <2>4, <2>5, HandlerRow DEF HandlerStep
<1>4. ASSUME NEW h \in Handlers, NEW n \in DOMAIN log, Deliver(h, n)
      PROVE  NeverInvented'
  BY <1>4 DEF Deliver, NeverInvented, StatusesHad
<1>5. QED BY <1>1, <1>2, <1>3, <1>4, StepKinds

-----------------------------------------------------------------------------
(* In order and one at a time.                                               *)

LEMMA NextKeepsOrder ==
  ASSUME TypeOK, tidy => InOrder, Next, tidy'
  PROVE  InOrder'
<1> USE DEF stripeVars, table, bounds, history
<1>1. CASE UNCHANGED <<acked, hand, tidy>>
  BY <1>1 DEF InOrder
<1>2. CASE EmitStep \/ OtherStep
  BY <1>1, <1>2 DEF EmitStep, OtherStep, TrialNearsEnd, TrialInsert, TrialPlan, TrialFails,
     AdminReads, overrideWorkspacePlan, extendTrial, FindTrials, ClaimReminder, SendReminder
<1>3. ASSUME NEW h \in Handlers, HandlerStep(h) \/ RequestFails(h)
      PROVE  InOrder'
  <2>1. tidy' = tidy /\ hand[h].pc # "idle"
    BY <1>3 DEF HandlerStep, ReadBefore, SelectRow, WriteRow, WritePlan, SendConverted,
       UpdateBySubscription, Answer, RequestFails
  <2>2. /\ \A n \in acked : 1..n \subseteq acked
        /\ hand[h].ev \notin acked /\ 1..(hand[h].ev - 1) \subseteq acked
        /\ \A g \in Handlers : hand[g].pc # "idle" => g = h
    BY <2>1 DEF InOrder
  <2>3. CASE \/ ReadBefore(h) \/ SelectRow(h) \/ (WriteRow(h) /\ ~Conflicts(h))
             \/ WritePlan(h) \/ SendConverted(h) \/ UpdateBySubscription(h)
    <3>1. acked' = acked
      BY <2>3 DEF ReadBefore, SelectRow, WriteRow, WritePlan, SendConverted,
         UpdateBySubscription
    <3>2. hand'[h].ev = hand[h].ev /\ \A g \in Handlers \ {h} : hand'[g] = hand[g]
      BY <2>3, HandlerFields DEF Becomes
    <3>3. QED BY <2>2, <3>1, <3>2 DEF InOrder
  <2>4. CASE (WriteRow(h) /\ Conflicts(h)) \/ Answer(h) \/ RequestFails(h)
    <3>1. \A g \in Handlers : hand'[g].pc = "idle"
      BY <2>2, <2>4, HandlerFields DEF Rests
    <3>2. acked' \in {acked, acked \cup {hand[h].ev}}
      BY <2>4 DEF WriteRow, Answer, RequestFails
    <3>3. hand[h].ev \in Nat
      BY EventTypes DEF Requests
    <3>4. \A n \in acked' : 1..n \subseteq acked'
      BY <2>2, <3>2, <3>3
    <3>5. QED BY <3>1, <3>4 DEF InOrder
  <2>5. QED BY <1>3, <2>3, <2>4 DEF HandlerStep
<1>4. ASSUME NEW h \in Handlers, NEW n \in DOMAIN log, Deliver(h, n)
      PROVE  InOrder'
  <2>1. /\ tidy /\ n \notin acked /\ 1..(n - 1) \subseteq acked /\ acked' = acked
        /\ \A g \in Handlers : hand[g].pc = "idle"
    BY <1>4 DEF Deliver
  <2>2. hand'[h].ev = n /\ \A g \in Handlers \ {h} : hand'[g] = hand[g]
    BY <1>4, DeliverFields
  <2>3. QED BY <2>1, <2>2 DEF InOrder
<1>5. QED BY <1>2, <1>3, <1>4, StepKinds

(* In order and one at a time, the event whose writing leaves nothing of the *)
(* subscription undone is its last.                                          *)
LEMMA WrittenIsLast ==
  ASSUME TypeOK, InOrder, NEW h \in Handlers, hand[h].pc \in Before,
         \A n \in DOMAIN log : log[n].sub = Ev(h).sub => n \in acked \/ n = hand[h].ev
  PROVE  LastOf(hand[h].ev)
<1>1. hand[h].ev \in DOMAIN log /\ hand[h].ev \notin acked
  BY EventTypes DEF InOrder, Before
<1>2. SUFFICES ASSUME NEW m \in DOMAIN log, log[m].sub = Ev(h).sub, ~(m <= hand[h].ev)
               PROVE  FALSE
  BY DEF LastOf, Ev
<1>3. m \in acked /\ m \in Nat /\ hand[h].ev \in 1..Len(log) /\ hand[h].ev < m
  BY <1>1, <1>2, EventTypes
<1>4. hand[h].ev \in 1..m
  BY <1>3, EventTypes
<1>5. QED BY <1>1, <1>3, <1>4 DEF InOrder

(* In order and one at a time, the last write is the last word.              *)
LEMMA NextKeepsMirror ==
  ASSUME TypeOK, RemindInv, LogInv, HandInv, MirrorInv, Next
  PROVE  MirrorInv'
<1> USE DEF stripeVars, table, bounds, history
<1> SUFFICES ASSUME tidy'
             PROVE  RowShows'
  BY NextKeepsOrder DEF MirrorInv
<1>1. CASE EmitStep
  <2>1. PICK s \in Subs, e \in Events :
          /\ e.sub = s /\ stripe' = [stripe EXCEPT ![s] = e.status]
          /\ log' = Append(log, e) /\ UNCHANGED <<acked, row, hand, tidy>>
    BY <1>1 DEF EmitStep
  <2>2. /\ DOMAIN log' = DOMAIN log \cup {Len(log) + 1}
        /\ Len(log) + 1 \notin DOMAIN log
        /\ \A n \in DOMAIN log : log'[n] = log[n]
    BY <1>1, EmitAppends
  <2>3. log'[Len(log) + 1] = e
    BY <2>1 DEF TypeOK
  <2>4. RowShows
    BY <2>1 DEF MirrorInv
  <2>5. CASE row # None /\ row.sub = s
    <3>1. \A h \in Handlers : hand[h].pc \in After => hand[h].ev # Len(log) + 1
      BY <2>2, EventTypes DEF After
    <3>2. Len(log) + 1 \notin acked
      BY <2>2 DEF TypeOK
    <3>3. ~(\A n \in DOMAIN log' : log'[n].sub = s =>
              n \in acked \/ \E h \in Handlers : hand[h].ev = n /\ hand[h].pc \in After)
      BY <2>1, <2>2, <2>3, <3>1, <3>2
    <3>4. QED BY <2>1, <2>5, <3>3 DEF RowShows, Applied
  <2>6. CASE row # None /\ row.sub # None /\ row.sub # s
    <3>1. row.sub \in Subs
      BY <2>6 DEF TypeOK, Rows
    <3>2. stripe'[row.sub] = stripe[row.sub]
      BY <2>1, <2>6, <3>1 DEF TypeOK
    <3>3. QED BY <2>1, <2>2, <2>4, <3>2 DEF RowShows, Applied
  <2>7. QED BY <2>1, <2>5, <2>6 DEF RowShows
<1>2. CASE OtherStep
  <2>1. UNCHANGED <<stripe, log, acked, hand, tidy>>
    BY <1>2, OtherFrame
  <2>2. RowShows
    BY <2>1 DEF MirrorInv
  <2>3. \A s : Applied(s)' <=> Applied(s)
    BY <2>1 DEF Applied
  <2>4. QED BY <1>2, <2>1, <2>2, <2>3, OtherFrame DEF RowShows
<1>3. ASSUME NEW h \in Handlers, HandlerStep(h) \/ RequestFails(h)
      PROVE  RowShows'
  <2>1. UNCHANGED <<stripe, log, tidy>> /\ hand[h].pc # "idle"
    BY <1>3 DEF HandlerStep, ReadBefore, SelectRow, WriteRow, WritePlan, SendConverted,
       UpdateBySubscription, Answer, RequestFails
  <2>2. InOrder /\ RowShows
    BY <2>1 DEF MirrorInv
  <2>3. hand[h].ev \in DOMAIN log
    BY <2>1, EventTypes
  <2>4. \A g \in Handlers : hand[g].pc # "idle" => g = h
    BY <2>1, <2>2 DEF InOrder
  <2>5. ASSUME row' = row, \A s : Applied(s)' => Applied(s)
        PROVE  RowShows'
    BY <2>1, <2>2, <2>5 DEF RowShows
  <2>6. CASE ReadBefore(h) \/ SelectRow(h)
    <3>1. hand'[h].pc \notin After /\ \A g \in Handlers \ {h} : hand'[g] = hand[g]
      BY <2>6, HandlerFields DEF Becomes, After
    <3>2. acked' = acked
      BY <2>6 DEF ReadBefore, SelectRow
    <3>3. \A s : Applied(s)' => Applied(s)
      BY <2>1, <3>1, <3>2 DEF Applied
    <3>4. QED BY <2>5, <2>6, <3>3, HandlerRow
  <2>7. CASE WritePlan(h) \/ SendConverted(h)
    <3>1. /\ hand'[h].ev = hand[h].ev /\ hand[h].pc \in After
          /\ \A g \in Handlers \ {h} : hand'[g] = hand[g]
      BY <2>7, HandlerFields DEF Becomes, After, WritePlan, SendConverted
    <3>2. acked' = acked
      BY <2>7 DEF WritePlan, SendConverted
    <3>3. \A s : Applied(s)' => Applied(s)
      BY <2>1, <3>1, <3>2 DEF Applied
    <3>4. QED BY <2>5, <2>7, <3>3, HandlerRow
  <2>8. CASE (WriteRow(h) /\ Conflicts(h)) \/ RequestFails(h)
    <3>1. hand'[h].pc \notin After /\ \A g \in Handlers \ {h} : hand'[g] = hand[g]
      BY <2>8, HandlerFields DEF Rests, After
    <3>2. acked' = acked
      BY <2>8 DEF WriteRow, RequestFails
    <3>3. \A s : Applied(s)' => Applied(s)
      BY <2>1, <3>1, <3>2 DEF Applied
    <3>4. QED BY <2>5, <2>8, <3>3, HandlerRow
  <2>9. CASE Answer(h)
    <3>1. hand'[h].pc \notin After /\ \A g \in Handlers \ {h} : hand'[g] = hand[g]
      BY <2>9, HandlerFields DEF Rests, After
    <3>2. acked' = acked \cup {hand[h].ev} /\ hand[h].pc \in After
      BY <2>9 DEF Answer, After
    <3>3. \A s : Applied(s)' => Applied(s)
      BY <2>1, <3>1, <3>2 DEF Applied
    <3>4. QED BY <2>5, <2>9, <3>3, HandlerRow
  <2>10. ASSUME hand[h].pc \in Before, acked' = acked, hand'[h].ev = hand[h].ev,
                \A g \in Handlers \ {h} : hand'[g] = hand[g],
                NEW s, s = Ev(h).sub, Applied(s)'
         PROVE  LastOf(hand[h].ev) /\ hand[h].live = stripe[Ev(h).sub]
    <3>1. \A n \in DOMAIN log : log[n].sub = Ev(h).sub =>
            n \in acked \/ \E g \in Handlers : hand'[g].ev = n /\ hand'[g].pc \in After
      BY <2>1, <2>10 DEF Applied
    <3>2. \A g \in Handlers : hand'[g].pc \in After => g = h
      BY <2>4, <2>10 DEF After
    <3>3. LastOf(hand[h].ev)
      BY <2>2, <2>10, <3>1, <3>2, WrittenIsLast
    <3>4. QED BY <2>10, <3>3 DEF HandInv
  <2>11. CASE WriteRow(h) /\ ~Conflicts(h)
    <3>1. /\ hand'[h].ev = hand[h].ev /\ hand[h].pc \in Before /\ acked' = acked
          /\ \A g \in Handlers \ {h} : hand'[g] = hand[g]
      BY <2>11, HandlerFields DEF Becomes, Before, WriteRow
    <3>2. row'.sub = Ev(h).sub /\ row'.status = mapStripeStatus(hand[h].live)
      BY <2>11, HandlerRow
    <3>3. QED BY <2>1, <2>10, <3>1, <3>2 DEF RowShows, Applied
  <2>12. CASE UpdateBySubscription(h)
    <3>1. /\ hand'[h].ev = hand[h].ev /\ hand[h].pc \in Before /\ acked' = acked
          /\ \A g \in Handlers \ {h} : hand'[g] = hand[g]
      BY <2>12, HandlerFields DEF Becomes, Before, UpdateBySubscription
    <3>2. CASE row = None
      BY <2>12, <3>2, HandlerRow DEF RowShows
    <3>3. CASE row # None /\ row.sub = Ev(h).sub
      <4>1. /\ row'.sub = Ev(h).sub
            /\ row'.status = IF Ev(h).kind = "deleted" THEN "canceled"
                             ELSE mapStripeStatus(hand[h].live)
        BY <2>12, <3>3, HandlerRow
      <4>2. ASSUME NEW s, s = Ev(h).sub, Applied(s)'
            PROVE  row'.status = mapStripeStatus(stripe[Ev(h).sub])
        <5>1. LastOf(hand[h].ev) /\ hand[h].live = stripe[Ev(h).sub]
          BY <2>10, <3>1, <4>2
        <5>2. Ev(h).kind = "deleted" => stripe[Ev(h).sub] = "canceled"
          BY <2>3, <5>1 DEF LogInv, Ev
        <5>3. mapStripeStatus("canceled") = "canceled"
          BY DEF mapStripeStatus
        <5>4. QED BY <4>1, <5>1, <5>2, <5>3
      <4>3. QED BY <2>1, <4>1, <4>2 DEF RowShows, Applied
    <3>4. CASE row # None /\ row.sub # Ev(h).sub
      <4>1. row' = row
        BY <2>12, <3>4, HandlerRow
      <4>2. Applied(row.sub)' => Applied(row.sub)
        <5> DEFINE s == row.sub
        <5>1. s # Ev(h).sub /\ row'.sub = s
          BY <3>4, <4>1
        <5> HIDE DEF s
        <5>2. (\A n \in DOMAIN log' : log'[n].sub = s =>
                 n \in acked' \/ \E g \in Handlers : hand'[g].ev = n /\ hand'[g].pc \in After)
              => Applied(s)
          BY <2>1, <3>1, <5>1 DEF Applied, Ev
        <5>3. QED BY <5>1, <5>2 DEF Applied, s
      <4>3. QED BY <2>1, <2>2, <4>1, <4>2 DEF RowShows
    <3>5. QED BY <3>2, <3>3, <3>4
  <2>13. QED BY <1>3, <2>6, <2>7, <2>8, <2>9, <2>11, <2>12 DEF HandlerStep
<1>4. ASSUME NEW h \in Handlers, NEW n \in DOMAIN log, Deliver(h, n)
      PROVE  RowShows'
  <2>1. UNCHANGED <<stripe, log, row, acked>> /\ tidy
    BY <1>4 DEF Deliver
  <2>2. FirstStage(log[n]) \notin After
    BY DEF FirstStage, After
  <2>3. hand'[h].pc \notin After /\ \A g \in Handlers \ {h} : hand'[g] = hand[g]
    BY <1>4, <2>2, DeliverFields
  <2>4. \A s : Applied(s)' => Applied(s)
    BY <2>1, <2>3 DEF Applied
  <2>5. QED BY <2>1, <2>4 DEF MirrorInv, RowShows
<1>5. QED BY <1>1, <1>2, <1>3, <1>4, StepKinds

-----------------------------------------------------------------------------
(* The plan.                                                                 *)

(* A step of another writer that touches no plan.                            *)
PlansStay ==
  /\ wsPlan' = wsPlan /\ (trial' = "plan" <=> trial = "plan")
  /\ row # None => row' # None /\ row'.plan = row.plan
  /\ row = None /\ row' # None => row'.plan = "starter"

(* Unless it inserts the trial or overrides the plan, no step of the         *)
(* administrator or the daily task touches a plan that is there.             *)
LEMMA OtherPlans ==
  ASSUME TypeOK, RemindInv, RowInv, OtherStep, ~TrialInsert, ~TrialPlan, torn' = {}
  PROVE  PlansStay
<1> USE DEF stripeVars, table, bounds, history
<1>1. row \in Rows \cup {None} /\ None \notin Rows
  BY BillingAssumption DEF TypeOK
<1>2. CASE TrialNearsEnd
  BY <1>1, <1>2 DEF TrialNearsEnd, Rows, PlansStay
<1>3. CASE TrialFails
  BY <1>1, <1>3 DEF TrialFails, TypeOK, PlansStay
<1>4. CASE extendTrial
  <2>1. wsPlan' = wsPlan /\ trial' = trial
    BY <1>4 DEF extendTrial
  <2>2. row # None => row' # None /\ row'.plan = row.plan
    BY <1>1, <1>4 DEF extendTrial, Rows, Statuses
  <2>3. row = None => row'.plan = "starter"
    BY <1>4 DEF extendTrial
  <2>4. QED BY <2>1, <2>2, <2>3 DEF PlansStay
<1>5. ASSUME NEW r \in Reminders, ClaimReminder(r)
      PROVE  PlansStay
  <2>1. row # None /\ row' # None /\ row'.plan = row.plan
    BY <1>1, <1>5 DEF ClaimReminder, RemindInv, Rows
  <2>2. QED BY <1>5, <2>1 DEF ClaimReminder, PlansStay
<1>6. CASE UNCHANGED <<row, wsPlan, trial>>
  BY <1>6 DEF PlansStay
<1>7. \/ TrialNearsEnd \/ TrialFails \/ extendTrial
      \/ \E r \in Reminders : ClaimReminder(r)
      \/ UNCHANGED <<row, wsPlan, trial>>
  BY DEF OtherStep, AdminReads, FindTrials, SendReminder, overrideWorkspacePlan
<1>8. QED BY <1>2, <1>3, <1>4, <1>5, <1>6, <1>7

(* Rows are never deleted, and no plan is written before there is one.       *)
LEMMA NextKeepsRow ==
  ASSUME TypeOK, RemindInv, HandInv, RowInv, Next
  PROVE  RowInv'
<1> USE DEF stripeVars, table, bounds, history
<1>1. CASE EmitStep
  BY <1>1 DEF EmitStep, RowInv
<1>2. CASE OtherStep
  <2>1. hand' = hand /\ (row # None => row' # None)
    BY <1>2, OtherFrame
  <2>2. CASE TrialInsert
    <3>1. wsPlan' = wsPlan /\ row' # None
      <4>1. [plan |-> "growth", status |-> "trialing", sub |-> None,
             ends |-> "later", reminded |-> FALSE] \in Rows
        BY DEF Rows, Plans, Statuses
      <4>2. QED BY <2>2, <4>1, BillingAssumption DEF TrialInsert
    <3>2. QED BY <2>1, <3>1 DEF RowInv
  <2>3. CASE TrialPlan
    BY <2>1, <2>3 DEF TrialPlan, RowInv
  <2>4. CASE ~TrialInsert /\ ~TrialPlan
    <3>1. wsPlan' = wsPlan /\ (trial' = "plan" => trial = "plan")
      BY <1>2, <2>4 DEF OtherStep, TrialNearsEnd, TrialFails, AdminReads,
         overrideWorkspacePlan, extendTrial, FindTrials, ClaimReminder, SendReminder
    <3>2. QED BY <2>1, <3>1 DEF RowInv
  <2>5. QED BY <2>2, <2>3, <2>4
<1>3. ASSUME NEW h \in Handlers, HandlerStep(h) \/ RequestFails(h)
      PROVE  RowInv'
  <2>1. trial' = trial /\ (row # None => row' # None)
    BY <1>3, HandlerRow DEF HandlerStep, ReadBefore, SelectRow, WriteRow, WritePlan,
       SendConverted, UpdateBySubscription, Answer, RequestFails
  <2>2. row = None /\ row' = None => wsPlan' = wsPlan
    BY <1>3 DEF RowInv, HandlerStep, ReadBefore, SelectRow, WriteRow, WritePlan,
       SendConverted, UpdateBySubscription, Answer, RequestFails
  <2>3. /\ hand'[h].pc = "plan" \/ hand'[h].found => row' # None
        /\ \A g \in Handlers \ {h} : hand'[g] = hand[g]
    <3>1. CASE ReadBefore(h) \/ WritePlan(h) \/ SendConverted(h) \/ UpdateBySubscription(h)
      BY <2>1, <3>1, HandlerFields DEF RowInv, Becomes
    <3>2. CASE SelectRow(h)
      BY <2>1, <3>2, HandlerFields DEF Becomes
    <3>3. CASE WriteRow(h) /\ ~Conflicts(h)
      BY <3>3, HandlerFields, HandlerRow DEF Becomes
    <3>4. CASE (WriteRow(h) /\ Conflicts(h)) \/ Answer(h) \/ RequestFails(h)
      <4>1. OnlyHand(h, Idle) /\ Idle.pc = "idle" /\ Idle.found = FALSE
        BY <3>4, HandlersMove DEF Idle
      <4>2. QED BY <4>1 DEF OnlyHand
    <3>5. QED BY <1>3, <3>1, <3>2, <3>3, <3>4 DEF HandlerStep
  <2>4. QED BY <2>1, <2>2, <2>3 DEF RowInv
<1>4. ASSUME NEW h \in Handlers, NEW n \in DOMAIN log, Deliver(h, n)
      PROVE  RowInv'
  <2>1. UNCHANGED <<row, wsPlan, trial>>
    BY <1>4 DEF Deliver
  <2>2. FirstStage(log[n]) # "plan"
    BY DEF FirstStage
  <2>3. /\ hand'[h].pc # "plan" /\ hand'[h].found = FALSE
        /\ \A g \in Handlers \ {h} : hand'[g] = hand[g]
    BY <1>4, <2>2, DeliverFields
  <2>4. QED BY <2>1, <2>3 DEF RowInv
<1>5. QED BY <1>1, <1>2, <1>3, <1>4, StepKinds

(* A sync that writes the workspace's plan alone puts both copies right.     *)
LEMMA AloneMends ==
  ASSUME TypeOK, RowInv, NEW h \in Handlers, WritePlan(h), WritesAlone(h)
  PROVE  OnePlan' /\ PlanOwed'
<1>1. /\ UNCHANGED <<row, log, trial>> /\ wsPlan' = PlanOf[Ev(h).sub]
      /\ hand[h].pc = "plan"
  BY DEF WritePlan, stripeVars
<1>2. hand'[h].pc \notin {"write", "plan"} /\ \A g \in Handlers \ {h} : hand'[g] = hand[g]
  BY HandlerFields DEF Becomes
<1>3. \A g \in Handlers : hand'[g].pc \notin {"write", "plan"}
  BY <1>2 DEF WritesAlone
<1>4. OnePlan'
  BY <1>1, <1>3 DEF OnePlan, WritesAlone
<1>5. PlanOwed'
  BY <1>1 DEF PlanOwed, WritesAlone
<1>6. QED BY <1>4, <1>5

(* Two writers halfway through agree on the plan, until torn.                *)
LEMMA NextKeepsOnePlan ==
  ASSUME TypeOK, RemindInv, HandInv, RowInv, torn = {} => OnePlan, Next, torn' = {}
  PROVE  OnePlan'
<1> USE DEF stripeVars, table, bounds, history
<1> SUFFICES ASSUME ~\E h \in Handlers : WritePlan(h) /\ WritesAlone(h)
             PROVE  OnePlan'
  BY AloneMends
<1>0. OnePlan
  BY TearsAreKept
<1>1. CASE EmitStep
  <2>1. UNCHANGED <<row, hand, trial>>
    BY <1>1 DEF EmitStep
  <2>2. \A h \in Handlers : hand[h].pc # "idle" => PlanOfHand(h)' = PlanOfHand(h)
    <3>1. \A h \in Handlers : hand[h].pc # "idle" => log'[hand[h].ev] = log[hand[h].ev]
      BY <1>1, EmitAppends, EventTypes
    <3>2. QED BY <2>1, <3>1 DEF PlanOfHand, Ev
  <2>3. QED BY <1>0, <2>1, <2>2 DEF OnePlan
<1>2. CASE OtherStep
  <2>1. hand' = hand /\ log' = log
    BY <1>2, OtherFrame
  <2>2. \A h : PlanOfHand(h)' = PlanOfHand(h)
    BY <2>1 DEF PlanOfHand, Ev
  <2>3. CASE TrialInsert
    <3>1. row = None => row'.plan = "growth"
      BY <2>3 DEF TrialInsert
    <3>2. row # None => row' = row /\ trial' = "done"
      BY <2>3 DEF TrialInsert
    <3>3. row = None => \A h \in Handlers : hand[h].pc # "plan" /\ ~hand[h].found
      BY DEF RowInv
    <3>4. QED BY <1>0, <2>1, <2>2, <3>1, <3>2, <3>3 DEF OnePlan
  <2>4. CASE TrialPlan
    BY <1>0, <2>1, <2>2, <2>4 DEF OnePlan, TrialPlan
  <2>5. CASE ~TrialInsert /\ ~TrialPlan
    <3>1. PlansStay
      BY <1>2, <2>5, OtherPlans
    <3>2. QED BY <1>0, <2>1, <2>2, <3>1 DEF OnePlan, RowInv, PlansStay
  <2>6. QED BY <2>3, <2>4, <2>5
<1>3. ASSUME NEW h \in Handlers, HandlerStep(h) \/ RequestFails(h)
      PROVE  OnePlan'
  <2>1. trial' = trial /\ log' = log
    BY <1>3 DEF HandlerStep, ReadBefore, SelectRow, WriteRow, WritePlan, SendConverted,
       UpdateBySubscription, Answer, RequestFails
  <2>2. CASE ReadBefore(h) \/ WritePlan(h) \/ SendConverted(h) \/ UpdateBySubscription(h)
    <3>1. hand'[h].pc \notin {"write", "plan"} /\ \A g \in Handlers \ {h} : hand'[g] = hand[g]
      BY <2>2, HandlerFields DEF Becomes
    <3>2. row' = row \/ (row # None /\ row'.plan = row.plan) \/ row = None
      BY <2>2, HandlerRow
    <3>3. QED BY <1>0, <2>1, <3>1, <3>2 DEF OnePlan, RowInv, PlanOfHand, Ev
  <2>3. CASE SelectRow(h)
    <3>1. /\ Becomes(h, "write", hand[h].live, hand[h].first, row # None)
          /\ row' = row /\ PlansBeingWritten \subseteq {PlanOfHand(h)}
      BY <2>3, HandlerFields, HandlerRow DEF SelectRow, PlanOfHand
    <3>2. \A g \in Handlers : hand[g].pc \in {"write", "plan"} => PlanOfHand(g) = PlanOfHand(h)
      BY <3>1 DEF PlansBeingWritten, PlanOfHand
    <3>3. trial = "plan" => PlanOfHand(h) = "growth"
      BY <3>1 DEF PlansBeingWritten
    <3>4. \A g \in Handlers : PlanOfHand(g)' = PlanOfHand(g)
      BY <2>1, <3>1 DEF Becomes, PlanOfHand, Ev
    <3>5. /\ hand'[h].pc = "write" /\ \A g \in Handlers \ {h} : hand'[g] = hand[g]
      BY <3>1 DEF Becomes
    <3>6. QED BY <1>0, <2>1, <3>1, <3>2, <3>3, <3>4, <3>5 DEF OnePlan
  <2>4. CASE WriteRow(h) /\ ~Conflicts(h)
    <3>1. /\ Becomes(h, "plan", "none", hand[h].first, FALSE)
          /\ row'.plan = PlanOfHand(h) /\ hand[h].pc = "write"
      BY <2>4, HandlerFields, HandlerRow DEF WriteRow
    <3>2. \A g \in Handlers : PlanOfHand(g)' = PlanOfHand(g)
      BY <2>1, <3>1 DEF Becomes, PlanOfHand, Ev
    <3>3. /\ hand'[h].pc = "plan" /\ \A g \in Handlers \ {h} : hand'[g] = hand[g]
      BY <3>1 DEF Becomes
    <3>4. trial = "plan" => PlanOfHand(h) = "growth"
      BY <1>0, <2>4, <3>1 DEF OnePlan, RowInv, Conflicts
    <3>5. \A g \in Handlers : hand[g].pc \in {"write", "plan"} => PlanOfHand(g) = PlanOfHand(h)
      BY <1>0, <3>1 DEF OnePlan
    <3>6. QED BY <1>0, <2>1, <3>1, <3>2, <3>3, <3>4, <3>5 DEF OnePlan
  <2>5. CASE (WriteRow(h) /\ Conflicts(h)) \/ Answer(h) \/ RequestFails(h)
    <3>1. Rests(h) /\ row' = row
      BY <2>5, HandlerFields, HandlerRow
    <3>2. QED BY <1>0, <2>1, <3>1 DEF OnePlan, Rests, PlanOfHand, Ev
  <2>6. QED BY <1>3, <2>2, <2>3, <2>4, <2>5 DEF HandlerStep
<1>4. ASSUME NEW h \in Handlers, NEW n \in DOMAIN log, Deliver(h, n)
      PROVE  OnePlan'
  <2>1. UNCHANGED <<row, log, trial>>
    BY <1>4 DEF Deliver
  <2>2. FirstStage(log[n]) \notin {"write", "plan"}
    BY DEF FirstStage
  <2>3. hand'[h].pc \notin {"write", "plan"} /\ \A g \in Handlers \ {h} : hand'[g] = hand[g]
    BY <1>4, <2>2, DeliverFields
  <2>4. QED BY <1>0, <2>1, <2>3 DEF OnePlan, PlanOfHand, Ev
<1>5. QED BY <1>1, <1>2, <1>3, <1>4, StepKinds

(* A plan that differs is being written, or will be delivered again.         *)
LEMMA NextKeepsOwed ==
  ASSUME TypeOK, RemindInv, HandInv, RowInv, torn = {} => OnePlan /\ PlanOwed, Next, torn' = {}
  PROVE  PlanOwed'
<1> USE DEF stripeVars, table, bounds, history
<1> SUFFICES ASSUME ~\E h \in Handlers : WritePlan(h) /\ WritesAlone(h)
             PROVE  PlanOwed'
  BY AloneMends
<1>0. OnePlan /\ PlanOwed
  BY TearsAreKept
<1>1. CASE EmitStep
  <2>1. UNCHANGED <<row, wsPlan, hand, trial, acked>>
    BY <1>1 DEF EmitStep
  <2>2. DOMAIN log \subseteq DOMAIN log' /\ \A n \in DOMAIN log : log'[n] = log[n]
    BY <1>1, EmitAppends
  <2>3. \A n \in DOMAIN log : Unfinished(n) => Unfinished(n)'
    BY <2>1, <2>2 DEF Unfinished, Syncs
  <2>4. QED BY <1>0, <2>1, <2>2, <2>3 DEF PlanOwed
<1>2. CASE OtherStep
  <2>1. UNCHANGED <<stripe, log, acked, hand>>
    BY <1>2, OtherFrame
  <2>2. CASE TrialInsert
    BY <1>0, <2>1, <2>2 DEF TrialInsert, PlanOwed, Unfinished, Syncs
  <2>3. CASE TrialPlan
    BY <1>0, <2>3 DEF TrialPlan, PlanOwed, OnePlan
  <2>4. CASE ~TrialInsert /\ ~TrialPlan
    <3>1. PlansStay
      BY <1>2, <2>4, OtherPlans
    <3>2. CASE row = None
      BY <3>1, <3>2 DEF PlanOwed, RowInv, PlansStay
    <3>3. CASE row # None
      <4>1. \A n \in DOMAIN log : Unfinished(n) => Unfinished(n)'
        BY <2>1, <3>1, <3>3 DEF Unfinished, Syncs, PlansStay
      <4>2. QED BY <1>0, <2>1, <3>1, <3>3, <4>1 DEF PlanOwed, PlansStay
    <3>4. QED BY <3>2, <3>3
  <2>5. QED BY <2>2, <2>3, <2>4
<1>3. ASSUME NEW h \in Handlers, HandlerStep(h) \/ RequestFails(h)
      PROVE  PlanOwed'
  <2>1. trial' = trial /\ log' = log
    BY <1>3 DEF HandlerStep, ReadBefore, SelectRow, WriteRow, WritePlan, SendConverted,
       UpdateBySubscription, Answer, RequestFails
  <2>2. ASSUME wsPlan' = wsPlan, row # None => row' # None /\ row'.plan = row.plan,
               row = None => row' = None, hand[h].pc # "plan",
               \A g \in Handlers \ {h} : hand'[g] = hand[g],
               \A n \in DOMAIN log : Unfinished(n) =>
                 n \notin acked' /\ (hand'[h].pc \in {"mail", "answer"} => hand'[h].ev # n)
        PROVE  PlanOwed'
    <3>1. row # None => \A n \in DOMAIN log : Unfinished(n) => Unfinished(n)'
      BY <2>1, <2>2 DEF Unfinished, Syncs
    <3>2. QED BY <1>0, <2>1, <2>2, <3>1 DEF PlanOwed
  <2>3. CASE ReadBefore(h) \/ SelectRow(h) \/ SendConverted(h) \/ UpdateBySubscription(h)
    <3>1. /\ wsPlan' = wsPlan /\ acked' = acked
          /\ hand[h].pc \in {"before", "select", "mail", "one"}
      BY <2>3 DEF ReadBefore, SelectRow, SendConverted, UpdateBySubscription
    <3>2. /\ row # None => row' # None /\ row'.plan = row.plan
          /\ row = None => row' = None
      BY <2>3, HandlerRow
    <3>3. hand'[h].ev = hand[h].ev /\ \A g \in Handlers \ {h} : hand'[g] = hand[g]
      BY <2>3, HandlerFields DEF Becomes
    <3>4. hand'[h].pc \in {"mail", "answer"} => hand[h].pc \in {"mail", "one"}
      BY <2>3, HandlerFields DEF Becomes, SendConverted, UpdateBySubscription
    <3>5. \A n \in DOMAIN log : Unfinished(n) =>
            n \notin acked' /\ (hand'[h].pc \in {"mail", "answer"} => hand'[h].ev # n)
      BY <3>1, <3>3, <3>4 DEF Unfinished, HandInv
    <3>6. QED BY <2>2, <3>1, <3>2, <3>3, <3>5
  <2>4. CASE WriteRow(h) /\ ~Conflicts(h)
    BY <2>4, HandlerFields DEF PlanOwed, Becomes
  <2>5. CASE WritePlan(h)
    <3>1. wsPlan' = PlanOfHand(h) /\ row' = row /\ hand[h].pc = "plan"
      BY <2>5, HandlerRow DEF WritePlan, PlanOfHand
    <3>2. QED BY <1>0, <3>1 DEF PlanOwed, OnePlan
  <2>6. CASE (WriteRow(h) /\ Conflicts(h)) \/ Answer(h) \/ (RequestFails(h) /\ hand[h].pc # "plan")
    <3>1. /\ row' = row /\ wsPlan' = wsPlan /\ hand[h].pc # "plan"
          /\ acked' = acked \/ (hand[h].pc = "answer" /\ acked' = acked \cup {hand[h].ev})
      BY <2>6, HandlerRow DEF WriteRow, Answer, RequestFails
    <3>2. hand'[h].pc = "idle" /\ \A g \in Handlers \ {h} : hand'[g] = hand[g]
      BY <2>6, HandlerFields DEF Rests
    <3>3. \A n \in DOMAIN log : Unfinished(n) => n \notin acked'
      BY <3>1 DEF Unfinished
    <3>4. QED BY <2>2, <3>1, <3>2, <3>3
  <2>7. CASE RequestFails(h) /\ hand[h].pc = "plan"
    <3>0. PICK n : n = hand[h].ev
      OBVIOUS
    <3>1. row' = row /\ acked' = acked /\ ~AnsweredElsewhere(h)
      BY <2>7, HandlerRow DEF RequestFails
    <3>2. hand'[h].pc = "idle" /\ \A g \in Handlers \ {h} : hand'[g] = hand[g]
      BY <2>7, HandlerFields DEF Rests
    <3>3. n \in DOMAIN log /\ Syncs(n) /\ PlanOf[log[n].sub] = row.plan
      BY <1>0, <2>7, <3>0, EventTypes DEF OnePlan, HandInv, PlanOfHand, Ev
    <3>4. n \notin acked
          /\ \A g \in Handlers \ {h} : hand[g].pc \in {"mail", "answer"} => hand[g].ev # n
      BY <3>0, <3>1 DEF AnsweredElsewhere
    <3>5. n \in DOMAIN log' /\ n \notin acked' /\ (FirstStage(log'[n]) # "one")
          /\ PlanOf[log'[n].sub] = row'.plan
          /\ \A g \in Handlers : hand'[g].pc \in {"mail", "answer"} => hand'[g].ev # n
      BY <2>1, <3>1, <3>2, <3>3, <3>4 DEF Syncs
    <3>6. Unfinished(n)'
      BY <3>5 DEF Unfinished, Syncs
    <3>7. QED BY <3>5, <3>6 DEF PlanOwed
  <2>8. QED BY <1>3, <2>3, <2>4, <2>5, <2>6, <2>7 DEF HandlerStep
<1>4. ASSUME NEW h \in Handlers, NEW n \in DOMAIN log, Deliver(h, n)
      PROVE  PlanOwed'
  <2>1. UNCHANGED <<row, wsPlan, log, trial, acked>> /\ hand[h].pc = "idle"
    BY <1>4 DEF Deliver
  <2>2. FirstStage(log[n]) \notin {"mail", "answer"}
    BY DEF FirstStage
  <2>3. hand'[h].pc \notin {"mail", "answer"} /\ \A g \in Handlers \ {h} : hand'[g] = hand[g]
    BY <1>4, <2>2, DeliverFields
  <2>4. \A m \in DOMAIN log : Unfinished(m) => Unfinished(m)'
    BY <2>1, <2>3 DEF Unfinished, Syncs
  <2>5. QED BY <1>0, <2>1, <2>3, <2>4 DEF PlanOwed
<1>5. QED BY <1>1, <1>2, <1>3, <1>4, StepKinds

-----------------------------------------------------------------------------
(* The invariants together, and what they say.                               *)

BillInv ==
  /\ TypeOK /\ RemindInv /\ LogInv /\ HandInv
  /\ ConvInv /\ NeverInvented /\ MirrorInv /\ PlanInv

(* The invariants hold of a workspace just created.                          *)
LEMMA InitBill == Init => BillInv
<1> SUFFICES ASSUME Init PROVE BillInv
  OBVIOUS
<1>1. TypeOK
  BY InitType
<1>2. RemindInv
  BY DEF Init, RemindInv, Mailing
<1>3. LogInv
  BY DEF Init, LogInv
<1>4. \A h \in Handlers : hand[h].pc = "idle" /\ hand[h].first = FALSE /\ hand[h].found = FALSE
  BY DEF Init, Idle
<1>5. HandInv
  BY <1>4 DEF HandInv, Before
<1>6. ConvInv
  BY <1>4 DEF Init, ConvInv, ToldAt
<1>7. NeverInvented
  BY DEF Init, NeverInvented
<1>8. MirrorInv
  BY <1>4 DEF Init, MirrorInv, InOrder, RowShows
<1>9. PlanInv
  BY <1>4 DEF Init, PlanInv, RowInv, OnePlan, PlanOwed
<1>10. QED BY <1>1, <1>2, <1>3, <1>5, <1>6, <1>7, <1>8, <1>9 DEF BillInv

(* Every step keeps the invariants.                                          *)
LEMMA NextKeepsBill ==
  ASSUME BillInv, [Next]_vars
  PROVE  BillInv'
<1>1. CASE Next
  <2>1. TypeOK' /\ RemindInv' /\ LogInv' /\ HandInv'
    BY <1>1, NextKeepsType, NextKeepsRemind, NextKeepsLog, NextKeepsHands DEF BillInv
  <2>2. ConvInv' /\ NeverInvented' /\ MirrorInv'
    BY <1>1, NextKeepsConv, NextKeepsStatus, NextKeepsMirror DEF BillInv
  <2>3. PlanInv'
    BY <1>1, NextKeepsRow, NextKeepsOnePlan, NextKeepsOwed DEF BillInv, PlanInv
  <2>4. QED BY <2>1, <2>2, <2>3 DEF BillInv
<1>2. CASE UNCHANGED vars
  <2> USE <1>2 DEF vars, stripeVars, table, bounds, history
  <2>1. TypeOK' /\ RemindInv'
    BY DEF BillInv, TypeOK, RemindInv, Mailing
  <2>2. LogInv' /\ HandInv'
    BY DEF BillInv, LogInv, HandInv, HadStatus, LastOf, Ev, Syncs
  <2>3. ConvInv' /\ NeverInvented'
    BY DEF BillInv, ConvInv, ToldAt, NeverInvented, StatusesHad, Ev
  <2>4. MirrorInv'
    BY DEF BillInv, MirrorInv, InOrder, RowShows, Applied
  <2>5. PlanInv'
    BY DEF BillInv, PlanInv, RowInv, OnePlan, PlanOwed, Unfinished, PlanOfHand, Syncs, Ev
  <2>6. QED BY <2>1, <2>2, <2>3, <2>4, <2>5 DEF BillInv
<1>3. QED BY <1>1, <1>2

(* The invariants hold of every behaviour: the row, the requests in progress *)
(* and the mails sent go together however deliveries repeat, overlap and     *)
(* fail halfway (handleWebhookEvent, syncSubscription).                      *)
THEOREM BillingInvariant == Spec => []BillInv
<1>1. Init => BillInv
  BY InitBill
<1>2. BillInv /\ [Next]_vars => BillInv'
  BY NextKeepsBill
<1>3. QED BY <1>1, <1>2, PTL DEF Spec

(* Every variable of the model keeps its type: no statement leaves a row, a  *)
(* plan or a request that the schema does not allow.                         *)
THEOREM BillingTypeOK == Spec => []TypeOK
<1>1. BillInv => TypeOK
  BY DEF BillInv
<1>2. QED BY <1>1, BillingInvariant, PTL

(* A trial's reminder goes out once, and a customer is told once that the    *)
(* trial converted, for any number of reminder runs, webhook requests and    *)
(* subscriptions (checkTrialsEndingSoon, isFirstDelivery).                   *)
THEOREM BillingMailedOnce == Spec => []MailedOnce
<1>1. BillInv => MailedOnce
  <2> SUFFICES ASSUME BillInv PROVE MailedOnce
    OBVIOUS
  <2>1. RemindOnce
    <3>1. reminded = 0 \/ reminded = 1
      BY DEF BillInv, RemindInv
    <3>2. CASE Mailing = {}
      <4>1. Cardinality(Mailing) = 0
        BY <3>2, FS_EmptySet
      <4>2. QED BY <3>1, <4>1 DEF RemindOnce, Mailing
    <3>3. ASSUME NEW r \in Reminders, Mailing = {r}, reminded = 0
          PROVE  RemindOnce
      <4>1. Cardinality(Mailing) = 1
        BY <3>3, FS_Singleton
      <4>2. QED BY <3>3, <4>1 DEF RemindOnce, Mailing
    <3>4. QED BY <3>2, <3>3 DEF BillInv, RemindInv
  <2>2. ConvertedOnce
    BY DEF BillInv, ConvInv, ToldAt, ConvertedOnce
  <2>3. QED BY <2>1, <2>2 DEF MailedOnce
<1>2. QED BY <1>1, BillingInvariant, PTL

(* The row shows only what Stripe has said of the subscription it names, and *)
(* what it says now once the events, sent in order and one at a time, are    *)
(* handled (syncSubscription, the one UPDATE by stripeSubscriptionId).       *)
THEOREM BillingRowFollowsStripe == Spec => []RowFollowsStripe
<1>1. BillInv => RowFollowsStripe
  <2> SUFFICES ASSUME BillInv PROVE RowFollowsStripe
    OBVIOUS
  <2>1. Mirrors
    <3> SUFFICES ASSUME Quiet, tidy, row # None, row.sub # None, row.status # "trialing"
                 PROVE  row.status = mapStripeStatus(stripe[row.sub])
      BY DEF Mirrors
    <3>1. Applied(row.sub)
      BY DEF Quiet, Applied
    <3>2. QED BY <3>1 DEF BillInv, MirrorInv, RowShows
  <2>2. QED BY <2>1 DEF BillInv, RowFollowsStripe
<1>2. QED BY <1>1, BillingInvariant, PTL

(* Once everything is handled the workspace has the row's plan, even after   *)
(* requests that failed between their two writes, unless, since a sync last  *)
(* wrote both copies alone, writers with different plans overlapped, the     *)
(* trial stopped between its writes, an administrator set the row's plan, or *)
(* a request was cut there whose event another delivery answers              *)
(* (syncSubscription, startTrial, overrideWorkspacePlan).                    *)
THEOREM BillingPlansAgree == Spec => []PlansAgree
<1>1. BillInv => PlansAgree
  <2> SUFFICES ASSUME BillInv, Quiet, torn = {}, row # None PROVE wsPlan = row.plan
    BY DEF PlansAgree
  <2>1. PlanOwed
    BY DEF BillInv, PlanInv
  <2>2. trial # "plan" /\ (\A h \in Handlers : hand[h].pc # "plan") /\ acked = DOMAIN log
    BY DEF Quiet
  <2>3. \A n \in DOMAIN log : ~Unfinished(n)
    BY <2>2 DEF Unfinished
  <2>4. QED BY <2>1, <2>2, <2>3 DEF PlanOwed
<1>2. QED BY <1>1, BillingInvariant, PTL
=============================================================================
