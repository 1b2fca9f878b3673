--------------------------- MODULE Recommendations ---------------------------
(***************************************************************************)
(* The recommendation queue of one workspace                               *)
(* (apps/api/src/recommendations.ts and the generators it runs): every     *)
(* load of the queue generates what is missing, drops duplicates, wakes    *)
(* expired snoozes and meters what it made, while managers act on rows.    *)
(*                                                                         *)
(* A load is a chain of single statements, some of them in parallel under  *)
(* Promise.all: when one of those fails the request is answered with an    *)
(* error, and the others still run to their end.  Loads do not exclude     *)
(* each other, and a process may die in any of them.                       *)
(***************************************************************************)
EXTENDS Naturals, FiniteSets, FiniteSetsExt

CONSTANTS
  Cross,        \* the type cross_channel
  Specialised,  \* the other types: each has a generator of its own
  Titles,
  Batch,        \* the titles each generator makes, for this workspace's data
  Loads,        \* requests that can be loading the queue at once
  Limit,        \* PLAN_LIMITS[plan].recommendationsPerWeek
  None,
  MaxCopies,    \* bound: rows of one type with one title
  MaxTouches,   \* bound: what managers do to rows
  MaxFaults     \* bound: statements that fail, processes that die

VARIABLES
  rows,       \* recommendations, by type, title and copy
  used,       \* usage_records.value of this week
  load,       \* each load's progress
  touches, faults,
  touched,    \* history: rows a manager has acted on, snoozed or assigned
  dirty,      \* history: a load stopped before its dedupe, none has run since
  overlapped, \* history: a load started while another was under way
  metered     \* history: rows made by loads that meter

vars == <<rows, used, load, touches, faults, touched, dirty, overlapped, metered>>

Types == Specialised \cup {Cross}
Keys == Types \X Titles \X (1..MaxCopies)
Row == [status : {"pending", "acted", "dismissed", "snoozed"}, assigned : BOOLEAN,
        until : {"null", "future", "past"}]
Present == {k \in Keys : rows[k] # None}
OfType(t) == {k \in Present : k[1] = t}

Branches == Types \cup {"wake", "dedupe"}
Off == [b \in Branches |-> "off"]
NoLoad == [pc |-> "idle", branch |-> Off, before |-> 0, due |-> {}]
Stages == {"maintain", "allowance", "generate", "dedupe", "count", "record"}

TypeOK ==
  /\ rows \in [Keys -> Row \cup {None}]
  /\ used \in Nat /\ metered \in Nat
  /\ \A l \in Loads :
       /\ load[l].pc \in {"idle"} \cup Stages
       /\ load[l].branch \in [Branches -> {"off", "run", "insert", "done", "failed"}]
       /\ load[l].before \in Nat /\ load[l].due \subseteq Keys
  /\ touches \in 0..MaxTouches /\ faults \in 0..MaxFaults
  /\ touched \subseteq Present /\ dirty \in BOOLEAN /\ overlapped \in BOOLEAN

Init ==
  /\ rows = [k \in Keys |-> None] /\ used = 0
  /\ load = [l \in Loads |-> NoLoad]
  /\ touches = 0 /\ faults = 0
  /\ touched = {} /\ dirty = FALSE /\ overlapped = FALSE /\ metered = 0

-----------------------------------------------------------------------------
(* One load: ensureGenerated.                                               *)

\* Asleep past its date.
Overdue(k) == rows[k].status = "snoozed" /\ rows[k].until = "past"

Running(bs) == [b \in Branches |-> IF b \in bs THEN "run" ELSE "off"]
Go(l, pc, bs) == load' = [load EXCEPT ![l].pc = pc, ![l].branch = Running(bs)]
EndLoad(l) == load' = [load EXCEPT ![l] = NoLoad]

\* countRecommendations: none means the first batch, which is not metered.
StartLoad(l) ==
  LET first == Present = {}
  IN  /\ load[l].pc = "idle"
      /\ load' = [load EXCEPT ![l] =
           [pc |-> IF first THEN "generate" ELSE "maintain",
            branch |-> Running(IF first THEN Types ELSE {"wake", "dedupe"}),
            before |-> Cardinality(Present), due |-> {k \in Present : Overdue(k)}]]
      /\ overlapped' = (overlapped \/ \E m \in Loads : load[m].pc # "idle")
      /\ UNCHANGED <<rows, used, touches, faults, touched, dirty, metered>>

Branch(l, b, to) == load' = [load EXCEPT ![l].branch[b] = to]

\* wakeExpiredSnoozes.
Wake(l) ==
  /\ load[l].branch["wake"] = "run"
  /\ rows' = [k \in Keys |-> IF rows[k] # None /\ Overdue(k)
                             THEN [rows[k] EXCEPT !.status = "pending", !.until = "null"]
                             ELSE rows[k]]
  /\ Branch(l, "wake", "done")
  /\ UNCHANGED <<used, touches, faults, touched, dirty, overlapped, metered>>

\* A cross_channel row nobody has taken up, next to a specialised one.
Duplicate(k) ==
  /\ rows[k] # None /\ k[1] = Cross /\ rows[k].status = "pending" /\ ~rows[k].assigned
  /\ \E j \in Present : j[1] # Cross /\ j[2] = k[2]

\* dedupeAgainstSpecialisedRows.
Dedupe ==
  /\ rows' = [k \in Keys |-> IF Duplicate(k) THEN None ELSE rows[k]]
  /\ touched' = {k \in touched : ~Duplicate(k)}
  /\ dirty' = FALSE

DedupeBranch(l) ==
  /\ load[l].branch["dedupe"] = "run"
  /\ Dedupe
  /\ Branch(l, "dedupe", "done")
  /\ UNCHANGED <<used, touches, faults, overlapped, metered>>

Settled(l) == \A b \in Branches : load[l].branch[b] \in {"off", "done", "failed"}
Failed(l) == \E b \in Branches : load[l].branch[b] = "failed"

\* Promise.all has rejected and the last of its branches has ended.
EndFailed(l) ==
  /\ load[l].pc \in {"maintain", "generate"} /\ Settled(l) /\ Failed(l)
  /\ EndLoad(l)
  /\ dirty' = (dirty \/ load[l].pc = "generate")
  /\ UNCHANGED <<rows, used, touches, faults, touched, overlapped, metered>>

Maintained(l) ==
  /\ load[l].pc = "maintain" /\ Settled(l) /\ ~Failed(l)
  /\ Go(l, "allowance", {})
  /\ UNCHANGED <<rows, used, touches, faults, touched, dirty, overlapped, metered>>

\* getRemainingAllowance: at the cap, what is there is still returned.
CheckAllowance(l) ==
  /\ load[l].pc = "allowance"
  /\ IF used >= Limit THEN EndLoad(l) ELSE Go(l, "generate", Types)
  /\ UNCHANGED <<rows, used, touches, faults, touched, dirty, overlapped, metered>>

\* A generator looks for rows of its own type.
CheckType(l, t) ==
  /\ load[l].branch[t] = "run"
  /\ Branch(l, t, IF OfType(t) # {} \/ Batch[t] = {} THEN "done" ELSE "insert")
  /\ UNCHANGED <<rows, used, touches, faults, touched, dirty, overlapped, metered>>

Fresh == [status |-> "pending", assigned |-> FALSE, until |-> "null"]
FreeCopies(t, x) == {n \in 1..MaxCopies : rows[<<t, x, n>>] = None}

\* And inserts its batch.
InsertBatch(l, t) ==
  /\ load[l].branch[t] = "insert"
  /\ \A x \in Batch[t] : FreeCopies(t, x) # {}
  /\ rows' = [k \in Keys |->
       IF k[1] = t /\ k[2] \in Batch[t] /\ k[3] = Min(FreeCopies(t, k[2]) \cup {MaxCopies + 1})
       THEN Fresh ELSE rows[k]]
  /\ metered' = IF load[l].before > 0 THEN metered + Cardinality(Batch[t]) ELSE metered
  /\ Branch(l, t, "done")
  /\ UNCHANGED <<used, touches, faults, touched, dirty, overlapped>>

\* Mutant: the batches after the first are not compared with each other.
DedupeFirstOnly(l) ==
  /\ load[l].pc = "generate" /\ Settled(l) /\ ~Failed(l)
  /\ IF load[l].before = 0 THEN Dedupe ELSE UNCHANGED <<rows, touched, dirty>>
  /\ IF load[l].before = 0 THEN EndLoad(l) ELSE Go(l, "count", {})
  /\ UNCHANGED <<used, touches, faults, overlapped, metered>>

DedupeBatch(l) ==
  /\ load[l].pc = "generate" /\ Settled(l) /\ ~Failed(l)
  /\ Dedupe
  /\ IF load[l].before = 0 THEN EndLoad(l) ELSE Go(l, "count", {})
  /\ UNCHANGED <<used, touches, faults, overlapped, metered>>

\* countRecommendations again, then recordUsage if rows were added.
CountCreated(l) ==
  /\ load[l].pc = "count"
  /\ IF Cardinality(Present) > load[l].before
     THEN load' = [load EXCEPT ![l].pc = "record",
                               ![l].before = Cardinality(Present) - load[l].before]
     ELSE EndLoad(l)
  /\ UNCHANGED <<rows, used, touches, faults, touched, dirty, overlapped, metered>>

RecordUsage(l) ==
  /\ load[l].pc = "record"
  /\ used' = used + load[l].before
  /\ EndLoad(l)
  /\ UNCHANGED <<rows, touches, faults, touched, dirty, overlapped, metered>>

\* A parallel branch throws: the others go on.
BranchFails(l, b) ==
  /\ faults < MaxFaults /\ load[l].branch[b] \in {"run", "insert"}
  /\ faults' = faults + 1
  /\ Branch(l, b, "failed")
  /\ UNCHANGED <<rows, used, touches, touched, dirty, overlapped, metered>>

\* A statement of the chain throws, or the process dies.
LoadDies(l) ==
  /\ faults < MaxFaults /\ load[l].pc # "idle"
  /\ faults' = faults + 1
  /\ EndLoad(l)
  /\ dirty' = (dirty \/ load[l].pc = "generate")
  /\ UNCHANGED <<rows, used, touches, touched, overlapped, metered>>

-----------------------------------------------------------------------------
(* Managers, and time.                                                      *)

\* A row that was touched is no longer one a load has to wake.
Touch(k, work) ==
  /\ touches < MaxTouches
  /\ touches' = touches + 1
  /\ touched' = IF work THEN touched \cup {k} ELSE touched
  /\ load' = [l \in Loads |-> [load[l] EXCEPT !.due = @ \ {k}]]

\* updateRecommendationStatus: snoozing sets the date or clears it, the
\* other statuses leave it.
SetStatus(k, status, until) ==
  /\ rows[k] # None /\ Touch(k, status # "pending")
  /\ rows' = [rows EXCEPT ![k].status = status,
                          ![k].until = IF status = "snoozed" THEN until ELSE @]
  /\ UNCHANGED <<used, faults, dirty, overlapped, metered>>

\* assignRecommendation.
Assign(k, to) ==
  /\ rows[k] # None /\ rows[k].assigned # to /\ Touch(k, to)
  /\ rows' = [rows EXCEPT ![k].assigned = to]
  /\ UNCHANGED <<used, faults, dirty, overlapped, metered>>

\* A snooze runs out.
DatePasses(k) ==
  /\ rows[k] # None /\ rows[k].until = "future"
  /\ rows' = [rows EXCEPT ![k].until = "past"]
  /\ UNCHANGED <<used, load, touches, faults, touched, dirty, overlapped, metered>>

\* The week is over: usage is counted under the new period.
NewWeek ==
  /\ used > 0
  /\ used' = 0
  /\ UNCHANGED <<rows, load, touches, faults, touched, dirty, overlapped, metered>>

LoadStep(l) ==
  \/ StartLoad(l) \/ Wake(l) \/ DedupeBranch(l) \/ EndFailed(l) \/ Maintained(l)
  \/ CheckAllowance(l) \/ DedupeBatch(l) \/ CountCreated(l) \/ RecordUsage(l)
  \/ \E t \in Types : CheckType(l, t) \/ InsertBatch(l, t)

Next ==
  \/ \E l \in Loads : LoadStep(l) \/ LoadDies(l) \/ \E b \in Branches : BranchFails(l, b)
  \/ \E k \in Present : DatePasses(k)
  \/ touches < MaxTouches /\ \E k \in Present :
       \/ \E s \in {"pending", "acted", "dismissed"} : SetStatus(k, s, "null")
       \/ \E u \in {"null", "future"} : SetStatus(k, "snoozed", u)
       \/ \E to \in BOOLEAN : Assign(k, to)
  \/ NewWeek

Spec == Init /\ [][Next]_vars

-----------------------------------------------------------------------------
(* Properties.                                                              *)

\* The queue never lists one job twice for good: a pending row nobody has
\* touched that repeats a specialised one is there only while a load is
\* still generating, or after one stopped before its dedupe and until the
\* next dedupe (dedupeAgainstSpecialisedRows), however loads overlap.
NoJobTwice ==
  \A k \in Keys \ touched :
    Duplicate(k) => dirty \/ \E l \in Loads : load[l].pc = "generate"

\* A load wakes every snooze that had run out when it began, whether the
\* plan lets it generate or not (ensureGenerated: returning early would leave
\* a capped workspace asleep).
LoadWakes ==
  \A l \in Loads :
    load[l].pc \in {"allowance", "generate", "count", "record"} =>
      \A k \in load[l].due : rows[k] = None \/ ~Overdue(k)

\* A customer is never charged for more rows than metered loads have made,
\* with duplicates dropped, loads cut short and weeks ending in between,
\* unless loads overlapped (ensureGenerated: a miscount would silently
\* overcharge).
NeverOvercharged == ~overlapped => used <= metered

\* The first batch is onboarding and is not metered: as long as no generator
\* has made its batch twice, nothing is charged (ensureGenerated).
FirstBatchIsFree == (\A k \in Present : k[3] = 1) => used = 0

\* A row someone has acted on, snoozed or been assigned is their work item
\* and is not deleted (dedupeAgainstSpecialisedRows).
WorkItemIsKept == [][\A k \in touched : rows'[k] # None]_vars

=============================================================================
