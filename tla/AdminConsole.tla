---------------------------- MODULE AdminConsole ----------------------------
(***************************************************************************)
(* Platform access and its record: the super admin console's role change   *)
(* (apps/api/src/routes/admin.ts, admin.ts, guards.ts) and the audit log   *)
(* every admin route writes to (admin-audit.ts).                           *)
(*                                                                         *)
(* A role change checks the actor's own role, confirms the password, reads *)
(* the subject, writes, and logs; nothing holds between those statements.  *)
(* A read is logged after it is made, folded into a recent row of the same *)
(* actor and action if there is one.  The log swallows its own failures.   *)
(***************************************************************************)
EXTENDS Naturals, Sequences, FiniteSets

CONSTANTS
  Users,        \* staff and customers
  Supers,       \* the super admins to begin with (grant-admin)
  Calls,        \* requests in progress
  None,
  MaxLog,       \* bound: rows of the audit log
  MaxViews,     \* bound: reads of the console, of each user
  MaxFaults     \* bound: log statements that fail, processes that die

VARIABLES
  role,      \* user.platformRole
  log,       \* admin_audit_log, oldest first: reads as views, changes as they are
  call,      \* each request's progress
  views,     \* history: how many pages of the console each user has opened
  faults,
  contested, \* history: users whose role was under change twice at once, or
             \* whose change was cut off from its record
  crowded,   \* history: a role change began while another was under way
  doubled    \* history: actors with two reads at once

vars == <<role, log, call, views, faults, contested, crowded, doubled>>

Roles == {"none", "support_agent", "super_admin"}
View(u) == [actor |-> u, subject |-> None, before |-> "none", after |-> "none",
            repeats |-> 1, fresh |-> TRUE]
Idle == [pc |-> "idle", actor |-> None, subject |-> None, to |-> "none",
         before |-> "none", found |-> 0, repeats |-> 0]
Changing == {"stepup", "before", "write", "log"}
Reading == {"find", "fold", "insert"}
Entry == [actor : Users, subject : Users \cup {None}, before : Roles, after : Roles,
          repeats : Nat, fresh : BOOLEAN]
Request == [pc : {"idle"} \cup Changing \cup Reading, actor : Users \cup {None},
            subject : Users \cup {None}, to : Roles, before : Roles, found : Nat,
            repeats : Nat]

TypeOK ==
  /\ role \in [Users -> Roles]
  /\ log \in Seq(Entry) /\ Len(log) <= MaxLog
  /\ call \in [Calls -> Request]
  /\ \A c \in Calls :
       /\ call[c].pc # "idle" => call[c].actor \in Users
       /\ call[c].pc \in Changing => call[c].subject \in Users
       /\ call[c].pc = "fold" => call[c].found \in DOMAIN log
  /\ views \in [Users -> 0..MaxViews] /\ faults \in 0..MaxFaults
  /\ contested \subseteq Users /\ crowded \in BOOLEAN /\ doubled \subseteq Users

Init ==
  /\ role = [u \in Users |-> IF u \in Supers THEN "super_admin" ELSE "none"]
  /\ log = <<>>
  /\ call = [c \in Calls |-> Idle]
  /\ views = [u \in Users |-> 0] /\ faults = 0
  /\ contested = {} /\ crowded = FALSE /\ doubled = {}

Step(c, pc) == call' = [call EXCEPT ![c].pc = pc]
End(c) == call' = [call EXCEPT ![c] = Idle]

-----------------------------------------------------------------------------
(* POST /admin/users/:id/platform-role.                                     *)

\* Mutant: an operator may change any row, their own included.
AnySubject(actor, u) == TRUE

\* Nobody edits their own platform access here.
MayChange(actor, u) == u # actor

UnderChange(u, c) == \E d \in Calls \ {c} : call[d].pc \in Changing /\ call[d].subject = u

\* requirePlatformRole, and the test of the subject.
StartChange(c, actor, u, to) ==
  /\ call[c].pc = "idle"
  /\ role[actor] = "super_admin" /\ MayChange(actor, u)
  /\ call' = [call EXCEPT ![c] = [Idle EXCEPT !.pc = "stepup", !.actor = actor,
                                              !.subject = u, !.to = to]]
  /\ contested' = IF UnderChange(u, c) THEN contested \cup {u} ELSE contested
  /\ crowded' = (crowded \/ \E d \in Calls : call[d].pc \in Changing)
  /\ UNCHANGED <<role, log, views, faults, doubled>>

\* requireStepUp: the password matches, or the change is not made.
StepUp(c) ==
  /\ call[c].pc = "stepup"
  /\ Step(c, "before") \/ End(c)
  /\ UNCHANGED <<role, log, views, faults, contested, crowded, doubled>>

\* getUserDetail: what the subject's role was.
ReadBefore(c) ==
  /\ call[c].pc = "before"
  /\ call' = [call EXCEPT ![c].before = role[call[c].subject], ![c].pc = "write"]
  /\ UNCHANGED <<role, log, views, faults, contested, crowded, doubled>>

\* setPlatformRole: an UPDATE by id.
SetRole(c) ==
  /\ call[c].pc = "write"
  /\ role' = [role EXCEPT ![call[c].subject] = call[c].to]
  /\ Step(c, "log")
  /\ UNCHANGED <<log, views, faults, contested, crowded, doubled>>

\* logAdminAction of a change: always a row of its own.
LogChange(c) ==
  /\ call[c].pc = "log" /\ Len(log) < MaxLog
  /\ log' = Append(log, [actor |-> call[c].actor, subject |-> call[c].subject,
                         before |-> call[c].before, after |-> call[c].to,
                         repeats |-> 1, fresh |-> TRUE])
  /\ End(c)
  /\ UNCHANGED <<role, views, faults, contested, crowded, doubled>>

-----------------------------------------------------------------------------
(* A page of the console is opened: logAdminAction of a read.               *)

StartView(c, u) ==
  /\ call[c].pc = "idle" /\ role[u] # "none" /\ views[u] < MaxViews
  /\ views' = [views EXCEPT ![u] = @ + 1]
  /\ call' = [call EXCEPT ![c] = [Idle EXCEPT !.pc = "find", !.actor = u]]
  /\ doubled' = IF \E d \in Calls : call[d].pc \in Reading /\ call[d].actor = u
                THEN doubled \cup {u} ELSE doubled
  /\ UNCHANGED <<role, log, faults, contested, crowded>>

\* The rows of the same read that are within REPEAT_WINDOW_MS.
Recent(u) == {i \in DOMAIN log : log[i].subject = None /\ log[i].actor = u /\ log[i].fresh}

FindRecent(c) ==
  LET rs == Recent(call[c].actor)
  IN  /\ call[c].pc = "find"
      /\ \/ rs = {} /\ Step(c, "insert")
         \/ \E i \in rs :
              /\ \A j \in rs : j <= i
              /\ call' = [call EXCEPT ![c].pc = "fold", ![c].found = i,
                                      ![c].repeats = log[i].repeats]
      /\ UNCHANGED <<role, log, views, faults, contested, crowded, doubled>>

\* Mutant: the first repeat is counted as the first view.
RestartCount(c) ==
  /\ call[c].pc = "fold"
  /\ log' = [log EXCEPT ![call[c].found].repeats = 1, ![call[c].found].fresh = TRUE]
  /\ End(c)
  /\ UNCHANGED <<role, views, faults, contested, crowded, doubled>>

\* The row found is bumped, to one more than was read.
FoldView(c) ==
  /\ call[c].pc = "fold"
  /\ log' = [log EXCEPT ![call[c].found].repeats = call[c].repeats + 1,
                        ![call[c].found].fresh = TRUE]
  /\ End(c)
  /\ UNCHANGED <<role, views, faults, contested, crowded, doubled>>

InsertView(c) ==
  /\ call[c].pc = "insert" /\ Len(log) < MaxLog
  /\ log' = Append(log, View(call[c].actor))
  /\ End(c)
  /\ UNCHANGED <<role, views, faults, contested, crowded, doubled>>

\* Five minutes pass.  Only the age of a read's row is ever looked at.
WindowPasses(i) ==
  /\ i \in DOMAIN log /\ log[i].subject = None /\ log[i].fresh
  /\ log' = [log EXCEPT ![i].fresh = FALSE]
  /\ UNCHANGED <<role, call, views, faults, contested, crowded, doubled>>

\* A statement throws, the log's own failure swallowed, or the process dies.
Fails(c) ==
  /\ call[c].pc # "idle" /\ faults < MaxFaults
  /\ faults' = faults + 1
  /\ contested' = IF call[c].pc = "log" THEN contested \cup {call[c].subject} ELSE contested
  /\ doubled' = IF call[c].pc \in Reading THEN doubled \cup {call[c].actor} ELSE doubled
  /\ End(c)
  /\ UNCHANGED <<role, log, views, crowded>>

Next ==
  \/ \E c \in Calls :
       \/ \E actor, u \in Users, to \in Roles : StartChange(c, actor, u, to)
       \/ StepUp(c) \/ ReadBefore(c) \/ SetRole(c) \/ LogChange(c)
       \/ \E u \in Users : StartView(c, u)
       \/ FindRecent(c) \/ FoldView(c) \/ InsertView(c) \/ Fails(c)
  \/ \E i \in 1..MaxLog : WindowPasses(i)

Spec == Init /\ [][Next]_vars

-----------------------------------------------------------------------------
(* Properties.                                                              *)

\* Somebody can always restore access through the console, the only
\* interface to the role, as long as no two role changes overlap: it is
\* because nobody changes their own (routes/admin.ts).
SomeoneCanRestore == ~crowded => \E u \in Users : role[u] = "super_admin"

\* The rows that record a change of this user's role.
About(u) == {i \in DOMAIN log : log[i].subject = u}
FirstRole(u) == IF u \in Supers THEN "super_admin" ELSE "none"

\* The rows before position i leave the user with role r.
Recorded(u, i, r) ==
  LET before == {j \in About(u) : j < i}
  IN  \/ before = {} /\ r = FirstRole(u)
      \/ \E j \in before : (\A k \in before : k <= j) /\ r = log[j].after

\* The record of a user's role is a chain without gaps: each entry starts
\* from what the one before left, and the last one leaves the role the user
\* has, or a change is between its write and its record.  Two changes of one
\* user at once, or one cut off before it is logged, break the chain.
RecordIsChain ==
  \A u \in Users \ contested :
    /\ \A i \in About(u) : Recorded(u, i, log[i].before)
    /\ \/ Recorded(u, Len(log) + 1, role[u])
       \/ \E c \in Calls : call[c].pc = "log" /\ call[c].subject = u

Pending(u) == {c \in Calls : call[c].pc \in Reading /\ call[c].actor = u}

\* The views of this user that the log shows: a row stands for as many as it
\* has repeats.
Shown(u) == UNION {{i} \X (1..log[i].repeats) :
                     i \in {j \in DOMAIN log : log[j].subject = None /\ log[j].actor = u}}

\* Every view is counted, folded into a row or listed (logAdminAction: the log
\* still says the view happened, and how many times), unless two of the same
\* actor's were logged at once or one failed to be.
ViewsAreCounted ==
  \A u \in Users \ doubled : Pending(u) = {} => Cardinality(Shown(u)) = views[u]

=============================================================================
