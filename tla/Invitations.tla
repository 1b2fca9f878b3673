---------------------------- MODULE Invitations ----------------------------
(***************************************************************************)
(* Seats and invitations of one workspace (apps/api/src/invitations.ts,    *)
(* the seat check of apps/api/src/plan-limits.ts).                         *)
(*                                                                         *)
(* Inviting and accepting are chains of single statements: nothing holds a *)
(* seat between the count and the INSERT, and workspace_members has no     *)
(* unique index on workspace and user.  A process may die between any two  *)
(* statements.                                                             *)
(***************************************************************************)
EXTENDS Naturals, FiniteSets

CONSTANTS
  People,      \* who may be invited; a person has one account and address
  Invites,     \* invitation ids
  Creators,    \* calls of createInvitation in progress
  Acceptors,   \* calls of acceptInvitation in progress
  SeatLimit,   \* PLAN_LIMITS[plan].teamMembers
  None,
  MaxFaults    \* bound: processes that die halfway

VARIABLES
  inv,         \* workspace_invitations, None for an id not used yet
  rows,        \* rows of workspace_members for each person, the owner aside
  creating,    \* createInvitation calls
  accepting,   \* acceptInvitation calls
  faults,
  twins,       \* history: people with two calls of a kind at once
  raced        \* history: a createInvitation overlapped another call

tables == <<inv, rows>>
vars == <<tables, creating, accepting, faults, twins, raced>>

Invitation == [email : People, status : {"pending", "accepted", "revoked"}, expired : BOOLEAN]
Live(i) == inv[i] # None /\ inv[i].status = "pending" /\ ~inv[i].expired

NoCreate == [pc |-> "idle", email |-> None, counted |-> 0]
NoAccept == [pc |-> "idle", inv |-> None]
CreateStages == {"members", "pending", "member", "invite", "insert"}
AcceptStages == {"member", "seat", "mark"}

\* db.$count of workspace_members: the owner's row and everyone else's.
MemberCount == 1 + Cardinality(UNION {{p} \X (1..rows[p]) : p \in People})
\* db.$count of the unexpired pending invitations.
PendingCount == Cardinality({i \in Invites : Live(i)})

TypeOK ==
  /\ inv \in [Invites -> Invitation \cup {None}]
  /\ rows \in [People -> Nat]
  /\ creating \in [Creators -> [pc : {"idle"} \cup CreateStages, email : People \cup {None},
                               counted : Nat]]
  /\ \A c \in Creators : creating[c].pc # "idle" => creating[c].email \in People
  /\ accepting \in [Acceptors -> [pc : {"idle"} \cup AcceptStages, inv : Invites \cup {None}]]
  /\ \A a \in Acceptors : accepting[a].pc # "idle" =>
       accepting[a].inv \in Invites /\ inv[accepting[a].inv] # None
  /\ faults \in 0..MaxFaults
  /\ twins \subseteq People /\ raced \in BOOLEAN

Init ==
  /\ inv = [i \in Invites |-> None]
  /\ rows = [p \in People |-> 0]
  /\ creating = [c \in Creators |-> NoCreate]
  /\ accepting = [a \in Acceptors |-> NoAccept]
  /\ faults = 0 /\ twins = {} /\ raced = FALSE

-----------------------------------------------------------------------------
(* createInvitation.                                                        *)

\* Another call invites the same person at this moment.
SameEmail(c, p) == \E d \in Creators \ {c} : creating[d].email = p

StartCreate(c, p) ==
  /\ creating[c].pc = "idle"
  /\ creating' = [creating EXCEPT ![c] = [pc |-> "members", email |-> p, counted |-> 0]]
  /\ twins' = IF SameEmail(c, p) THEN twins \cup {p} ELSE twins
  /\ raced' = (raced \/ (\E d \in Creators : creating[d].pc # "idle")
                    \/ (\E a \in Acceptors : accepting[a].pc # "idle"))
  /\ UNCHANGED <<tables, accepting, faults>>

StepTo(c, pc) == creating' = [creating EXCEPT ![c].pc = pc]
EndCreate(c) == creating' = [creating EXCEPT ![c] = NoCreate]

\* assertCanInviteMember counts the members, and then the pending
\* invitations.
CountMembers(c) ==
  /\ creating[c].pc = "members"
  /\ creating' = [creating EXCEPT ![c].counted = MemberCount, ![c].pc = "pending"]
  /\ UNCHANGED <<tables, accepting, faults, twins, raced>>

\* Mutant: pending invitations claim no seat.
CountNoPending(c) ==
  /\ creating[c].pc = "pending"
  /\ IF creating[c].counted >= SeatLimit
     THEN EndCreate(c) ELSE creating' = [creating EXCEPT ![c].counted = 0, ![c].pc = "member"]
  /\ UNCHANGED <<tables, accepting, faults, twins, raced>>

CountPending(c) ==
  /\ creating[c].pc = "pending"
  /\ IF creating[c].counted + PendingCount >= SeatLimit
     THEN EndCreate(c)
     ELSE creating' = [creating EXCEPT ![c].counted = 0, ![c].pc = "member"]
  /\ UNCHANGED <<tables, accepting, faults, twins, raced>>

\* Is this person a member already?
CheckMember(c) ==
  /\ creating[c].pc = "member"
  /\ IF rows[creating[c].email] > 0 THEN EndCreate(c) ELSE StepTo(c, "invite")
  /\ UNCHANGED <<tables, accepting, faults, twins, raced>>

\* A live pending invitation to the same address.
FindLive(p) == {i \in Invites : Live(i) /\ inv[i].email = p}

CheckInvite(c) ==
  /\ creating[c].pc = "invite"
  /\ IF FindLive(creating[c].email) # {} THEN EndCreate(c) ELSE StepTo(c, "insert")
  /\ UNCHANGED <<tables, accepting, faults, twins, raced>>

\* The INSERT; the mail that follows is best effort.
InsertInvite(c, i) ==
  /\ creating[c].pc = "insert" /\ inv[i] = None
  /\ inv' = [inv EXCEPT ![i] = [email |-> creating[c].email, status |-> "pending",
                                expired |-> FALSE]]
  /\ EndCreate(c)
  /\ UNCHANGED <<rows, accepting, faults, twins, raced>>

\* Seven days pass.
Expire(i) ==
  /\ Live(i)
  /\ inv' = [inv EXCEPT ![i].expired = TRUE]
  /\ UNCHANGED <<rows, creating, accepting, faults, twins, raced>>

\* revokeInvitation: one UPDATE of a row that is still pending.
Revoke(i) ==
  /\ inv[i] # None /\ inv[i].status = "pending"
  /\ inv' = [inv EXCEPT ![i].status = "revoked"]
  /\ UNCHANGED <<rows, creating, accepting, faults, twins, raced>>

-----------------------------------------------------------------------------
(* acceptInvitation.  The signed-in address is the invited one.            *)

Who(a) == inv[accepting[a].inv].email

\* The invitation is read; it must be pending and not expired.
StartAccept(a, i) ==
  /\ accepting[a].pc = "idle" /\ Live(i)
  /\ accepting' = [accepting EXCEPT ![a] = [pc |-> "member", inv |-> i]]
  /\ twins' = IF \E b \in Acceptors \ {a} : accepting[b].pc # "idle" /\ Who(b) = inv[i].email
              THEN twins \cup {inv[i].email} ELSE twins
  /\ raced' = (raced \/ \E c \in Creators : creating[c].pc # "idle")
  /\ UNCHANGED <<tables, creating, faults>>

\* Is the person a member already?
CheckSeated(a) ==
  /\ accepting[a].pc = "member"
  /\ accepting' = [accepting EXCEPT ![a].pc = IF rows[Who(a)] > 0 THEN "mark" ELSE "seat"]
  /\ UNCHANGED <<tables, creating, faults, twins, raced>>

Seat(a) ==
  /\ accepting[a].pc = "seat"
  /\ rows' = [rows EXCEPT ![Who(a)] = @ + 1]
  /\ accepting' = [accepting EXCEPT ![a].pc = "mark"]
  /\ UNCHANGED <<inv, creating, faults, twins, raced>>

\* UPDATE by id alone: an invitation revoked since is accepted all the same.
MarkAccepted(a) ==
  /\ accepting[a].pc = "mark"
  /\ inv' = [inv EXCEPT ![accepting[a].inv].status = "accepted"]
  /\ accepting' = [accepting EXCEPT ![a] = NoAccept]
  /\ UNCHANGED <<rows, creating, faults, twins, raced>>

\* A statement throws, or the process dies.
CreateDies(c) ==
  /\ faults < MaxFaults /\ creating[c].pc # "idle"
  /\ faults' = faults + 1
  /\ EndCreate(c)
  /\ UNCHANGED <<tables, accepting, twins, raced>>

AcceptDies(a) ==
  /\ faults < MaxFaults /\ accepting[a].pc # "idle"
  /\ faults' = faults + 1
  /\ accepting' = [accepting EXCEPT ![a] = NoAccept]
  /\ UNCHANGED <<tables, creating, twins, raced>>

-----------------------------------------------------------------------------
CreateStep(c) ==
  \/ \E p \in People : StartCreate(c, p)
  \/ CountMembers(c) \/ CountPending(c) \/ CheckMember(c) \/ CheckInvite(c)
  \/ \E i \in Invites : InsertInvite(c, i)
  \/ CreateDies(c)

AcceptStep(a) ==
  \/ \E i \in Invites : StartAccept(a, i)
  \/ CheckSeated(a) \/ Seat(a) \/ MarkAccepted(a) \/ AcceptDies(a)

Next ==
  \/ \E c \in Creators : CreateStep(c)
  \/ \E a \in Acceptors : AcceptStep(a)
  \/ \E i \in Invites : Expire(i) \/ Revoke(i)

Spec == Init /\ [][Next]_vars

-----------------------------------------------------------------------------
(* Properties.                                                              *)

\* An accepted invitation has given its seat, even if the process died
\* somewhere in acceptInvitation.
AcceptedHasSeat ==
  \A i \in Invites : inv[i] # None /\ inv[i].status = "accepted" => rows[inv[i].email] > 0

\* Nobody sits in two seats, although acceptInvitation can be cut short and
\* repeated and people are invited again, unless one person's calls overlap.
OneSeatEach == \A p \in People \ twins : rows[p] <= 1

\* An acceptance gives one seat: no less and no more.
SeatGiven == AcceptedHasSeat /\ OneSeatEach

\* The seats given, and those promised to somebody else, stay within the
\* plan through expiry, revocation, calls cut short and repeated, unless an
\* invitation was made while another was being made or accepted, or one person
\* accepted twice at once and has two rows (assertCanInviteMember: a pending
\* invitation is a claim on a seat).
SeatsHold ==
  ~raced /\ twins = {} =>
    MemberCount + Cardinality({i \in Invites : Live(i) /\ rows[inv[i].email] = 0}) <= SeatLimit

=============================================================================
