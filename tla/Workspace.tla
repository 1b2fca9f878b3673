------------------------------ MODULE Workspace ------------------------------
(***************************************************************************)
(* The components of a workspace that share no state with one another.  A  *)
(* behaviour of WorkspaceSpec is one of one component: `part` says which.  *)
(* The others do not begin: their variables are 0.  Constants and          *)
(* variables have the names they have in the components; a name that       *)
(* several components use stands for the same set, or is used by the one   *)
(* that runs.                                                              *)
(***************************************************************************)
EXTENDS Naturals, FiniteSets

CONSTANTS
  Parts,                                        \* the components to check
  None, MaxFaults, Calls,
  People, Invites, Creators, Acceptors, SeatLimit,              \* Invitations
  Cross, Specialised, Titles, Batch, Loads, Limit, MaxCopies, MaxTouches,
  Experiments, Winners, MaxLaunch,
  Users, Supers, MaxLog, MaxViews,              \* AdminConsole
  Requests, Body, Unparsed, Effect, maxRetries, \* RetryingFetch
  Processes, Sockets, Events,                   \* EventBus
  Rows, Statuses, Clicks, Mock, Asked,          \* RecommendationScreen
  MaxEdits, MaxSaves,                           \* BlogEditor
  Posts, Done, Wanted, MaxSuffix, slugify,      \* BlogPosts
  Accounts, Syncs, MaxGrants                    \* Connections

VARIABLES
  part,
  faults, call, rows, raced, overlapped, dirty, \* of several components
  inv, creating, accepting, twins,
  used, load, touches, touched, metered,
  row, launches, born,
  role, log, views, contested, crowded, doubled,
  pc, attempt, aborted, result, ran,
  room, subscriber, publisher, command, channel, got, again, expecting,
  server, cache, read, current, late, missed, unread,
  draft, timer, sent, stored, hurried,
  post, fresh, pin, botched, unhinted, lost,
  conn, kw, pages, doomed, sync, grants, newest, crossed, cut, latest

Inv == INSTANCE Invitations
Rec == INSTANCE Recommendations
Exp == INSTANCE Experiments
Ret == INSTANCE RetryingFetch
Bus == INSTANCE EventBus
Scr == INSTANCE RecommendationScreen
Edi == INSTANCE BlogEditor
Pos == INSTANCE BlogPosts
Con == INSTANCE Connections
Acc == INSTANCE AdminConsole

-----------------------------------------------------------------------------
(* What the components ask of their constants.                             *)

\* None is nothing else.
ASSUME NoneIsNothing ==
  /\ None \notin People \cup Invites \cup Experiments \cup Users \cup Accounts
  /\ None \notin Inv!Invitation /\ None \notin Exp!Row /\ None \notin Con!Connection

\* Members and invitations can be counted.
ASSUME FinitelyMany == IsFiniteSet(People) /\ IsFiniteSet(Invites)

\* The bounds are numbers, and a plan has a seat for the owner.
ASSUME BoundsAreNumbers ==
  /\ {MaxFaults, MaxLaunch, MaxLog, MaxViews, maxRetries, MaxGrants} \subseteq Nat
  /\ SeatLimit \in Nat \ {0}

\* A socket that is new or closed is in no process's room.
ASSUME RoomsAreProcesses == {"new", "closed"} \cap Processes = {}

\* What a screen has in place of a list, or of a click, is neither.
ASSUME AskedIsNoList == {Asked, None} \cap Scr!List = {} /\ Asked # None
ASSUME NoneIsNoCall == None \notin Scr!Call

\* None and Done are no post, no row and no call.
ASSUME PostsAreNamed ==
  /\ None \notin Posts /\ None \notin Pos!Row /\ None \notin Pos!Call
  /\ Done \notin Pos!Call /\ Done # None /\ None \notin {"past", "future"}

\* An address that is taken is tried with a suffix at least once.
ASSUME SuffixesBegin == MaxSuffix \in Nat \ {0}

\* A generator makes finitely many rows of titles, and its name is no step of
\* a load.
ASSUME BatchesAreFinite ==
  /\ Batch \in [Rec!Types -> SUBSET Titles] /\ \A t \in Rec!Types : IsFiniteSet(Batch[t])
  /\ {"wake", "dedupe"} \cap Rec!Types = {} /\ None \notin Rec!Row

\* Somebody is a super admin to begin with.
ASSUME SomeoneIsSuper == Supers \subseteq Users /\ Supers # {}

\* The texts are as the wrapper of the database driver expects them.
ASSUME TextsAreNamed == Effect \subseteq Requests /\ Ret!EffectsAreNamed

\* What slugify makes of an address is one as it was asked for.
ASSUME SpellingIsOne == Pos!SlugsStaySlugs

-----------------------------------------------------------------------------
(* The variables each component has for itself.                            *)

invOwn == <<inv, creating, accepting, twins>>
recOwn == <<used, load, touches, touched, metered>>
expOwn == <<row, launches, born>>
accOwn == <<role, log, views, contested, crowded, doubled>>
retOwn == <<pc, attempt, aborted, result, ran>>
busOwn == <<room, subscriber, publisher, command, channel, got, again, expecting>>
scrOwn == <<server, cache, read, current, late, missed, unread>>
ediOwn == <<draft, timer, sent, stored, hurried>>
posOwn == <<post, fresh, pin, botched, unhinted, lost>>
conOwn == <<conn, kw, pages, doomed, sync, grants, newest, crossed, cut, latest>>

allVars ==
  <<part, faults, call, rows, raced, overlapped, dirty, invOwn, recOwn, expOwn,
    accOwn, retOwn, busOwn, scrOwn, ediOwn, posOwn, conOwn>>

\* What holds of a component's own variables while another runs.
Absent(names, what) == IF part \in names THEN TRUE ELSE what

\* One component begins.
WorkspaceInit ==
  /\ part \in Parts
  /\ \/ part = "invitations" /\ Inv!Init /\ call = 0 /\ overlapped = 0 /\ dirty = 0
     \/ part = "recommendations" /\ Rec!Init /\ call = 0 /\ raced = 0
     \/ /\ part = "experiments" /\ Exp!Init
        /\ faults = 0 /\ rows = 0 /\ overlapped = 0 /\ dirty = 0
     \/ /\ part = "access" /\ Acc!Init
        /\ rows = 0 /\ raced = 0 /\ overlapped = 0 /\ dirty = 0
     \/ /\ part = "fetch" /\ Ret!Init
        /\ faults = 0 /\ call = 0 /\ rows = 0 /\ raced = 0 /\ overlapped = 0 /\ dirty = 0
     \/ /\ part = "bus" /\ Bus!Init
        /\ call = 0 /\ rows = 0 /\ raced = 0 /\ overlapped = 0 /\ dirty = 0
     \/ /\ part = "screen" /\ Scr!Init
        /\ rows = 0 /\ raced = 0 /\ overlapped = 0 /\ dirty = 0
     \/ /\ part = "editor" /\ Edi!Init
        /\ call = 0 /\ rows = 0 /\ raced = 0 /\ overlapped = 0
     \/ /\ part = "posts" /\ Pos!Init
        /\ rows = 0 /\ overlapped = 0 /\ dirty = 0
     \/ /\ part = "connections" /\ Con!Init
        /\ call = 0 /\ rows = 0 /\ raced = 0 /\ dirty = 0
  /\ Absent({"invitations"}, inv = 0 /\ creating = 0 /\ accepting = 0 /\ twins = 0)
  /\ Absent({"recommendations"},
            used = 0 /\ load = 0 /\ touches = 0 /\ touched = 0 /\ metered = 0)
  /\ Absent({"experiments"}, row = 0 /\ launches = 0 /\ born = 0)
  /\ Absent({"access"},
            role = 0 /\ log = 0 /\ views = 0 /\ contested = 0 /\ crowded = 0 /\ doubled = 0)
  /\ Absent({"fetch"}, pc = 0 /\ attempt = 0 /\ aborted = 0 /\ result = 0 /\ ran = 0)
  /\ Absent({"bus"}, /\ room = 0 /\ subscriber = 0 /\ publisher = 0 /\ command = 0
                     /\ channel = 0 /\ got = 0 /\ again = 0 /\ expecting = 0)
  /\ Absent({"screen"}, /\ server = 0 /\ cache = 0 /\ read = 0 /\ current = 0 /\ late = 0
                        /\ missed = 0 /\ unread = 0)
  /\ Absent({"editor"}, draft = 0 /\ timer = 0 /\ sent = 0 /\ stored = 0 /\ hurried = 0)
  /\ Absent({"posts"}, /\ post = 0 /\ fresh = 0 /\ pin = 0 /\ botched = 0 /\ unhinted = 0
                       /\ lost = 0)
  /\ Absent({"connections"}, /\ conn = 0 /\ kw = 0 /\ pages = 0 /\ doomed = 0 /\ sync = 0
                             /\ grants = 0 /\ newest = 0 /\ crossed = 0 /\ cut = 0
                             /\ latest = 0)

\* Its steps.
ComponentNext ==
  \/ part = "invitations" /\ Inv!Next /\ UNCHANGED <<call, overlapped, dirty>>
  \/ part = "recommendations" /\ Rec!Next /\ UNCHANGED <<call, raced>>
  \/ part = "experiments" /\ Exp!Next /\ UNCHANGED <<faults, rows, overlapped, dirty>>
  \/ part = "access" /\ Acc!Next /\ UNCHANGED <<rows, raced, overlapped, dirty>>
  \/ part = "fetch" /\ Ret!Next /\ UNCHANGED <<faults, call, rows, raced, overlapped, dirty>>
  \/ part = "bus" /\ Bus!Next /\ UNCHANGED <<call, rows, raced, overlapped, dirty>>
  \/ part = "screen" /\ Scr!Next /\ UNCHANGED <<rows, raced, overlapped, dirty>>
  \/ part = "editor" /\ Edi!Next /\ UNCHANGED <<call, rows, raced, overlapped>>
  \/ part = "posts" /\ Pos!Next /\ UNCHANGED <<rows, overlapped, dirty>>
  \/ part = "connections" /\ Con!Next /\ UNCHANGED <<call, rows, raced, dirty>>

WorkspaceNext ==
  /\ part' = part
  /\ ComponentNext
  /\ Absent({"invitations"}, UNCHANGED invOwn)
  /\ Absent({"recommendations"}, UNCHANGED recOwn)
  /\ Absent({"experiments"}, UNCHANGED expOwn)
  /\ Absent({"access"}, UNCHANGED accOwn)
  /\ Absent({"fetch"}, UNCHANGED retOwn)
  /\ Absent({"bus"}, UNCHANGED busOwn)
  /\ Absent({"screen"}, UNCHANGED scrOwn)
  /\ Absent({"editor"}, UNCHANGED ediOwn)
  /\ Absent({"posts"}, UNCHANGED posOwn)
  /\ Absent({"connections"}, UNCHANGED conOwn)

WorkspaceSpec == WorkspaceInit /\ [][WorkspaceNext]_allVars

-----------------------------------------------------------------------------
(* What each property says is said in the component's module.              *)

\* invitations.ts: an accepted invitation has given its seat, and only one;
\* plan-limits.ts: seats given and promised stay within the plan.
SeatsAreRight ==
  part = "invitations" => /\ Inv!SeatGiven
                          /\ Inv!SeatsHold

\* recommendations.ts: no job is listed twice for good, a load wakes every
\* snooze that has run out, and no more is charged than metered loads have made.
QueueIsKept ==
  part = "recommendations" => /\ Rec!NoJobTwice
                              /\ Rec!LoadWakes
                              /\ Rec!NeverOvercharged

\* connections.ts: the refresh token stored is the newest that was, if no two
\* callbacks of the account crossed.
RefreshTokenIsNewest == part = "connections" => Con!RefreshTokenIsNewest

\* gsc-sync.ts: a snapshot that is not whole says so, if syncs neither overlap
\* nor die.
SnapshotIsWhole == part = "connections" => Con!SnapshotIsWhole

\* gsc-sync.ts:90: a run replaces today's snapshot.
SnapshotIsReplaced == part = "connections" => Con!SnapshotIsReplaced

\* experiments.ts: what is concluded, and when a test began, stays.
HistoryIsKept == [][part = "experiments" => Exp!KeepsHistory]_allVars

\* routes/admin.ts: somebody can always restore access, and the record of a
\* role is a chain that ends at the role.
RolesAreKept ==
  part = "access" => /\ Acc!SomeoneCanRestore
                     /\ Acc!RecordIsChain

\* admin-audit.ts: every view is counted, folded into a row or listed.
ViewsAreCounted == part = "access" => Acc!ViewsAreCounted

\* retry.ts: a write takes effect at most once, and its caller is told so.
WrittenOnce == part = "fetch" => Ret!WrittenOnce

\* ws.ts: an event reaches whom it was broadcast to, and once.
BroadcastsAreRight == part = "bus" => Bus!BroadcastsRight

\* useRecommendationActions.ts: a screen at rest shows the table, but for rows
\* changed elsewhere since the list was read.
ScreenAgrees == part = "screen" => Scr!ScreenAgrees

\* The blog's editor: what it calls saved is stored, if nobody hurried it.
CalmIsStored == part = "editor" => Edi!CalmIsStored

\* The same, whoever hurries: "whether the last sentence is safe yet".
SavedIsStored == part = "editor" => Edi!SavedIsStored

\* blog.ts: the public pages are told of every change whose request was not cut
\* short, the pin stays, and what is published is not deleted.
BlogIsKept == part = "posts" => Pos!BlogIsKept

=============================================================================
