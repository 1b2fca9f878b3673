------------------------- MODULE RecommendationScreen -------------------------
(***************************************************************************)
(* One browser tab showing a workspace's recommendations: the optimistic   *)
(* update of apps/web/lib/hooks/useRecommendationActions.ts over the query *)
(* of useRecommendations.ts, which the socket of useWorkspaceSocket.ts     *)
(* refreshes.                                                              *)
(*                                                                         *)
(* A click patches the cached list before the server knows; a failure puts *)
(* the whole list of before the click back; either way the list is read    *)
(* again.  Clicks overlap, and reads overlap with clicks.  Other tabs and  *)
(* other managers change the same rows, and nobody tells this tab.         *)
(***************************************************************************)
EXTENDS FiniteSets, Naturals

CONSTANTS
  Rows,       \* recommendations in the list
  Statuses,
  Clicks,     \* calls of the mutation, each made once
  Mock,       \* the list computed in the browser when the API is unreachable
  Asked,      \* a read the API has not made yet
  None,
  MaxFaults   \* bound: failed calls and reads

VARIABLES
  server,    \* status of each row in the table
  cache,     \* the list the query holds
  read,      \* the read under way: asked, or the list it has read
  current,   \* the query is not marked invalid
  call,      \* the calls of the mutation
  faults,
  late,      \* history: a request took effect after its call had failed
  missed,    \* history: rows changed elsewhere since the list shown was read
  unread     \* history: the same of the list that is on its way

elsewhere == <<missed, unread>>
vars == <<server, cache, read, current, call, faults, late, elsewhere>>

List == [Rows -> Statuses]
Call == [row : Rows, to : Statuses, previous : List \cup {Mock, None},
         at : {"clicked", "waiting", "done"}, request : {"none", "sent", "landed", "gone"}]

TypeOK ==
  /\ server \in List
  /\ cache \in List \cup {Mock}
  /\ read \in List \cup {Asked, None}
  /\ current \in BOOLEAN /\ late \in BOOLEAN
  /\ call \in [Clicks -> Call \cup {None}]
  /\ faults \in 0..MaxFaults
  /\ missed \subseteq Rows /\ unread \subseteq Rows

Init ==
  /\ server \in List
  /\ cache = server
  /\ read = None /\ current = TRUE
  /\ call = [c \in Clicks |-> None]
  /\ faults = 0 /\ late = FALSE
  /\ missed = {} /\ unread = {}

-----------------------------------------------------------------------------
(* The query.                                                              *)

\* A read is asked for, or none is; one under way is given up.
AsksAnew == read' = Asked /\ unread' = {}
NoneUnderWay == read' = None /\ unread' = {}

\* An event on the socket, or the window coming to the front, has the list
\* read again; an invalidation gives up a read under way and starts another.
Refresh ==
  /\ read = None
  /\ AsksAnew
  /\ UNCHANGED <<server, cache, current, call, faults, late, missed>>
Notified ==
  /\ AsksAnew /\ current' = FALSE
  /\ UNCHANGED <<server, cache, call, faults, late, missed>>

\* The API reads the table, and the list arrives.
Read ==
  /\ read = Asked
  /\ read' = server
  /\ UNCHANGED <<server, cache, current, call, faults, late, elsewhere>>
Arrive ==
  /\ read \in List
  /\ cache' = read /\ missed' = unread
  /\ NoneUnderWay /\ current' = TRUE
  /\ UNCHANGED <<server, call, faults, late>>

\* Unreachable: the offline queue stands in for the list (liveOrMock).
Unreachable ==
  /\ read # None /\ faults < MaxFaults
  /\ cache' = Mock /\ NoneUnderWay /\ current' = TRUE
  /\ faults' = faults + 1
  /\ UNCHANGED <<server, call, late, missed>>

\* Refused: the list stays, and is marked invalid.
Refused ==
  /\ read # None /\ faults < MaxFaults
  /\ NoneUnderWay /\ current' = FALSE
  /\ faults' = faults + 1
  /\ UNCHANGED <<server, cache, call, late, missed>>

-----------------------------------------------------------------------------
(* The mutation.                                                           *)

\* onMutate begins: cancelQueries gives up the read under way.
Click(c, r, s) ==
  /\ call[c] = None
  /\ call' = [call EXCEPT ![c] = [row |-> r, to |-> s, previous |-> None,
                                  at |-> "clicked", request |-> "none"]]
  /\ NoneUnderWay
  /\ UNCHANGED <<server, cache, current, faults, late, missed>>

\* patchCache, and the request goes out.
Patched(l, r, s) == IF l = Mock THEN Mock ELSE [l EXCEPT ![r] = s]
Patch(c) ==
  /\ call[c] # None /\ call[c].at = "clicked"
  /\ call' = [call EXCEPT ![c].previous = cache, ![c].at = "waiting", ![c].request = "sent"]
  /\ cache' = Patched(cache, call[c].row, call[c].to)
  /\ current' = TRUE
  /\ UNCHANGED <<server, read, faults, late, elsewhere>>

\* The PATCH updates the row by id.
Apply(c) ==
  /\ call[c] # None /\ call[c].request = "sent"
  /\ server' = [server EXCEPT ![call[c].row] = call[c].to]
  /\ call' = [call EXCEPT ![c].request = "landed"]
  /\ late' = (late \/ call[c].at = "done")
  /\ UNCHANGED <<cache, read, current, faults, elsewhere>>

\* onSettled: invalidateQueries.
Invalidate == AsksAnew /\ current' = FALSE

\* The answer.
Succeed(c) ==
  /\ call[c] # None /\ call[c].at = "waiting" /\ call[c].request = "landed"
  /\ call' = [call EXCEPT ![c].at = "done"]
  /\ Invalidate
  /\ UNCHANGED <<server, cache, faults, late, missed>>

\* No answer, or a refusal: the list of before the click comes back, and is
\* read again.  Mutant: only a success reads it again.
GivesUp(c, r) ==
  /\ faults < MaxFaults
  /\ call[c] # None /\ call[c].at = "waiting"
  /\ r \in {call[c].request, IF call[c].request = "sent" THEN "gone" ELSE "landed"}
  /\ call' = [call EXCEPT ![c].at = "done", ![c].request = r]
  /\ cache' = call[c].previous
  /\ faults' = faults + 1
  /\ UNCHANGED <<server, late, missed>>
RollBackOnly(c, r) == GivesUp(c, r) /\ current' = TRUE /\ UNCHANGED <<read, unread>>
RollBack(c, r) == GivesUp(c, r) /\ Invalidate

-----------------------------------------------------------------------------
(* Everybody else.                                                         *)

\* Another manager's PATCH, another tab's, or a load that wakes or dismisses a
\* row: the table changes, and no event need say so.
Elsewhere(r, s) ==
  /\ server[r] # s
  /\ server' = [server EXCEPT ![r] = s]
  /\ missed' = missed \cup {r}
  /\ unread' = IF read \in List THEN unread \cup {r} ELSE unread
  /\ UNCHANGED <<cache, read, current, call, faults, late>>

Next ==
  \/ Refresh \/ Notified \/ Read \/ Arrive \/ Unreachable \/ Refused
  \/ \E c \in Clicks :
       \/ \E r \in Rows, s \in Statuses : Click(c, r, s)
       \/ Patch(c) \/ Apply(c) \/ Succeed(c)
       \/ \E r \in {"sent", "landed", "gone"} : RollBack(c, r)
  \/ \E r \in Rows, s \in Statuses : Elsewhere(r, s)

Spec == Init /\ [][Next]_vars

-----------------------------------------------------------------------------
(* Properties.                                                             *)

Settled == \A c \in Clicks : call[c] # None => call[c].at = "done"

\* useRecommendationActions: no failure leaves "the screen disagreeing with
\* the server".  When every click has its answer and no read is under way, the
\* screen shows the table, whatever failed and in whatever order answers and
\* reads arrived, but for the offline queue, a read that was refused, a
\* request that takes effect after its call was given up, and the rows that
\* were changed elsewhere since the list was read.
ScreenAgrees ==
  Settled /\ read = None /\ current /\ cache # Mock /\ ~late =>
    \A r \in Rows \ missed : cache[r] = server[r]

\* "a failure puts the row back exactly where it was": the other rows keep
\* what their own clicks have made of them.
OnlyThatRow ==
  [][\A c \in Clicks :
       call[c] # None /\ call'[c] # None /\ call[c].at = "waiting" /\ cache \in List
         => \A r \in Rows \ {call[c].row} :
              call'[c].at = "done" => cache'[r] = cache[r]]_vars

=============================================================================
