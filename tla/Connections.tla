----------------------------- MODULE Connections -----------------------------
(***************************************************************************)
(* The Google connections of one workspace and their sync                  *)
(* (apps/api/src/oauth/connections.ts, gsc-sync.ts, routes/connections.ts):*)
(* connecting, disconnecting, refreshing an access token, and replacing    *)
(* today's snapshot in the two ClickHouse tables.                          *)
(*                                                                         *)
(* A sync works from the row it was given, a snapshot.  A token is known   *)
(* by the grant it comes from: each consent issues a new refresh token.    *)
(* ClickHouse queues an ALTER TABLE ... DELETE: the rows it condemns are   *)
(* shown until it has been carried out.                                    *)
(***************************************************************************)
EXTENDS Naturals

CONSTANTS
  Accounts,    \* sites: the accountId of a connection
  Syncs,       \* OAuth callbacks and syncs in progress
  None,
  MaxGrants,   \* bound: times somebody goes through the consent screen
  MaxFaults    \* bound: calls that fail, processes that die

VARIABLES
  conn,      \* platform_connections by account, or None
  kw, pages, \* today's rows of keyword_rankings and organic_traffic that no
             \* delete has condemned: how many copies of each account's
  doomed,    \* the tables that still show rows a delete has condemned
  sync,      \* each callback's and sync's progress and row
  grants, faults,
  newest,    \* history: the newest consent ever stored for each account
  crossed,   \* history: the accounts with two callbacks at once, until one
             \* alone has stored a newer consent
  overlapped,\* history: a sync started while another was under way
  cut,       \* history: a sync died, could not record its error, or was not
             \* started by the callback that had stored the row
  latest     \* history: the account whose sync wrote to the tables last

tables == <<kw, pages, doomed>>
consents == <<grants, newest, crossed>>
vars == <<conn, tables, sync, consents, faults, overlapped, cut, latest>>

Connection == [id : 1..MaxGrants, refresh : 1..MaxGrants, access : 1..MaxGrants,
               stale : BOOLEAN, error : BOOLEAN]
NoSync == [pc |-> "idle", acct |-> None, conn |-> None]
Consents == {"exchanged", "upserted"}
Stages == {"token", "refreshed", "fetch", "delKw", "delPages", "insKw", "insPages", "done", "error"}

TypeOK ==
  /\ conn \in [Accounts -> Connection \cup {None}]
  /\ kw \in [Accounts -> Nat] /\ pages \in [Accounts -> Nat]
  /\ doomed \subseteq {"keywords", "pages"}
  /\ sync \in [Syncs -> [pc : {"idle"} \cup Consents \cup Stages, acct : Accounts \cup {None},
                         conn : Connection \cup {None}]]
  /\ \A s \in Syncs :
       sync[s].pc # "idle" => sync[s].acct \in Accounts /\ sync[s].conn \in Connection
  /\ grants \in 0..MaxGrants /\ newest \in [Accounts -> 0..MaxGrants]
  /\ crossed \subseteq Accounts /\ faults \in 0..MaxFaults
  /\ overlapped \in BOOLEAN /\ cut \in BOOLEAN /\ latest \in Accounts \cup {None}

Init ==
  /\ conn = [a \in Accounts |-> None]
  /\ kw = [a \in Accounts |-> 0] /\ pages = [a \in Accounts |-> 0] /\ doomed = {}
  /\ sync = [s \in Syncs |-> NoSync]
  /\ grants = 0 /\ newest = [a \in Accounts |-> 0] /\ crossed = {} /\ faults = 0
  /\ overlapped = FALSE /\ cut = FALSE /\ latest = None

-----------------------------------------------------------------------------
(* Connections.                                                             *)

Syncing(s) == sync[s].pc \in Stages

\* syncGscConnection is called with a row just read.
Begin(s, a, row) ==
  /\ sync' = [sync EXCEPT ![s] = [pc |-> "token", acct |-> a, conn |-> row]]
  /\ overlapped' = (overlapped \/ \E t \in Syncs : Syncing(t))

\* The OAuth callback, first part: exchangeCode and listAccounts, which says
\* what account it is about.  The row it would insert is in its hand.
Exchange(a, s) ==
  /\ sync[s].pc = "idle" /\ grants < MaxGrants
  /\ grants' = grants + 1
  /\ sync' = [sync EXCEPT ![s] =
       [pc |-> "exchanged", acct |-> a,
        conn |-> [id |-> grants', refresh |-> grants', access |-> grants', stale |-> FALSE,
                  error |-> FALSE]]]
  /\ crossed' = IF \E t \in Syncs : sync[t].pc = "exchanged" /\ sync[t].acct = a
                THEN crossed \cup {a} ELSE crossed
  /\ UNCHANGED <<conn, tables, faults, newest, overlapped, cut, latest>>

\* No account, a call that throws, or a process that dies: the grant is lost.
ConsentFails(s) ==
  /\ sync[s].pc = "exchanged"
  /\ sync' = [sync EXCEPT ![s] = NoSync]
  /\ UNCHANGED <<conn, tables, consents, faults, overlapped, cut, latest>>

\* upsertConnection: a row that exists keeps its id, and loses its error.
Upsert(s) ==
  LET a == sync[s].acct
      new == sync[s].conn
      row == IF conn[a] = None THEN new ELSE [new EXCEPT !.id = conn[a].id]
      alone == \A t \in Syncs \ {s} : ~(sync[t].pc = "exchanged" /\ sync[t].acct = a)
  IN  /\ sync[s].pc = "exchanged"
      /\ conn' = [conn EXCEPT ![a] = row]
      /\ sync' = [sync EXCEPT ![s] = [pc |-> "upserted", acct |-> a, conn |-> row]]
      /\ newest' = [newest EXCEPT ![a] = IF @ < new.refresh THEN new.refresh ELSE @]
      /\ crossed' = IF alone /\ newest[a] < new.refresh THEN crossed \ {a} ELSE crossed
      /\ UNCHANGED <<tables, grants, faults, overlapped, cut, latest>>

\* getConnection by id, and a first sync that is not waited for.
FirstSync(s) ==
  LET a == sync[s].acct
  IN  /\ sync[s].pc = "upserted"
      /\ IF conn[a] # None /\ conn[a].id = sync[s].conn.id
         THEN Begin(s, a, conn[a])
         ELSE sync' = [sync EXCEPT ![s] = NoSync] /\ UNCHANGED overlapped
      /\ UNCHANGED <<conn, tables, consents, faults, cut, latest>>

Disconnect(a) ==
  /\ conn[a] # None
  /\ conn' = [conn EXCEPT ![a] = None]
  /\ UNCHANGED <<tables, sync, consents, faults, overlapped, cut, latest>>

\* The access token comes within a minute of its end.
TokenExpires(a) ==
  /\ conn[a] # None /\ ~conn[a].stale
  /\ conn' = [conn EXCEPT ![a].stale = TRUE]
  /\ UNCHANGED <<tables, sync, consents, faults, overlapped, cut, latest>>

\* The manual sync.
StartSync(s, a) ==
  /\ sync[s].pc = "idle" /\ conn[a] # None /\ Begin(s, a, conn[a])
  /\ UNCHANGED <<conn, tables, consents, faults, cut, latest>>

-----------------------------------------------------------------------------
(* One sync.                                                                *)

Mine(s) == sync[s].acct
To(s, pc) == sync' = [sync EXCEPT ![s].pc = pc]

\* UPDATE platform_connections WHERE id: no row if it was disconnected, even
\* if it has been connected anew.
Update(s, row) ==
  LET a == Mine(s)
  IN  conn' = IF conn[a] # None /\ conn[a].id = sync[s].conn.id
              THEN [conn EXCEPT ![a] = row] ELSE conn

\* getValidAccessToken: Google is asked for a new access token if the
\* snapshot's is about to end.
GetToken(s) ==
  /\ sync[s].pc = "token"
  /\ To(s, IF sync[s].conn.stale THEN "refreshed" ELSE "fetch")
  /\ UNCHANGED <<conn, tables, consents, faults, overlapped, cut, latest>>

\* Mutant: the refresh token is written back with the access token.
SaveBothTokens(s) ==
  /\ sync[s].pc = "refreshed"
  /\ Update(s, [conn[Mine(s)] EXCEPT !.access = sync[s].conn.refresh, !.stale = FALSE,
                                     !.refresh = sync[s].conn.refresh])
  /\ To(s, "fetch")
  /\ UNCHANGED <<tables, consents, faults, overlapped, cut, latest>>

\* And the new one is stored.
SaveToken(s) ==
  /\ sync[s].pc = "refreshed"
  /\ Update(s, [conn[Mine(s)] EXCEPT !.access = sync[s].conn.refresh, !.stale = FALSE])
  /\ To(s, "fetch")
  /\ UNCHANGED <<tables, consents, faults, overlapped, cut, latest>>

\* Both queries are answered.
Fetch(s) ==
  /\ sync[s].pc = "fetch"
  /\ To(s, "delKw")
  /\ UNCHANGED <<conn, tables, consents, faults, overlapped, cut, latest>>

\* Today's rows of the workspace are to go, whichever account they came from.
\* The mutation is queued, and shows what it condemns until it has run.
Empty == [a \in Accounts |-> 0]
Condemn(table, rows) == doomed' = IF rows = Empty THEN doomed ELSE doomed \cup {table}

DeleteKeywords(s) ==
  /\ sync[s].pc = "delKw"
  /\ kw' = Empty /\ Condemn("keywords", kw) /\ latest' = Mine(s)
  /\ To(s, "delPages")
  /\ UNCHANGED <<conn, pages, consents, faults, overlapped, cut>>

DeletePages(s) ==
  /\ sync[s].pc = "delPages"
  /\ pages' = Empty /\ Condemn("pages", pages)
  /\ To(s, "insKw")
  /\ UNCHANGED <<conn, kw, consents, faults, overlapped, cut, latest>>

\* ClickHouse carries out what is queued for a table: the rows that were there
\* when the delete came.
Mutate(table) ==
  /\ table \in doomed
  /\ doomed' = doomed \ {table}
  /\ UNCHANGED <<conn, kw, pages, sync, consents, faults, overlapped, cut, latest>>

InsertKeywords(s) ==
  /\ sync[s].pc = "insKw"
  /\ kw' = [kw EXCEPT ![Mine(s)] = @ + 1]
  /\ To(s, "insPages")
  /\ UNCHANGED <<conn, pages, doomed, consents, faults, overlapped, cut, latest>>

InsertPages(s) ==
  /\ sync[s].pc = "insPages"
  /\ pages' = [pages EXCEPT ![Mine(s)] = @ + 1]
  /\ To(s, "done")
  /\ UNCHANGED <<conn, kw, doomed, consents, faults, overlapped, cut, latest>>

\* The time of the sync is left out.
MarkSynced(s) ==
  /\ sync[s].pc = "done"
  /\ Update(s, [conn[Mine(s)] EXCEPT !.error = FALSE])
  /\ sync' = [sync EXCEPT ![s] = NoSync]
  /\ UNCHANGED <<tables, consents, faults, overlapped, cut, latest>>

\* A call throws: Google, ClickHouse or Postgres.
Throw(s) ==
  /\ faults < MaxFaults /\ sync[s].pc \in Stages \ {"error"}
  /\ faults' = faults + 1
  /\ To(s, "error")
  /\ UNCHANGED <<conn, tables, consents, overlapped, cut, latest>>

\* Mutant: a sync that failed leaves the row as it was.
ForgetError(s) ==
  /\ sync[s].pc = "error"
  /\ sync' = [sync EXCEPT ![s] = NoSync]
  /\ UNCHANGED <<conn, tables, consents, faults, overlapped, cut, latest>>

MarkError(s) ==
  /\ sync[s].pc = "error"
  /\ Update(s, [conn[Mine(s)] EXCEPT !.error = TRUE])
  /\ sync' = [sync EXCEPT ![s] = NoSync]
  /\ UNCHANGED <<tables, consents, faults, overlapped, cut, latest>>

\* The process dies, or the error cannot be recorded; or a callback that has
\* stored its row fails before the sync.
Dies(s) ==
  /\ faults < MaxFaults /\ sync[s].pc \in Stages \cup {"upserted"}
  /\ faults' = faults + 1
  /\ cut' = TRUE
  /\ sync' = [sync EXCEPT ![s] = NoSync]
  /\ UNCHANGED <<conn, tables, consents, overlapped, latest>>

SyncStep(s) ==
  \/ GetToken(s) \/ SaveToken(s) \/ Fetch(s) \/ DeleteKeywords(s) \/ DeletePages(s)
  \/ InsertKeywords(s) \/ InsertPages(s) \/ MarkSynced(s) \/ Throw(s) \/ MarkError(s)
  \/ Dies(s)

Next ==
  \/ \E a \in Accounts :
       \/ \E s \in Syncs : Exchange(a, s) \/ StartSync(s, a)
       \/ Disconnect(a) \/ TokenExpires(a)
  \/ \E s \in Syncs : ConsentFails(s) \/ Upsert(s) \/ FirstSync(s) \/ SyncStep(s)
  \/ \E table \in doomed : Mutate(table)

Spec == Init /\ [][Next]_vars

-----------------------------------------------------------------------------
(* Properties.                                                              *)

\* The stored refresh token is the newest that was ever stored for the
\* account: a sync that works from the row as it was before a reconnection
\* never puts the old one back (getValidAccessToken).  Two callbacks of an
\* account at once may store theirs in either order (routes/connections.ts,
\* upsertConnection); the next one that comes alone mends it.
RefreshTokenIsNewest ==
  \A a \in Accounts \ crossed : conn[a] # None => conn[a].refresh = newest[a]

\* Nothing is syncing, or about to.
Resting ==
  latest # None /\ \A s \in Syncs : sync[s].pc \in {"idle", "exchanged"}

\* The account that wrote last has its rows in both tables once, and no other
\* account has any, but for what a delete has condemned.
WholeSnapshot ==
  \A a \in Accounts : LET n == IF a = latest THEN 1 ELSE 0 IN kw[a] = n /\ pages[a] = n

\* A snapshot that was not replaced whole is not passed off as good: at rest,
\* the account that wrote last is marked with an error, disconnected, or its
\* rows are in both tables once and alone, beside rows that ClickHouse has
\* been told to delete.  Two syncs at once, or one that died or was never
\* started, break this (syncGscConnection).
SnapshotIsWhole ==
  ~overlapped /\ ~cut /\ Resting =>
    conn[latest] = None \/ conn[latest].error \/ WholeSnapshot

\* "Replace today's snapshot (idempotent per run)" (gsc-sync.ts:90): at rest a
\* good snapshot is all that the tables show.
SnapshotIsReplaced ==
  ~overlapped /\ ~cut /\ Resting =>
    conn[latest] = None \/ conn[latest].error \/ (WholeSnapshot /\ doomed = {})

=============================================================================
