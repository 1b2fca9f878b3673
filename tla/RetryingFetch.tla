--------------------------- MODULE RetryingFetch ---------------------------
(***************************************************************************)
(* The retry wrapper around the database driver's fetch                    *)
(* (packages/db/src/retry.ts).  A request carries one SQL statement or a   *)
(* batch, each run by the database as it arrives; the answer may be lost   *)
(* after the statement has run.  The wrapper decides from the text of the  *)
(* statements and from the failure whether to send the request again.      *)
(*                                                                         *)
(* A statement is what the wrapper's tests see of it: its leading keyword, *)
(* the data-modifying keywords anywhere in it, and whether a semicolon     *)
(* separates several.  A failure's code says whether the request can have  *)
(* reached the database; that reading of the codes is the wrapper's too.   *)
(***************************************************************************)
EXTENDS Naturals, Sequences

CONSTANTS
  Requests,    \* calls of the wrapped fetch
  Body,        \* each request's sequence of statements, or Unparsed
  Unparsed,    \* a body that is no JSON, or no statement
  Effect,      \* the requests that change the database when they run
  maxRetries

VARIABLES
  pc,        \* where a call is: idle, sent, waiting or done
  attempt,   \* retries made
  aborted,   \* the caller's signal
  result,    \* what the caller gets: none, ok, refused (the last attempt did
             \* not reach the database) or failed
  ran        \* history: times the database has run the request

vars == <<pc, attempt, aborted, result, ran>>

\* Failures in which nothing was delivered.
CONNECT_PHASE_CODES ==
  {"ENOTFOUND", "ECONNREFUSED", "EAI_AGAIN", "UND_ERR_CONNECT_TIMEOUT",
   "ERR_SOCKET_CONNECTION_TIMEOUT"}

\* Failures in which the statement may have run.
AMBIGUOUS_CODES ==
  {"ECONNRESET", "EPIPE", "ETIMEDOUT", "UND_ERR_SOCKET", "UND_ERR_HEADERS_TIMEOUT",
   "UND_ERR_BODY_TIMEOUT"}

\* No code, or one the wrapper does not know.
Codes == CONNECT_PHASE_CODES \cup AMBIGUOUS_CODES \cup {"none", "other"}

RETRYABLE_STATUSES == {500, 502, 503, 504}

Modifying ==
  {"INSERT", "UPDATE", "DELETE", "MERGE", "TRUNCATE", "CREATE", "ALTER", "DROP", "GRANT",
   "REVOKE", "COPY", "CALL", "DO"}
Reading == {"SELECT", "WITH", "SHOW", "EXPLAIN", "VALUES", "TABLE"}

\* What the wrapper relies on: a request that changes the database says so.
\* A data-modifying keyword stands in one of its statements, or the wrapper
\* cannot read it.
EffectsAreNamed ==
  \A r \in Effect :
    Body[r] # Unparsed => \E i \in DOMAIN Body[r] : Body[r][i].words \cap Modifying # {}

\* Mutant: the leading keyword decides.
LeadIsReading(s) == ~s.several /\ s.lead \in Reading

isReadOnlyStatement(s) ==
  /\ ~s.several
  /\ s.words \cap Modifying = {}
  /\ s.lead \in Reading

isReadOnlyRequest(body) ==
  /\ body # Unparsed /\ body # <<>>
  /\ \A i \in DOMAIN body : isReadOnlyStatement(body[i])

TypeOK ==
  /\ pc \in [Requests -> {"idle", "sent", "waiting", "done"}]
  /\ attempt \in [Requests -> 0..maxRetries]
  /\ aborted \in [Requests -> BOOLEAN]
  /\ result \in [Requests -> {"none", "ok", "refused", "failed"}]
  /\ ran \in [Requests -> Nat]

Init ==
  /\ pc = [r \in Requests |-> "idle"]
  /\ attempt = [r \in Requests |-> 0]
  /\ aborted = [r \in Requests |-> FALSE]
  /\ result = [r \in Requests |-> "none"]
  /\ ran = [r \in Requests |-> 0]

Call(r) ==
  /\ pc[r] = "idle"
  /\ pc' = [pc EXCEPT ![r] = "sent"]
  /\ UNCHANGED <<attempt, aborted, result, ran>>

Abort(r) ==
  /\ pc[r] \in {"sent", "waiting"} /\ ~aborted[r]
  /\ aborted' = [aborted EXCEPT ![r] = TRUE]
  /\ UNCHANGED <<pc, attempt, result, ran>>

\* The database has run the request, or has not.
Runs(r) == ran' = [ran EXCEPT ![r] = @ + 1]
MayRun(r) == Runs(r) \/ ran' = ran

\* The caller gets the response, or the error.
End(r, what) ==
  /\ pc' = [pc EXCEPT ![r] = "done"]
  /\ result' = [result EXCEPT ![r] = what]
  /\ UNCHANGED <<attempt, aborted>>

\* The failure is one to retry: if there are retries left and the caller
\* has not given up, back off.
Retry(r, what) ==
  IF attempt[r] >= maxRetries \/ aborted[r] THEN End(r, what)
  ELSE /\ pc' = [pc EXCEPT ![r] = "waiting"]
       /\ attempt' = [attempt EXCEPT ![r] = @ + 1]
       /\ UNCHANGED <<aborted, result>>

Respond(r) ==
  /\ pc[r] = "sent" /\ Runs(r) /\ End(r, "ok")

\* A 400: the database rejected the statement, and nothing changed.
Reject(r) ==
  /\ pc[r] = "sent" /\ ran' = ran /\ End(r, "failed")

\* A 429: the proxy refused to run it.
Throttle(r) ==
  /\ pc[r] = "sent" /\ ran' = ran /\ Retry(r, "refused")

\* Mutant: a write is retried on a 5xx as a read is.
RetryAny5xx(r) ==
  /\ pc[r] = "sent" /\ MayRun(r) /\ Retry(r, "failed")

\* A status of RETRYABLE_STATUSES: a gateway may answer for a statement that
\* has run.
ServerError(r) ==
  /\ pc[r] = "sent" /\ MayRun(r)
  /\ IF isReadOnlyRequest(Body[r]) THEN Retry(r, "failed") ELSE End(r, "failed")

\* fetch throws.
Throw(r, code) ==
  LET safeForWrites == code \in CONNECT_PHASE_CODES
      retryableForReads == code = "none" \/ code \in AMBIGUOUS_CODES
      what == IF safeForWrites THEN "refused" ELSE "failed"
  IN  /\ pc[r] = "sent"
      /\ IF safeForWrites THEN ran' = ran ELSE MayRun(r)
      /\ IF safeForWrites \/ (isReadOnlyRequest(Body[r]) /\ retryableForReads)
         THEN Retry(r, what) ELSE End(r, what)

\* sleep is over: the loop sends the request again.
SendAgain(r) ==
  /\ pc[r] = "waiting"
  /\ pc' = [pc EXCEPT ![r] = "sent"]
  /\ UNCHANGED <<attempt, aborted, result, ran>>

\* Every attempt ends one way or another.
Answer(r) ==
  \/ Respond(r) \/ Reject(r) \/ Throttle(r) \/ ServerError(r)
  \/ \E code \in Codes : Throw(r, code)

Next == \E r \in Requests : Call(r) \/ Abort(r) \/ Answer(r) \/ SendAgain(r)

Spec == Init /\ [][Next]_vars

-----------------------------------------------------------------------------
(* Properties.                                                              *)

\* A request that changes the database takes effect at most once, however
\* often it is sent and whatever answers are lost.
AtMostOnce == \A r \in Effect : ran[r] <= 1

\* What the caller of such a request is told is true: it has run if the call
\* succeeded, and has not run if the last attempt was refused, retries
\* before it included.
ToldTrue ==
  \A r \in Effect :
    /\ result[r] = "ok" => ran[r] = 1
    /\ result[r] = "refused" => ran[r] = 0

\* While a call that writes is being retried, it has not run: this is what
\* makes sending it again safe.
NotRunYet == \A r \in Effect : pc[r] \in {"idle", "sent", "waiting"} => ran[r] = 0

\* Both hold of every request that writes.
WrittenOnce == AtMostOnce /\ ToldTrue

=============================================================================
