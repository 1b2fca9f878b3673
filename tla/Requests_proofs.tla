--------------------------- MODULE Requests_proofs --------------------------
(* Proofs about requests that are answered late, twice or not at all: the   *)
(* experiments, the retries of the database driver, the connections, the    *)
(* blog's editor and the event bus.                                         *)
EXTENDS Workspace, Sequences, SequenceTheorems, FiniteSetTheorems, TLAPS

-----------------------------------------------------------------------------
(***************************************************************************)
(* Experiments.                                                            *)
(***************************************************************************)

\* What was read still stands and the request alone may change it; the write
\* it is about to make was allowed of that row.
Alone(c) ==
  LET e == call[c].id IN
    /\ e \in born
    /\ e \notin raced =>
         /\ \A d \in Calls \ {c} : call[d].id # e
         /\ row[e] = call[c].seen
Allowed(c) ==
  LET from == call[c].seen.status IN
    /\ call[c].op = "status" => Exp!canTransition(from, call[c].to)
    /\ call[c].op \in {"conclude", "delete"} => from # "concluded"

\* HistoryIsKept is no matter of one step: the write happens a step after the
\* test, so the invariant carries what the test saw across it.
HistoryInv ==
  /\ Exp!TypeOK
  /\ \A e \in Experiments : row[e] # None => e \in born
  /\ \A c \in Calls :
       IF call[c].op = "idle" THEN call[c].id = None ELSE Alone(c) /\ Allowed(c)

-----------------------------------------------------------------------------
\* A read that passes its test establishes what the write relies on.
LEMMA LoadKeepsInv ==
  ASSUME HistoryInv,
         NEW c \in Calls, NEW op \in {"status", "conclude", "delete"},
         NEW e \in Experiments, NEW to,
         Exp!Load(c, op, e, to),
         op = "status" => to \in {"draft", "running"} /\ Exp!canTransition(row[e].status, to),
         op = "conclude" => to \in Winners,
         op = "delete" => to = None,
         op \in {"conclude", "delete"} => row[e].status # "concluded"
  PROVE  HistoryInv'
<1> USE DEF HistoryInv, Exp!TypeOK
<1>1. row[e] \in Exp!Row /\ e \in born
  BY DEF Exp!Load
<1>2. call' = [call EXCEPT ![c] = [op |-> op, id |-> e, to |-> to, seen |-> row[e]]]
  BY DEF Exp!Load
<1>3. \A d \in Calls \ {c} : call'[d] = call[d]
  BY <1>2
<1>4. call'[c] = [op |-> op, id |-> e, to |-> to, seen |-> row[e]]
  BY <1>2
<1>5. Exp!TypeOK'
  <2>1. call' \in [Calls -> Exp!Call]
    BY <1>1, <1>2 DEF Exp!Call
  <2> QED BY <1>1, <1>3, <1>4, <2>1 DEF Exp!Load
<1>6. raced \subseteq raced' /\ (e \notin raced' => \A d \in Calls \ {c} : call[d].id # e)
  BY DEF Exp!Load
<1>7. Alone(c)' /\ Allowed(c)'
  BY <1>1, <1>3, <1>4, <1>6 DEF Exp!Load, Alone, Allowed
<1>8. ASSUME NEW d \in Calls \ {c}, call[d].op # "idle"
      PROVE  Alone(d)' /\ Allowed(d)'
  <2>1. Alone(d) /\ Allowed(d)
    BY <1>8
  <2>2. call'[d] = call[d] /\ UNCHANGED <<row, born>>
    BY <1>3 DEF Exp!Load
  <2>3. call[d].id \notin raced' => call[d].id # e
    BY <1>6
  <2>4. Alone(d)'
    BY <1>3, <1>4, <1>6, <2>1, <2>2, <2>3 DEF Alone
  <2>5. Allowed(d)'
    BY <2>1, <2>2 DEF Allowed
  <2> QED BY <2>4, <2>5
<1> QED BY <1>3, <1>4, <1>5, <1>7, <1>8 DEF Exp!Load

\* A write touches the row it names, and leaves the other requests as they
\* were.
LEMMA WriteKeepsInv ==
  ASSUME HistoryInv,
         NEW c \in Calls, call[c].op # "idle", NEW new,
         Exp!Write(c, new), launches' \in 0..MaxLaunch,
         row[call[c].id] # None => new \in Exp!Row \cup {None}
  PROVE  HistoryInv'
<1> USE DEF HistoryInv, Exp!TypeOK
<1> DEFINE e == call[c].id
<1>1. e \in Experiments /\ e \in born
  BY DEF Alone
<1>2. row' \in [Experiments -> Exp!Row \cup {None}]
      /\ \A f \in Experiments \ {e} : row'[f] = row[f]
  BY <1>1 DEF Exp!Write
<1>3. call' = [call EXCEPT ![c] = Exp!NoCall] /\ UNCHANGED <<born, raced>>
  BY DEF Exp!Write
<1>4. Exp!TypeOK'
  <2>1. call' \in [Calls -> Exp!Call]
    BY <1>3 DEF Exp!Call, Exp!NoCall
  <2> QED BY <1>2, <1>3, <2>1 DEF Exp!NoCall
<1>5. ASSUME NEW d \in Calls \ {c}, call[d].op # "idle"
      PROVE  Alone(d)' /\ Allowed(d)'
  <2>1. call'[d] = call[d] /\ Alone(d) /\ Allowed(d) /\ call[d].id \in Experiments
    BY <1>3, <1>5
  <2>2. call[d].id \notin raced => call[d].id # e
    BY <2>1 DEF Alone
  <2>3. Alone(d)'
    BY <1>2, <1>3, <2>1, <2>2, NoneIsNothing DEF Alone, Exp!NoCall
  <2> QED BY <2>1, <2>3 DEF Allowed
<1>6. \A f \in Experiments : row'[f] # None => f \in born'
  BY <1>1, <1>2, <1>3
<1> QED BY <1>3, <1>4, <1>5, <1>6 DEF Exp!NoCall

(* A call that has the experiment for itself writes what the state it loaded *)
(* allows, unless two calls raced (transition).                              *)
THEOREM HistoryInvariant ==
  Exp!Spec => []HistoryInv
<1>1. Exp!Init => HistoryInv
  BY BoundsAreNumbers DEF Exp!Init, HistoryInv, Exp!TypeOK, Exp!Call, Exp!NoCall
<1>2. HistoryInv /\ [Exp!Next]_(Exp!vars) => HistoryInv'
  <2> SUFFICES ASSUME HistoryInv, [Exp!Next]_(Exp!vars) PROVE HistoryInv'
    OBVIOUS
  <2>1. CASE UNCHANGED Exp!vars
    BY <2>1 DEF Exp!vars, HistoryInv, Exp!TypeOK, Alone, Allowed
  <2>2. ASSUME NEW e \in Experiments, Exp!Create(e) PROVE HistoryInv'
    <3>1. Exp!TypeOK'
      BY <2>2 DEF Exp!Create, HistoryInv, Exp!TypeOK, Exp!Row, Exp!Stages
    <3>2. ASSUME NEW c \in Calls, call[c].op # "idle" PROVE Alone(c)' /\ Allowed(c)'
      <4>1. Alone(c) /\ Allowed(c) /\ call[c].id # e /\ call[c].id \in Experiments
        BY <2>2, <3>2 DEF HistoryInv, Exp!TypeOK, Alone, Exp!Create
      <4> QED BY <2>2, <4>1 DEF Exp!Create, Alone, Allowed, HistoryInv, Exp!TypeOK
    <3> QED BY <2>2, <3>1, <3>2 DEF Exp!Create, HistoryInv, Exp!TypeOK
  <2>3. ASSUME NEW c \in Calls, NEW e \in Experiments, NEW to \in {"draft", "running"},
               Exp!LoadForStatus(c, e, to)
        PROVE  HistoryInv'
    BY <2>3, LoadKeepsInv DEF Exp!LoadForStatus
  <2>4. ASSUME NEW c \in Calls, NEW e \in Experiments, NEW w \in Winners,
               Exp!LoadForConclusion(c, e, w)
        PROVE  HistoryInv'
    BY <2>4, LoadKeepsInv DEF Exp!LoadForConclusion, Exp!canTransition
  <2>5. ASSUME NEW c \in Calls, NEW e \in Experiments, Exp!LoadForDelete(c, e)
        PROVE  HistoryInv'
    BY <2>5, LoadKeepsInv DEF Exp!LoadForDelete
  <2>6. ASSUME NEW c \in Calls, Exp!SetStatus(c) PROVE HistoryInv'
    <3> DEFINE e == call[c].id
               stamp == call[c].seen.startedAt
               new == [row[e] EXCEPT !.status = call[c].to,
                                     !.startedAt = IF call[c].to = "running" /\ stamp = 0
                                                   THEN launches' ELSE stamp]
    <3>1. launches' \in 0..MaxLaunch /\ launches' \in Nat
      BY <2>6, BoundsAreNumbers DEF Exp!SetStatus, HistoryInv, Exp!TypeOK
    <3>2. row[e] # None => new \in Exp!Row \cup {None}
      BY <2>6, <3>1 DEF Exp!SetStatus, HistoryInv, Exp!TypeOK, Exp!Row, Exp!Stages
    <3>3. Exp!Write(c, new) /\ call[c].op # "idle"
      BY <2>6 DEF Exp!SetStatus
    <3> QED BY <3>1, <3>2, <3>3, WriteKeepsInv
  <2>7. ASSUME NEW c \in Calls, Exp!Conclude(c) PROVE HistoryInv'
    <3> DEFINE new == [row[call[c].id] EXCEPT !.status = "concluded", !.result = call[c].to]
    <3>1. row[call[c].id] # None => new \in Exp!Row \cup {None}
      BY <2>7 DEF Exp!Conclude, HistoryInv, Exp!TypeOK, Exp!Row, Exp!Stages
    <3>2. Exp!Write(c, new) /\ call[c].op # "idle" /\ launches' \in 0..MaxLaunch
      BY <2>7 DEF Exp!Conclude, HistoryInv, Exp!TypeOK
    <3> QED BY <3>1, <3>2, WriteKeepsInv
  <2>8. ASSUME NEW c \in Calls, Exp!Delete(c) PROVE HistoryInv'
    <3>1. Exp!Write(c, None) /\ call[c].op # "idle" /\ launches' \in 0..MaxLaunch
      BY <2>8 DEF Exp!Delete, HistoryInv, Exp!TypeOK
    <3> QED BY <3>1, WriteKeepsInv
  <2>9. ASSUME NEW c \in Calls, Exp!Fails(c) PROVE HistoryInv'
    <3>1. call' = [call EXCEPT ![c] = Exp!NoCall] /\ UNCHANGED <<row, launches, born, raced>>
      BY <2>9 DEF Exp!Fails
    <3>2. Exp!TypeOK'
      BY <3>1 DEF HistoryInv, Exp!TypeOK, Exp!Call, Exp!NoCall
    <3>3. ASSUME NEW d \in Calls \ {c}, call[d].op # "idle"
          PROVE  Alone(d)' /\ Allowed(d)'
      BY <3>1, <3>3, NoneIsNothing DEF HistoryInv, Exp!TypeOK, Alone, Allowed, Exp!NoCall
    <3> QED BY <3>1, <3>2, <3>3 DEF HistoryInv, Exp!TypeOK, Exp!NoCall
  <2> QED BY <2>1, <2>2, <2>3, <2>4, <2>5, <2>6, <2>7, <2>8, <2>9 DEF Exp!Next
<1> QED BY <1>1, <1>2, PTL DEF Exp!Spec

\* What is concluded, and when a test began, stays, unless two requests raced
\* over the experiment (HistoryIsKept).
THEOREM ExperimentsHistoryIsKept ==
  Exp!Spec => Exp!HistoryIsKept
<1>1. HistoryInv /\ [Exp!Next]_(Exp!vars) => [Exp!KeepsHistory]_(Exp!vars)
  <2> SUFFICES ASSUME HistoryInv, Exp!Next, NEW e \in Experiments \ raced
               PROVE  /\ Exp!Concluded(e) => row'[e] = row[e]
                      /\ row[e] # None /\ row'[e] # None /\ row[e].startedAt # 0
                           => row'[e].startedAt = row[e].startedAt
    BY DEF Exp!KeepsHistory
  <2> USE DEF HistoryInv, Exp!TypeOK
  <2>1. ASSUME NEW f \in Experiments, Exp!Create(f) PROVE row[e] = None \/ row'[e] = row[e]
    BY <2>1 DEF Exp!Create
  <2>2. ASSUME NEW c \in Calls, call[c].op # "idle", call[c].id = e
        PROVE  row[e] = call[c].seen /\ row[e] \in Exp!Row /\ Allowed(c)
    BY <2>2 DEF Alone
  <2>3. ASSUME NEW c \in Calls, NEW new, Exp!Write(c, new), call[c].op # "idle", call[c].id # e
        PROVE  row'[e] = row[e]
    BY <2>3 DEF Exp!Write
  <2>4. ASSUME NEW c \in Calls, Exp!SetStatus(c), call[c].id = e
        PROVE  ~Exp!Concluded(e) /\ (row'[e] # None /\ row[e].startedAt # 0
                                   => row'[e].startedAt = row[e].startedAt)
    <3>1. row[e] = call[c].seen /\ row[e] \in Exp!Row /\ Allowed(c) /\ call[c].op = "status"
      BY <2>2, <2>4 DEF Exp!SetStatus
    <3>2. ~Exp!Concluded(e)
      BY <3>1 DEF Allowed, Exp!canTransition, Exp!Concluded
    <3>3. row'[e] = row[e] \/ row'[e].startedAt = IF call[c].to = "running" /\ row[e].startedAt = 0
                                                  THEN launches' ELSE row[e].startedAt
      BY <2>4, <3>1 DEF Exp!SetStatus, Exp!Write, Exp!Row
    <3> QED BY <3>2, <3>3
  <2>5. ASSUME NEW c \in Calls, Exp!Conclude(c) \/ Exp!Delete(c), call[c].id = e
        PROVE  ~Exp!Concluded(e) /\ (row'[e] # None => row'[e].startedAt = row[e].startedAt)
    <3>1. row[e] = call[c].seen /\ row[e] \in Exp!Row /\ Allowed(c)
          /\ call[c].op \in {"conclude", "delete"}
      BY <2>2, <2>5 DEF Exp!Conclude, Exp!Delete
    <3>2. ~Exp!Concluded(e)
      BY <3>1 DEF Allowed, Exp!Concluded
    <3>3. row'[e] = None \/ row'[e].startedAt = row[e].startedAt
      BY <2>5, <3>1 DEF Exp!Conclude, Exp!Delete, Exp!Write, Exp!Row
    <3> QED BY <3>2, <3>3
  <2>6. CASE \E c \in Calls : Exp!SetStatus(c) \/ Exp!Conclude(c) \/ Exp!Delete(c)
    <3> PICK c \in Calls : Exp!SetStatus(c) \/ Exp!Conclude(c) \/ Exp!Delete(c)
      BY <2>6
    <3>1. call[c].op # "idle" /\ \E new : Exp!Write(c, new)
      BY DEF Exp!SetStatus, Exp!Conclude, Exp!Delete
    <3>2. CASE call[c].id = e
      BY <2>4, <2>5, <3>2
    <3>3. CASE call[c].id # e
      BY <2>3, <3>1, <3>3
    <3> QED BY <3>2, <3>3
  <2>7. CASE \E c \in Calls : Exp!Fails(c)
    BY <2>7 DEF Exp!Fails
  <2>8. CASE \E c \in Calls, f \in Experiments :
               \/ \E to \in {"draft", "running"} : Exp!LoadForStatus(c, f, to)
               \/ \E w \in Winners : Exp!LoadForConclusion(c, f, w)
               \/ Exp!LoadForDelete(c, f)
    BY <2>8 DEF Exp!LoadForStatus, Exp!LoadForConclusion, Exp!LoadForDelete, Exp!Load
  <2> QED BY <2>1, <2>6, <2>7, <2>8 DEF Exp!Next, Exp!Concluded
<1> QED BY <1>1, HistoryInvariant, PTL DEF Exp!Spec, Exp!HistoryIsKept

-----------------------------------------------------------------------------
(***************************************************************************)
(* RetryingFetch.                                                          *)
(***************************************************************************)

\* The assumption on the texts: every request that writes is told from a read
\* (isReadOnlyRequest in retry.ts).
LEMMA WritesAreNotReads ==
  ASSUME NEW r \in Effect
  PROVE  ~Ret!isReadOnlyRequest(Body[r])
BY TextsAreNamed DEF Ret!EffectsAreNamed, Ret!isReadOnlyRequest, Ret!isReadOnlyStatement

\* Type correctness: the retries are counted and stay within maxRetries.
THEOREM FetchTypeOK ==
  Ret!Spec => []Ret!TypeOK
<1> USE TextsAreNamed, BoundsAreNumbers
<1>1. Ret!Init => Ret!TypeOK
  BY DEF Ret!Init, Ret!TypeOK
<1>2. Ret!TypeOK /\ [Ret!Next]_(Ret!vars) => Ret!TypeOK'
  <2> SUFFICES ASSUME Ret!TypeOK, [Ret!Next]_(Ret!vars) PROVE Ret!TypeOK'
    OBVIOUS
  <2> USE DEF Ret!TypeOK
  <2>1. CASE UNCHANGED Ret!vars
    BY <2>1 DEF Ret!vars
  <2>2. ASSUME NEW r \in Requests, Ret!Call(r) PROVE Ret!TypeOK'
    BY <2>2 DEF Ret!Call
  <2>3. ASSUME NEW r \in Requests, Ret!Abort(r) PROVE Ret!TypeOK'
    BY <2>3 DEF Ret!Abort
  <2>4. ASSUME NEW r \in Requests, Ret!Answer(r) PROVE Ret!TypeOK'
    <3>1. ran' \in [Requests -> Nat]
      BY <2>4 DEF Ret!Answer, Ret!Respond, Ret!Reject, Ret!Throttle, Ret!ServerError,
                  Ret!Throw, Ret!Runs, Ret!MayRun
    <3>2. ASSUME NEW what \in {"ok", "refused", "failed"}, Ret!End(r, what)
          PROVE  Ret!TypeOK'
      BY <3>1, <3>2 DEF Ret!End
    <3>3. ASSUME NEW what \in {"ok", "refused", "failed"}, Ret!Retry(r, what)
          PROVE  Ret!TypeOK'
      <4>1. CASE attempt[r] >= maxRetries \/ aborted[r]
        BY <3>2, <3>3, <4>1 DEF Ret!Retry
      <4>2. CASE ~(attempt[r] >= maxRetries \/ aborted[r])
        <5>1. attempt[r] + 1 \in 0..maxRetries
          BY <4>2
        <5> QED BY <3>1, <3>3, <4>2, <5>1 DEF Ret!Retry
      <4> QED BY <4>1, <4>2
    <3>4. \E what \in {"ok", "refused", "failed"} : Ret!End(r, what) \/ Ret!Retry(r, what)
      BY <2>4 DEF Ret!Answer, Ret!Respond, Ret!Reject, Ret!Throttle, Ret!ServerError,
                  Ret!Throw
    <3> QED BY <3>2, <3>3, <3>4
  <2>5. ASSUME NEW r \in Requests, Ret!SendAgain(r) PROVE Ret!TypeOK'
    BY <2>5 DEF Ret!SendAgain
  <2> QED BY <2>1, <2>2, <2>3, <2>4, <2>5 DEF Ret!Next
<1> QED BY <1>1, <1>2, PTL DEF Ret!Spec

-----------------------------------------------------------------------------
\* AtMostOnce alone is not inductive: a second send must find that the first
\* did not run (NotRunYet), and that nobody has been told anything yet.

\* Only a call that is over has a result, which ToldTrue is about.
ResultWhenDone == \A r \in Requests : pc[r] # "done" => result[r] = "none"

\* The three ways an attempt of a write can end.
RetriedUnrun(r) ==
  ran' = ran /\ pc' = [pc EXCEPT ![r] = "waiting"] /\ result' = result
EndedUnrun(r) ==
  /\ ran' = ran /\ pc' = [pc EXCEPT ![r] = "done"]
  /\ \E what \in {"refused", "failed"} : result' = [result EXCEPT ![r] = what]
EndedRun(r) ==
  /\ ran' = [ran EXCEPT ![r] = 1] /\ pc' = [pc EXCEPT ![r] = "done"]
  /\ \E what \in {"ok", "failed"} : result' = [result EXCEPT ![r] = what]

\* One attempt of a write: if it is retried it has not run, if it ends it
\* has run at most once and the caller is told what happened.
LEMMA WriteAnswered ==
  ASSUME Ret!TypeOK, Ret!NotRunYet, ResultWhenDone,
         NEW r \in Effect, Ret!Answer(r)
  PROVE  RetriedUnrun(r) \/ EndedUnrun(r) \/ EndedRun(r)
<1> USE DEF RetriedUnrun, EndedUnrun, EndedRun
<1>1. r \in Requests /\ pc[r] = "sent" /\ ran[r] = 0
  BY TextsAreNamed DEF Ret!Answer, Ret!Respond, Ret!Reject, Ret!Throttle, Ret!ServerError,
                       Ret!Throw, Ret!NotRunYet
<1>2. ~Ret!isReadOnlyRequest(Body[r])
  BY WritesAreNotReads
<1>3. ran[r] + 1 = 1
  BY <1>1
<1>4. CASE Ret!Respond(r)
  BY <1>3, <1>4 DEF Ret!Respond, Ret!Runs, Ret!End
<1>5. CASE Ret!Reject(r)
  BY <1>5 DEF Ret!Reject, Ret!End
<1>6. CASE Ret!Throttle(r)
  BY <1>6 DEF Ret!Throttle, Ret!Retry, Ret!End
<1>7. CASE Ret!ServerError(r)
  BY <1>2, <1>3, <1>7 DEF Ret!ServerError, Ret!MayRun, Ret!Runs, Ret!End
<1>8. ASSUME NEW code \in Ret!Codes, Ret!Throw(r, code)
      PROVE  RetriedUnrun(r) \/ EndedUnrun(r) \/ EndedRun(r)
  <2>1. CASE code \in Ret!CONNECT_PHASE_CODES
    BY <1>8, <2>1 DEF Ret!Throw, Ret!Retry, Ret!End
  <2>2. CASE code \notin Ret!CONNECT_PHASE_CODES
    BY <1>2, <1>3, <1>8, <2>2 DEF Ret!Throw, Ret!MayRun, Ret!Runs, Ret!End
  <2> QED BY <2>1, <2>2
<1> QED BY <1>4, <1>5, <1>6, <1>7, <1>8 DEF Ret!Answer

\* The inductive invariant: for any requests, texts and number of retries,
\* no call that writes has run while it may still be sent again.
THEOREM FetchInvariant ==
  Ret!Spec => [](Ret!NotRunYet /\ Ret!ToldTrue /\ Ret!AtMostOnce)
<1> USE TextsAreNamed, BoundsAreNumbers
<1> DEFINE FetchInv == ResultWhenDone /\ Ret!NotRunYet /\ Ret!ToldTrue /\ Ret!AtMostOnce
<1>1. Ret!Init => FetchInv
  BY DEF Ret!Init, ResultWhenDone, Ret!NotRunYet, Ret!ToldTrue, Ret!AtMostOnce
<1>2. Ret!TypeOK /\ FetchInv /\ [Ret!Next]_(Ret!vars) => FetchInv'
  <2> SUFFICES ASSUME Ret!TypeOK, FetchInv, [Ret!Next]_(Ret!vars) PROVE FetchInv'
    OBVIOUS
  <2> USE DEF Ret!TypeOK, ResultWhenDone, Ret!NotRunYet, Ret!ToldTrue, Ret!AtMostOnce
  <2>1. CASE UNCHANGED Ret!vars
    BY <2>1 DEF Ret!vars
  <2>2. ASSUME NEW r \in Requests, Ret!Call(r) PROVE FetchInv'
    BY <2>2 DEF Ret!Call
  <2>3. ASSUME NEW r \in Requests, Ret!Abort(r) PROVE FetchInv'
    BY <2>3 DEF Ret!Abort
  <2>4. ASSUME NEW r \in Requests, Ret!SendAgain(r) PROVE FetchInv'
    BY <2>4 DEF Ret!SendAgain
  <2>5. ASSUME NEW r \in Requests, Ret!Answer(r) PROVE FetchInv'
    <3>1. CASE r \in Effect
      <4>1. RetriedUnrun(r) \/ EndedUnrun(r) \/ EndedRun(r)
        BY <2>5, <3>1, WriteAnswered
      <4>2. CASE RetriedUnrun(r)
        <5>1. pc[r] = "sent"
          BY <2>5 DEF Ret!Answer, Ret!Respond, Ret!Reject, Ret!Throttle, Ret!ServerError,
                      Ret!Throw
        <5> QED BY <4>2, <5>1 DEF RetriedUnrun
      <4>3. CASE EndedUnrun(r)
        <5>1. pc[r] = "sent"
          BY <2>5 DEF Ret!Answer, Ret!Respond, Ret!Reject, Ret!Throttle, Ret!ServerError,
                      Ret!Throw
        <5> QED BY <3>1, <4>3, <5>1 DEF EndedUnrun
      <4>4. CASE EndedRun(r)
        BY <3>1, <4>4 DEF EndedRun
      <4> QED BY <4>1, <4>2, <4>3, <4>4
    <3>2. CASE r \notin Effect
      <4>1. \A q \in Effect : q # r /\ q \in Requests
        BY <3>2
      <4>2. \A q \in Requests \ {r} :
              pc'[q] = pc[q] /\ result'[q] = result[q] /\ ran'[q] = ran[q]
        BY <2>5 DEF Ret!Answer, Ret!Respond, Ret!Reject, Ret!Throttle, Ret!ServerError,
                    Ret!Throw, Ret!Runs, Ret!MayRun,
                    Ret!Retry, Ret!End
      <4>3. pc'[r] # "done" => result'[r] = "none"
        BY <2>5 DEF Ret!Answer, Ret!Respond, Ret!Reject, Ret!Throttle, Ret!ServerError,
                    Ret!Throw, Ret!Runs, Ret!MayRun,
                    Ret!Retry, Ret!End
      <4> QED BY <4>1, <4>2, <4>3
    <3> QED BY <3>1, <3>2
  <2> QED BY <2>1, <2>2, <2>3, <2>4, <2>5 DEF Ret!Next
<1>3. Ret!Spec => []Ret!TypeOK
  BY FetchTypeOK
<1> QED BY <1>1, <1>2, <1>3, PTL DEF Ret!Spec

\* A statement that writes takes effect at most once (createRetryingFetch).
THEOREM FetchAtMostOnce ==
  Ret!Spec => []Ret!AtMostOnce
<1> USE TextsAreNamed, BoundsAreNumbers
<1>1. Ret!Spec => [](Ret!NotRunYet /\ Ret!ToldTrue /\ Ret!AtMostOnce)
  BY FetchInvariant
<1> QED BY <1>1, PTL

\* The caller of a statement that writes is told the truth about it
\* (createRetryingFetch).
THEOREM FetchToldTrue ==
  Ret!Spec => []Ret!ToldTrue
<1> USE TextsAreNamed, BoundsAreNumbers
<1>1. Ret!Spec => [](Ret!NotRunYet /\ Ret!ToldTrue /\ Ret!AtMostOnce)
  BY FetchInvariant
<1> QED BY <1>1, PTL

\* Both together, as the run checks them of two requests.
THEOREM FetchWrittenOnce ==
  Ret!Spec => []Ret!WrittenOnce
<1> USE TextsAreNamed, BoundsAreNumbers
<1>1. Ret!Spec => [](Ret!NotRunYet /\ Ret!ToldTrue /\ Ret!AtMostOnce)
  BY FetchInvariant
<1>2. Ret!NotRunYet /\ Ret!ToldTrue /\ Ret!AtMostOnce => Ret!WrittenOnce
  BY DEF Ret!WrittenOnce
<1> QED BY <1>1, <1>2, PTL

-----------------------------------------------------------------------------
(***************************************************************************)
(* Connections.                                                            *)
(***************************************************************************)

InSync(s) == Con!Syncing(s)
Once(a) == [b \in Accounts |-> IF b = a THEN 1 ELSE 0]
Held == [pc : {"idle"} \cup Con!Consents \cup Con!Stages, acct : Accounts \cup {None},
         conn : Con!Connection \cup {None}]

\* The tables hold the snapshot of the account that wrote last, or its row
\* says that they do not, or there is no row.
Good == conn[latest] = None \/ conn[latest].error \/ (kw = Once(latest) /\ pages = Once(latest))

\* A callback has stored the account's row, which has no error now, and goes
\* on to a sync.
Pending(a) ==
  /\ conn[a] # None
  /\ \E s \in Syncs : sync[s].pc = "upserted" /\ sync[s].acct = a /\ sync[s].conn.id = conn[a].id
Sound == Good \/ Pending(latest)

\* What a lone sync has done so far, and that its row is still the one it was
\* given, or will be synced anew.
Progress(s) ==
  LET a == sync[s].acct
      at == sync[s].pc
  IN  /\ conn[a] = None \/ conn[a].id = sync[s].conn.id \/ Pending(a)
      /\ at \in {"token", "refreshed", "fetch", "delKw", "error"} =>
           latest \in {None, a} \/ Sound
      /\ at \in {"delPages", "insKw", "insPages", "done"} => latest = a
      /\ at \in {"delPages", "insKw"} => kw = Con!Empty
      /\ at \in {"insKw", "insPages"} => pages = Con!Empty
      /\ at \in {"insPages", "done"} => kw = Once(a)
      /\ at = "done" => pages = Once(a)

\* A consent that is not stored yet is newer than what was stored for the
\* account, and the only one, unless the account's callbacks crossed.
Exchanged(s) == sync[s].pc = "exchanged"
TokenInv ==
  /\ \A a \in Accounts : newest[a] <= grants
  /\ \A s \in Syncs : Exchanged(s) => sync[s].conn.refresh <= grants
  /\ \A s \in Syncs : Exchanged(s) /\ sync[s].acct \notin crossed =>
       /\ newest[sync[s].acct] < sync[s].conn.refresh
       /\ \A t \in Syncs : Exchanged(t) /\ sync[t].acct = sync[s].acct => t = s
  /\ Con!RefreshTokenIsNewest

\* SnapshotIsWhole speaks of quiet states: the invariant follows the sync in
\* between.
ProgressInv ==
  ~overlapped /\ ~cut =>
    /\ \A s, t \in Syncs : InSync(s) /\ InSync(t) => s = t
    /\ \A s \in Syncs : InSync(s) => Progress(s)
    /\ latest # None /\ (\A s \in Syncs : ~InSync(s)) => Sound

SnapInv == Con!TypeOK /\ TokenInv /\ ProgressInv

-----------------------------------------------------------------------------
\* One process goes on.
Moves(s, rec) == sync' = [sync EXCEPT ![s] = rec]
\* What it then holds is legal, and the others hold what they held.
LEMMA MovesAre ==
  ASSUME Con!TypeOK, NEW s \in Syncs, NEW rec \in Held, Moves(s, rec),
         rec.pc # "idle" => rec.acct \in Accounts /\ rec.conn \in Con!Connection
  PROVE  /\ sync'[s] = rec /\ \A t \in Syncs \ {s} : sync'[t] = sync[t]
         /\ sync' \in [Syncs -> Held]
         /\ \A t \in Syncs : sync'[t].pc # "idle" =>
              sync'[t].acct \in Accounts /\ sync'[t].conn \in Con!Connection
<1>1. sync \in [Syncs -> Held]
  BY DEF Con!TypeOK, Held
<1> QED BY <1>1 DEF Con!TypeOK, Moves

\* A step of one sync from stage to stage, with what it must establish.
LEMMA StepKeepsSnapInv ==
  ASSUME SnapInv, NEW s \in Syncs, InSync(s), Con!TypeOK', TokenInv',
         UNCHANGED <<overlapped, cut>>,
         \A t \in Syncs \ {s} : sync'[t] = sync[t],
         ~overlapped /\ ~cut /\ InSync(s)' => Progress(s)',
         ~overlapped /\ ~cut /\ ~InSync(s)' /\ latest' # None => Sound'
  PROVE  SnapInv'
<1>1. \A t \in Syncs \ {s} : InSync(t)' = InSync(t)
  BY DEF InSync, Con!Syncing
<1>2. ~overlapped /\ ~cut => \A t \in Syncs \ {s} : ~InSync(t)
  BY DEF SnapInv, ProgressInv
<1> QED BY <1>1, <1>2 DEF SnapInv, ProgressInv

\* A step of a sync, or of nobody's, that leaves every refresh token.
LEMMA TokensKept ==
  ASSUME TokenInv, UNCHANGED Con!consents,
         \A t \in Syncs : Exchanged(t)' => Exchanged(t) /\ sync'[t] = sync[t],
         \A b \in Accounts : conn'[b] # None =>
           conn[b] # None /\ conn'[b].refresh = conn[b].refresh
  PROVE  TokenInv'
BY DEF TokenInv, Exchanged, Con!consents, Con!RefreshTokenIsNewest

\* A callback that is about to sync stays so while another process steps and
\* its row keeps its id.
LEMMA PendingKept ==
  ASSUME NEW s \in Syncs, sync[s].pc # "upserted", \A t \in Syncs \ {s} : sync'[t] = sync[t],
         NEW b \in Accounts, conn[b] # None => conn'[b] # None /\ conn'[b].id = conn[b].id,
         Pending(b)
  PROVE  Pending(b)'
BY DEF Pending

\* UPDATE ... WHERE id, of a row that keeps its refresh token and its id.
LEMMA UpdateKeeps ==
  ASSUME Con!TypeOK, TokenInv, NEW s \in Syncs, InSync(s), NEW cn, Con!Update(s, cn),
         conn[sync[s].acct] # None =>
           cn \in Con!Connection /\ cn.id = conn[sync[s].acct].id
             /\ cn.refresh = conn[sync[s].acct].refresh
  PROVE  /\ conn' \in [Accounts -> Con!Connection \cup {None}]
         /\ \A b \in Accounts : /\ conn'[b] = None <=> conn[b] = None
                                /\ conn[b] # None => /\ conn'[b].id = conn[b].id
                                                     /\ conn'[b].refresh = conn[b].refresh
                                /\ b # sync[s].acct => conn'[b] = conn[b]
         /\ conn[sync[s].acct] # None /\ conn[sync[s].acct].id = sync[s].conn.id
              => conn'[sync[s].acct] = cn
<1> DEFINE a == sync[s].acct
<1>1. a \in Accounts
  BY DEF Con!TypeOK, InSync, Con!Syncing, Con!Stages
<1>2. CASE conn[a] # None /\ conn[a].id = sync[s].conn.id
  <2>1. conn' = [conn EXCEPT ![a] = cn]
    BY <1>2 DEF Con!Update, Con!Mine
  <2> QED BY <1>1, <1>2, <2>1, NoneIsNothing DEF Con!TypeOK
<1>3. CASE ~(conn[a] # None /\ conn[a].id = sync[s].conn.id)
  <2>1. conn' = conn
    BY <1>3 DEF Con!Update, Con!Mine
  <2> QED BY <1>3, <2>1 DEF Con!TypeOK
<1> QED BY <1>2, <1>3

(* A sync holds the row of the connection it was given, a consent is stored  *)
(* once, and what the tables hold is of one sync (syncGscConnection,         *)
(* upsertConnection).                                                        *)
THEOREM SnapshotInvariant ==
  Con!Spec => []SnapInv
<1> USE NoneIsNothing, BoundsAreNumbers
<1>1. Con!Init => SnapInv
  <2> SUFFICES ASSUME Con!Init PROVE SnapInv
    OBVIOUS
  <2>1. \A s \in Syncs : sync[s].pc = "idle"
    BY DEF Con!Init, Con!NoSync
  <2>2. Con!NoSync \in Held
    BY DEF Con!NoSync, Held
  <2>3. overlapped \in BOOLEAN /\ cut \in BOOLEAN
    BY DEF Con!Init
  <2>4. Con!TypeOK
    BY <2>1, <2>2, <2>3 DEF Con!Init, Con!TypeOK, Held
  <2>5. TokenInv
    BY <2>1 DEF Con!Init, TokenInv, Exchanged, Con!RefreshTokenIsNewest
  <2>6. ProgressInv
    BY <2>1 DEF Con!Init, ProgressInv, InSync, Con!Syncing, Con!Stages
  <2> QED BY <2>4, <2>5, <2>6 DEF SnapInv
<1>2. SnapInv /\ [Con!Next]_(Con!vars) => SnapInv'
  <2> SUFFICES ASSUME SnapInv, [Con!Next]_(Con!vars) PROVE SnapInv'
    OBVIOUS
  <2>0. Con!TypeOK /\ TokenInv /\ ProgressInv
    BY DEF SnapInv
  <2>1. CASE UNCHANGED Con!vars
    <3>1. Con!TypeOK' /\ TokenInv'
      BY <2>0, <2>1 DEF Con!vars, Con!tables, Con!consents, Con!TypeOK, TokenInv, Exchanged,
                        Con!RefreshTokenIsNewest
    <3>2. ProgressInv'
      BY <2>0, <2>1 DEF Con!vars, Con!tables, ProgressInv, InSync, Con!Syncing, Progress,
                        Good, Sound, Pending
    <3> QED BY <3>1, <3>2 DEF SnapInv
  \* A sync begins with the row that is there.
  <2>2. ASSUME NEW a \in Accounts, NEW s \in Syncs, ~InSync(s), conn[a] # None,
               Con!Begin(s, a, conn[a]), UNCHANGED <<conn, Con!tables, Con!consents, faults, cut, latest>>,
               sync[s].pc = "upserted" => sync[s].acct = a
        PROVE  SnapInv'
    <3> DEFINE rec == [pc |-> "token", acct |-> a, conn |-> conn[a]]
    <3>1. conn[a] \in Con!Connection /\ rec \in Held
      BY <2>0, <2>2 DEF Con!TypeOK, Held, Con!Stages
    <3>2. Moves(s, rec) /\ overlapped' \in BOOLEAN
      BY <2>0, <2>2 DEF Con!Begin, Moves, Con!TypeOK
    <3>3. /\ sync'[s] = rec /\ \A t \in Syncs \ {s} : sync'[t] = sync[t]
          /\ sync' \in [Syncs -> Held]
          /\ \A t \in Syncs : sync'[t].pc # "idle" =>
               sync'[t].acct \in Accounts /\ sync'[t].conn \in Con!Connection
      BY <2>0, <3>1, <3>2, MovesAre
    <3>4. Con!TypeOK'
      BY <2>0, <2>2, <3>2, <3>3 DEF Con!TypeOK, Held, Con!tables, Con!consents
    <3>5. TokenInv'
      BY <2>0, <2>2, <3>3, TokensKept DEF Exchanged
    <3>6. ASSUME ~overlapped', ~cut' PROVE ProgressInv'
      <4>1. ~overlapped /\ ~cut /\ \A t \in Syncs : ~InSync(t)
        BY <2>2, <3>6 DEF Con!Begin, InSync
      <4>2. latest # None => Sound
        BY <2>0, <4>1 DEF ProgressInv
      <4>3. latest # None => latest \in Accounts
        BY <2>0 DEF Con!TypeOK
      <4>4. Pending(latest) /\ latest # a => Pending(latest)'
        BY <2>2, <3>3, <4>3 DEF Pending
      <4>5. latest \in {None, a} \/ Sound'
        BY <2>2, <4>2, <4>4 DEF Sound, Good, Con!tables
      <4>6. Progress(s)'
        BY <2>2, <3>3, <4>5 DEF Progress
      <4>7. \A t \in Syncs : InSync(t)' <=> t = s
        BY <3>3, <4>1 DEF InSync, Con!Syncing, Con!Stages
      <4> QED BY <4>6, <4>7 DEF ProgressInv
    <3> QED BY <3>4, <3>5, <3>6 DEF SnapInv, ProgressInv
  \* A callback, or nothing, goes on beside the syncs: what their rows and the
  \* tables say is as sound as before.
  <2>3. ASSUME NEW s \in Syncs, ~InSync(s), ~InSync(s)',
               \A t \in Syncs \ {s} : sync'[t] = sync[t], Con!TypeOK', TokenInv',
               UNCHANGED <<kw, pages, overlapped, cut, latest>>,
               \A b \in Accounts : Pending(b) => conn'[b] = None \/ Pending(b)',
               \A b \in Accounts : conn'[b] = conn[b] \/ conn'[b] = None \/ Pending(b)'
        PROVE  SnapInv'
    <3>1. \A t \in Syncs : InSync(t)' = InSync(t) /\ (InSync(t) => sync'[t] = sync[t])
      BY <2>3 DEF InSync, Con!Syncing
    <3>2. latest # None /\ Sound => Sound'
      BY <2>0, <2>3 DEF Sound, Good, Con!TypeOK
    <3>3. ASSUME NEW t \in Syncs, InSync(t), Progress(t) PROVE Progress(t)'
      <4>1. sync[t].acct \in Accounts /\ sync'[t] = sync[t]
        BY <2>0, <3>1, <3>3 DEF Con!TypeOK, InSync, Con!Syncing, Con!Stages
      <4>2. /\ conn[sync[t].acct] = None \/ conn[sync[t].acct].id = sync[t].conn.id
                 \/ Pending(sync[t].acct)
              => \/ conn'[sync[t].acct] = None \/ conn'[sync[t].acct].id = sync[t].conn.id
                 \/ Pending(sync[t].acct)'
        BY <2>3, <4>1
      <4> QED BY <2>3, <3>2, <3>3, <4>1, <4>2 DEF Progress
    <3>4. ProgressInv'
      BY <2>0, <2>3, <3>1, <3>2, <3>3 DEF ProgressInv
    <3> QED BY <2>3, <3>4 DEF SnapInv
  <2>4. ASSUME NEW a \in Accounts, NEW s \in Syncs, Con!Exchange(a, s) PROVE SnapInv'
    <3> DEFINE cn == [id |-> grants', refresh |-> grants', access |-> grants', stale |-> FALSE,
                       error |-> FALSE]
               rec == [pc |-> "exchanged", acct |-> a, conn |-> cn]
    <3>1. grants' = grants + 1 /\ grants' \in 1..MaxGrants /\ grants \in 0..MaxGrants
      BY <2>0, <2>4 DEF Con!Exchange, Con!TypeOK
    <3>2. cn \in Con!Connection /\ cn.refresh = grants'
      BY <3>1 DEF Con!Connection
    <3>3. /\ Moves(s, rec) /\ sync[s].pc = "idle"
          /\ UNCHANGED <<conn, Con!tables, faults, newest, overlapped, cut, latest>>
      BY <2>4 DEF Con!Exchange, Moves
    <3> HIDE DEF cn
    <3>4. rec \in Held
      BY <3>2 DEF Held, Con!Consents
    <3>5. /\ sync'[s] = rec /\ \A t \in Syncs \ {s} : sync'[t] = sync[t]
          /\ sync' \in [Syncs -> Held]
          /\ \A t \in Syncs : sync'[t].pc # "idle" =>
               sync'[t].acct \in Accounts /\ sync'[t].conn \in Con!Connection
      BY <2>0, <3>2, <3>3, <3>4, MovesAre
    <3>6. crossed' = IF \E t \in Syncs : Exchanged(t) /\ sync[t].acct = a
                     THEN crossed \cup {a} ELSE crossed
      BY <2>4 DEF Con!Exchange, Exchanged
    <3>7. Con!TypeOK'
      BY <2>0, <3>1, <3>3, <3>5, <3>6 DEF Con!TypeOK, Held, Con!tables
    <3>8. TokenInv'
      <4>1. \A t \in Syncs \ {s} : Exchanged(t)' = Exchanged(t)
        BY <3>5 DEF Exchanged
      <4>2. ~Exchanged(s) /\ sync'[s].acct = a /\ sync'[s].conn.refresh = grants'
        BY <3>2, <3>3, <3>5 DEF Exchanged
      <4>3. \A b \in Accounts : newest[b] \in 0..MaxGrants
        BY <2>0 DEF Con!TypeOK
      <4>4. \A t \in Syncs : Exchanged(t) => sync[t].conn.refresh \in 1..MaxGrants
        BY <2>0 DEF Con!TypeOK, Con!Connection, Exchanged
      <4>5. \A b \in Accounts : newest'[b] <= grants'
        BY <2>0, <3>1, <3>3, <4>3 DEF TokenInv
      <4>6. \A t \in Syncs : Exchanged(t)' => sync'[t].conn.refresh <= grants'
        BY <2>0, <3>1, <3>5, <4>1, <4>2, <4>4 DEF TokenInv
      <4>7. ASSUME NEW t \in Syncs, Exchanged(t)', sync'[t].acct \notin crossed'
            PROVE  /\ newest'[sync'[t].acct] < sync'[t].conn.refresh
                   /\ \A u \in Syncs : Exchanged(u)' /\ sync'[u].acct = sync'[t].acct => u = t
        <5>1. CASE t = s
          <6>1. \A u \in Syncs \ {s} : ~(Exchanged(u)' /\ sync'[u].acct = a)
            BY <3>5, <3>6, <4>1, <4>2, <4>7, <5>1
          <6>2. newest[a] < grants'
            BY <2>0, <3>1, <4>3 DEF TokenInv
          <6> QED BY <3>3, <4>2, <5>1, <6>1, <6>2
        <5>2. CASE t # s
          <6>1. Exchanged(t) /\ sync'[t] = sync[t] /\ sync[t].acct \notin crossed
            BY <3>5, <3>6, <4>1, <4>7, <5>2
          <6>2. sync[t].acct # a
            BY <3>6, <4>7, <6>1
          <6> QED BY <2>0, <3>3, <3>5, <4>1, <4>2, <5>2, <6>1, <6>2 DEF TokenInv
        <5> QED BY <5>1, <5>2
      <4>8. Con!RefreshTokenIsNewest'
        BY <2>0, <3>3, <3>6 DEF TokenInv, Con!RefreshTokenIsNewest
      <4> QED BY <4>5, <4>6, <4>7, <4>8 DEF TokenInv
    <3>9. \A b \in Accounts : Pending(b) => Pending(b)'
      BY <3>3, <3>5, PendingKept
    <3>10. ~InSync(s) /\ ~InSync(s)'
      BY <3>3, <3>5 DEF InSync, Con!Syncing, Con!Stages
    <3> QED BY <2>3, <3>3, <3>5, <3>7, <3>8, <3>9, <3>10 DEF Con!tables
  <2>5. ASSUME NEW s \in Syncs, Con!ConsentFails(s) PROVE SnapInv'
    <3>1. /\ Moves(s, Con!NoSync) /\ sync[s].pc = "exchanged"
          /\ UNCHANGED <<conn, Con!tables, Con!consents, faults, overlapped, cut, latest>>
      BY <2>5 DEF Con!ConsentFails, Moves
    <3>2. Con!NoSync \in Held /\ Con!NoSync.pc = "idle"
      BY DEF Con!NoSync, Held
    <3>3. /\ sync'[s] = Con!NoSync /\ \A t \in Syncs \ {s} : sync'[t] = sync[t]
          /\ sync' \in [Syncs -> Held]
          /\ \A t \in Syncs : sync'[t].pc # "idle" =>
               sync'[t].acct \in Accounts /\ sync'[t].conn \in Con!Connection
      BY <2>0, <3>1, <3>2, MovesAre
    <3>4. Con!TypeOK'
      BY <2>0, <3>1, <3>3 DEF Con!TypeOK, Held, Con!tables, Con!consents
    <3>5. TokenInv'
      BY <2>0, <3>1, <3>2, <3>3, TokensKept DEF Exchanged
    <3>6. \A b \in Accounts : Pending(b) => Pending(b)'
      BY <3>1, <3>3, PendingKept
    <3>7. ~InSync(s) /\ ~InSync(s)'
      BY <3>1, <3>2, <3>3 DEF InSync, Con!Syncing, Con!Stages
    <3> QED BY <2>3, <3>1, <3>3, <3>4, <3>5, <3>6, <3>7 DEF Con!tables
  <2>6. ASSUME NEW s \in Syncs, Con!Upsert(s) PROVE SnapInv'
    <3> DEFINE a == sync[s].acct
               new == sync[s].conn
               cn == IF conn[a] = None THEN new ELSE [new EXCEPT !.id = conn[a].id]
               rec == [pc |-> "upserted", acct |-> a, conn |-> cn]
               alone == \A t \in Syncs \ {s} : ~(Exchanged(t) /\ sync[t].acct = a)
    <3>1. Exchanged(s) /\ a \in Accounts /\ new \in Con!Connection
      BY <2>0, <2>6 DEF Con!Upsert, Con!TypeOK, Exchanged
    <3>2. /\ cn \in Con!Connection /\ cn.refresh = new.refresh
          /\ conn[a] # None => cn.id = conn[a].id
      BY <2>0, <3>1 DEF Con!TypeOK, Con!Connection
    <3>3. /\ Moves(s, rec) /\ conn' = [conn EXCEPT ![a] = cn]
          /\ newest' = [newest EXCEPT ![a] = IF newest[a] < new.refresh THEN new.refresh
                                             ELSE newest[a]]
          /\ crossed' = IF alone /\ newest[a] < new.refresh THEN crossed \ {a} ELSE crossed
          /\ UNCHANGED <<Con!tables, grants, faults, overlapped, cut, latest>>
      BY <2>6 DEF Con!Upsert, Moves, Exchanged
    <3> HIDE DEF cn
    <3>4. rec \in Held
      BY <3>1, <3>2 DEF Held, Con!Consents
    <3>5. /\ sync'[s] = rec /\ \A t \in Syncs \ {s} : sync'[t] = sync[t]
          /\ sync' \in [Syncs -> Held]
          /\ \A t \in Syncs : sync'[t].pc # "idle" =>
               sync'[t].acct \in Accounts /\ sync'[t].conn \in Con!Connection
      BY <2>0, <3>1, <3>2, <3>3, <3>4, MovesAre
    <3>6. /\ conn' \in [Accounts -> Con!Connection \cup {None}] /\ conn'[a] = cn
          /\ \A b \in Accounts \ {a} : conn'[b] = conn[b]
      BY <2>0, <3>1, <3>2, <3>3 DEF Con!TypeOK
    <3>7. /\ newest' \in [Accounts -> 0..MaxGrants]
          /\ newest'[a] = IF newest[a] < new.refresh THEN new.refresh ELSE newest[a]
          /\ \A b \in Accounts \ {a} : newest'[b] = newest[b]
          /\ \A b \in Accounts : newest[b] \in 0..MaxGrants
          /\ new.refresh \in 1..MaxGrants
      BY <2>0, <3>1, <3>3 DEF Con!TypeOK, Con!Connection
    <3>8. Con!TypeOK'
      BY <2>0, <3>3, <3>5, <3>6, <3>7 DEF Con!TypeOK, Held, Con!tables
    <3>9. TokenInv'
      <4>1. ~Exchanged(s)' /\ \A t \in Syncs \ {s} : Exchanged(t)' = Exchanged(t)
        BY <3>5 DEF Exchanged
      <4>2. \A b \in Accounts : newest'[b] <= grants'
        BY <2>0, <3>1, <3>3, <3>7 DEF TokenInv
      <4>3. \A t \in Syncs : Exchanged(t)' => sync'[t].conn.refresh <= grants'
        BY <2>0, <3>3, <3>5, <4>1 DEF TokenInv
      <4>4. ASSUME NEW t \in Syncs, Exchanged(t)', sync'[t].acct \notin crossed'
            PROVE  /\ newest'[sync'[t].acct] < sync'[t].conn.refresh
                   /\ \A u \in Syncs : Exchanged(u)' /\ sync'[u].acct = sync'[t].acct => u = t
        <5>1. t # s /\ Exchanged(t) /\ sync'[t] = sync[t] /\ sync[t].acct \in Accounts
          BY <2>0, <3>5, <4>1, <4>4 DEF Con!TypeOK, Exchanged
        <5>2. sync[t].acct # a
          <6>1. CASE alone
            BY <5>1, <6>1
          <6>2. CASE ~alone
            BY <2>0, <3>1, <3>3, <4>4, <5>1, <6>2 DEF TokenInv
          <6> QED BY <6>1, <6>2
        <5>3. sync[t].acct \notin crossed
          BY <3>3, <4>4, <5>1, <5>2
        <5> QED BY <2>0, <3>5, <3>7, <4>1, <5>1, <5>2, <5>3 DEF TokenInv
      <4>5. ASSUME NEW b \in Accounts \ crossed', conn'[b] # None
            PROVE  conn'[b].refresh = newest'[b]
        <5>1. CASE b = a
          <6>1. newest[a] < new.refresh
            BY <2>0, <3>1, <3>3, <4>5, <5>1 DEF TokenInv
          <6> QED BY <3>2, <3>6, <3>7, <5>1, <6>1
        <5>2. CASE b # a
          <6>1. b \notin crossed
            BY <3>3, <4>5, <5>2
          <6> QED BY <2>0, <3>6, <3>7, <4>5, <5>2, <6>1 DEF TokenInv, Con!RefreshTokenIsNewest
        <5> QED BY <5>1, <5>2
      <4> QED BY <4>2, <4>3, <4>4, <4>5 DEF TokenInv, Con!RefreshTokenIsNewest
    <3>10. Pending(a)'
      BY <3>2, <3>5, <3>6 DEF Pending
    <3>11. \A b \in Accounts \ {a} : Pending(b) => Pending(b)'
      BY <3>1, <3>5, <3>6, PendingKept DEF Exchanged
    <3>12. ~InSync(s) /\ ~InSync(s)'
      BY <3>1, <3>5 DEF InSync, Con!Syncing, Con!Stages, Exchanged
    <3> QED BY <2>3, <3>3, <3>5, <3>6, <3>8, <3>9, <3>10, <3>11, <3>12 DEF Con!tables
  <2>7. ASSUME NEW s \in Syncs, Con!FirstSync(s) PROVE SnapInv'
    <3> DEFINE a == sync[s].acct
    <3>1. sync[s].pc = "upserted" /\ a \in Accounts /\ ~InSync(s)
          /\ UNCHANGED <<conn, Con!tables, Con!consents, faults, cut, latest>>
      BY <2>0, <2>7 DEF Con!FirstSync, Con!TypeOK, InSync, Con!Syncing, Con!Stages
    <3>2. CASE conn[a] # None /\ conn[a].id = sync[s].conn.id
      <4>1. Con!Begin(s, a, conn[a])
        BY <2>7, <3>2 DEF Con!FirstSync
      <4> QED BY <2>2, <3>1, <3>2, <4>1
    <3>3. CASE ~(conn[a] # None /\ conn[a].id = sync[s].conn.id)
      <4>1. Moves(s, Con!NoSync) /\ overlapped' = overlapped
        BY <2>7, <3>3 DEF Con!FirstSync, Moves
      <4>2. Con!NoSync \in Held /\ Con!NoSync.pc = "idle"
        BY DEF Con!NoSync, Held
      <4>3. /\ sync'[s] = Con!NoSync /\ \A t \in Syncs \ {s} : sync'[t] = sync[t]
            /\ sync' \in [Syncs -> Held]
            /\ \A t \in Syncs : sync'[t].pc # "idle" =>
                 sync'[t].acct \in Accounts /\ sync'[t].conn \in Con!Connection
        BY <2>0, <4>1, <4>2, MovesAre
      <4>4. Con!TypeOK'
        BY <2>0, <3>1, <4>1, <4>3 DEF Con!TypeOK, Held, Con!tables, Con!consents
      <4>5. TokenInv'
        BY <2>0, <3>1, <4>2, <4>3, TokensKept DEF Exchanged
      <4>6. \A b \in Accounts : Pending(b) => Pending(b)'
        BY <3>1, <3>3, <4>3 DEF Pending
      <4>7. ~InSync(s)'
        BY <4>2, <4>3 DEF InSync, Con!Syncing, Con!Stages
      <4> QED BY <2>3, <3>1, <4>1, <4>3, <4>4, <4>5, <4>6, <4>7 DEF Con!tables
    <3> QED BY <3>2, <3>3
  <2>8. ASSUME NEW a \in Accounts, NEW s \in Syncs, Con!StartSync(s, a) PROVE SnapInv'
    <3>1. sync[s].pc = "idle" /\ ~InSync(s)
      BY <2>8 DEF Con!StartSync, InSync, Con!Syncing, Con!Stages
    <3> QED BY <2>2, <2>8, <3>1 DEF Con!StartSync
  <2>9. ASSUME NEW a \in Accounts, Con!Disconnect(a) \/ Con!TokenExpires(a) PROVE SnapInv'
    <3>1. UNCHANGED <<Con!tables, sync, Con!consents, faults, overlapped, cut, latest>>
      BY <2>9 DEF Con!Disconnect, Con!TokenExpires
    <3>2. /\ conn' \in [Accounts -> Con!Connection \cup {None}]
          /\ \A b \in Accounts : conn'[b] # None =>
               conn[b] # None /\ conn'[b].id = conn[b].id /\ conn'[b].refresh = conn[b].refresh
                 /\ conn'[b].error = conn[b].error
      <4>1. conn \in [Accounts -> Con!Connection \cup {None}]
        BY <2>0 DEF Con!TypeOK
      <4>2. CASE conn' = [conn EXCEPT ![a] = None]
        BY <4>1, <4>2
      <4>3. CASE conn[a] # None /\ conn' = [conn EXCEPT ![a].stale = TRUE]
        <5> DEFINE cn == [conn[a] EXCEPT !.stale = TRUE]
        <5>1. conn[a] \in Con!Connection
          BY <4>1, <4>3
        <5>2. cn \in Con!Connection /\ cn.id = conn[a].id /\ cn.refresh = conn[a].refresh
              /\ cn.error = conn[a].error
          BY <5>1 DEF Con!Connection
        <5>3. conn' = [conn EXCEPT ![a] = cn]
          BY <4>3
        <5> HIDE DEF cn
        <5> QED BY <4>1, <4>3, <5>2, <5>3
      <4> QED BY <2>9, <4>2, <4>3 DEF Con!Disconnect, Con!TokenExpires
    <3>3. Con!TypeOK' /\ TokenInv'
      BY <2>0, <3>1, <3>2, TokensKept DEF Con!TypeOK, Con!tables, Con!consents, Exchanged
    <3>4. \A b \in Accounts : Pending(b) => conn'[b] = None \/ Pending(b)'
      BY <3>1, <3>2 DEF Pending
    <3>5. latest # None /\ Sound => Sound'
      BY <2>0, <3>1, <3>2, <3>4 DEF Good, Sound, Con!TypeOK, Con!tables
    <3>6. ASSUME NEW s \in Syncs, InSync(s), Progress(s) PROVE Progress(s)'
      <4>1. sync[s].acct \in Accounts
        BY <2>0, <3>6 DEF Con!TypeOK, InSync, Con!Syncing, Con!Stages
      <4> QED BY <3>1, <3>2, <3>4, <3>5, <3>6, <4>1 DEF Progress, Con!tables
    <3> QED BY <2>0, <3>1, <3>3, <3>5, <3>6 DEF SnapInv, ProgressInv, InSync, Con!Syncing
  <2>10. ASSUME NEW table \in doomed, Con!Mutate(table) PROVE SnapInv'
    <3>1. /\ UNCHANGED <<conn, kw, pages, sync, Con!consents, faults, overlapped, cut, latest>>
          /\ doomed' \subseteq doomed
      BY <2>10 DEF Con!Mutate
    <3>2. Con!TypeOK' /\ TokenInv'
      BY <2>0, <3>1, TokensKept DEF Con!TypeOK, Con!consents, Exchanged
    <3>3. ProgressInv'
      BY <2>0, <3>1 DEF ProgressInv, Progress, Good, Sound, Pending, InSync, Con!Syncing
    <3> QED BY <3>2, <3>3 DEF SnapInv
  <2>11. ASSUME NEW s \in Syncs, Con!SyncStep(s) PROVE SnapInv'
    <3> DEFINE a == sync[s].acct
    <3>1. /\ InSync(s) \/ (sync[s].pc = "upserted" /\ Con!Dies(s))
          /\ a \in Accounts /\ sync[s].conn \in Con!Connection
      BY <2>0, <2>11 DEF Con!SyncStep, Con!GetToken, Con!SaveToken, Con!Fetch,
                        Con!DeleteKeywords, Con!DeletePages,
                       Con!InsertKeywords, Con!InsertPages, Con!MarkSynced, Con!Throw,
                       Con!MarkError, Con!Dies, InSync,
                       Con!TypeOK, Con!Stages, Con!Syncing
    \* A stage of the sync that goes on.
    <3>2. ASSUME NEW at \in Con!Stages, Con!To(s, at)
          PROVE  /\ sync'[s].pc = at /\ sync'[s].acct = a /\ sync'[s].conn = sync[s].conn
                 /\ InSync(s)' /\ \A t \in Syncs \ {s} : sync'[t] = sync[t]
                 /\ sync' \in [Syncs -> Held]
                 /\ \A t \in Syncs : sync'[t].pc # "idle" =>
                      sync'[t].acct \in Accounts /\ sync'[t].conn \in Con!Connection
      <4> DEFINE rec == [sync[s] EXCEPT !.pc = at]
      <4>1. Moves(s, rec) /\ rec \in Held /\ rec.pc = at /\ rec.acct = a /\ rec.conn = sync[s].conn
        BY <2>0, <3>1, <3>2 DEF Con!To, Con!TypeOK, Held, Moves
      <4> HIDE DEF rec
      <4> QED BY <2>0, <3>1, <3>2, <4>1, MovesAre DEF InSync, Con!Syncing
    \* And one that ends.
    <3>3. ASSUME sync' = [sync EXCEPT ![s] = Con!NoSync]
          PROVE  /\ ~InSync(s)' /\ \A t \in Syncs \ {s} : sync'[t] = sync[t]
                 /\ ~Exchanged(s)' /\ sync' \in [Syncs -> Held]
                 /\ \A t \in Syncs : sync'[t].pc # "idle" =>
                      sync'[t].acct \in Accounts /\ sync'[t].conn \in Con!Connection
      <4>1. Moves(s, Con!NoSync) /\ Con!NoSync \in Held /\ Con!NoSync.pc = "idle"
        BY <3>3 DEF Moves, Con!NoSync, Held
      <4> QED BY <2>0, <4>1, MovesAre DEF InSync, Con!Syncing, Con!Stages, Exchanged
    <3>4. ~overlapped /\ ~cut /\ InSync(s) => Progress(s)
      BY <2>0 DEF ProgressInv
    <3>15. InSync(s) => sync[s].pc # "upserted" /\ ~Exchanged(s)
      BY DEF InSync, Con!Syncing, Con!Stages, Exchanged
    \* Where no row loses its id, or its error, nothing becomes less sound.
    <3>16. ASSUME InSync(s), \A t \in Syncs \ {s} : sync'[t] = sync[t],
                  \A b \in Accounts :
                    /\ conn'[b] = None <=> conn[b] = None
                    /\ conn[b] # None =>
                         conn'[b].id = conn[b].id /\ conn'[b].error = conn[b].error,
                  UNCHANGED <<kw, pages, latest>>
           PROVE  /\ \A b \in Accounts : Pending(b) => Pending(b)'
                  /\ latest # None /\ Sound => Sound'
      <4>1. \A b \in Accounts : Pending(b) => Pending(b)'
        BY <3>15, <3>16, PendingKept
      <4>2. ASSUME latest # None PROVE Sound => Sound'
        <5>1. latest \in Accounts /\ latest' = latest
          BY <2>0, <3>16, <4>2 DEF Con!TypeOK
        <5>2. /\ conn'[latest] = None <=> conn[latest] = None
              /\ conn[latest] # None => conn'[latest].error = conn[latest].error
          BY <3>16, <5>1
        <5>3. Good => Good'
          BY <3>16, <5>1, <5>2 DEF Good, Once
        <5> QED BY <4>1, <5>1, <5>3 DEF Sound
      <4> QED BY <4>1, <4>2
    \* And the refresh tokens stay.
    <3>17. ASSUME InSync(s), \A t \in Syncs \ {s} : sync'[t] = sync[t], ~Exchanged(s)',
                  UNCHANGED Con!consents,
                  \A b \in Accounts : conn'[b] # None =>
                    conn[b] # None /\ conn'[b].refresh = conn[b].refresh
           PROVE  TokenInv'
      BY <2>0, <3>17, TokensKept DEF Exchanged
    <3>5. CASE Con!GetToken(s) \/ Con!Fetch(s)
      <4>1. PICK at \in {"refreshed", "fetch", "delKw"} : Con!To(s, at)
        BY <3>5 DEF Con!GetToken, Con!Fetch
      <4>2. UNCHANGED <<conn, Con!tables, Con!consents, faults, overlapped, cut, latest>>
            /\ sync[s].pc \in {"token", "fetch"} /\ InSync(s) /\ at \in Con!Stages
        BY <3>5, <4>1 DEF Con!GetToken, Con!Fetch, InSync, Con!Syncing, Con!Stages
      <4>3. Con!TypeOK' /\ TokenInv'
        BY <2>0, <3>2, <3>17, <4>1, <4>2 DEF Con!TypeOK, Held, Con!tables, Con!consents,
                                            Exchanged, Con!Stages
      <4>4. Progress(s) => Progress(s)'
        BY <3>1, <3>2, <3>16, <4>1, <4>2 DEF Progress, Con!tables
      <4> QED BY <3>2, <3>4, <4>1, <4>2, <4>3, <4>4, StepKeepsSnapInv
    <3>6. CASE Con!SaveToken(s)
      <4> DEFINE cn == [conn[a] EXCEPT !.access = sync[s].conn.refresh, !.stale = FALSE]
      <4>1. /\ Con!Update(s, cn) /\ Con!To(s, "fetch") /\ sync[s].pc = "refreshed"
            /\ UNCHANGED <<Con!tables, Con!consents, faults, overlapped, cut, latest>>
            /\ InSync(s) /\ "fetch" \in Con!Stages
        BY <3>6 DEF Con!SaveToken, Con!Mine, InSync, Con!Syncing, Con!Stages
      <4>2. conn[a] # None => cn \in Con!Connection /\ cn.id = conn[a].id
                              /\ cn.refresh = conn[a].refresh /\ cn.error = conn[a].error
        BY <2>0, <3>1 DEF Con!TypeOK, Con!Connection
      <4> HIDE DEF cn
      <4>3. /\ conn' \in [Accounts -> Con!Connection \cup {None}]
            /\ \A b \in Accounts : /\ conn'[b] = None <=> conn[b] = None
                                   /\ conn[b] # None => /\ conn'[b].id = conn[b].id
                                                        /\ conn'[b].refresh = conn[b].refresh
                                   /\ b # a => conn'[b] = conn[b]
        BY <2>0, <4>1, <4>2, UpdateKeeps
      <4>4. conn[a] # None => conn'[a].error = conn[a].error
        BY <3>1, <4>1, <4>2, <2>0 DEF Con!Update, Con!Mine, Con!TypeOK
      <4>5. Con!TypeOK' /\ TokenInv'
        BY <2>0, <3>2, <3>17, <4>1, <4>3 DEF Con!TypeOK, Held, Con!tables, Con!consents,
                                            Exchanged, Con!Stages
      <4>6. Progress(s) => Progress(s)'
        BY <3>1, <3>2, <3>16, <4>1, <4>3, <4>4 DEF Progress, Con!tables
      <4> QED BY <3>2, <3>4, <4>1, <4>5, <4>6, StepKeepsSnapInv
    <3>7. CASE Con!DeleteKeywords(s)
      <4>1. /\ kw' = Con!Empty /\ latest' = a /\ Con!To(s, "delPages") /\ sync[s].pc = "delKw"
            /\ doomed' \subseteq doomed \cup {"keywords"}
            /\ UNCHANGED <<conn, pages, Con!consents, faults, overlapped, cut>>
            /\ InSync(s) /\ "delPages" \in Con!Stages
        BY <3>7 DEF Con!DeleteKeywords, Con!Condemn, Con!Mine, InSync, Con!Syncing, Con!Stages
      <4>2. Con!TypeOK' /\ TokenInv'
        BY <2>0, <3>1, <3>2, <3>17, <4>1 DEF Con!TypeOK, Held, Con!consents, Con!Empty,
                                            Exchanged, Con!Stages
      <4>3. Pending(a) => Pending(a)'
        BY <3>1, <3>2, <3>15, <4>1, PendingKept
      <4>4. Progress(s) => Progress(s)'
        BY <3>1, <3>2, <4>1, <4>3 DEF Progress
      <4> QED BY <3>2, <3>4, <4>1, <4>2, <4>4, StepKeepsSnapInv
    <3>8. CASE Con!DeletePages(s)
      <4>1. /\ pages' = Con!Empty /\ Con!To(s, "insKw") /\ sync[s].pc = "delPages"
            /\ doomed' \subseteq doomed \cup {"pages"}
            /\ UNCHANGED <<conn, kw, Con!consents, faults, overlapped, cut, latest>>
            /\ InSync(s) /\ "insKw" \in Con!Stages
        BY <3>8 DEF Con!DeletePages, Con!Condemn, InSync, Con!Syncing, Con!Stages
      <4>2. Con!TypeOK' /\ TokenInv'
        BY <2>0, <3>1, <3>2, <3>17, <4>1 DEF Con!TypeOK, Held, Con!consents, Con!Empty,
                                            Exchanged, Con!Stages
      <4>3. Pending(a) => Pending(a)'
        BY <3>1, <3>2, <3>15, <4>1, PendingKept
      <4>4. Progress(s) => Progress(s)'
        BY <3>1, <3>2, <4>1, <4>3 DEF Progress
      <4> QED BY <3>2, <3>4, <4>1, <4>2, <4>4, StepKeepsSnapInv
    <3>9. CASE Con!InsertKeywords(s)
      <4>1. /\ kw' = [kw EXCEPT ![a] = kw[a] + 1] /\ Con!To(s, "insPages") /\ sync[s].pc = "insKw"
            /\ UNCHANGED <<conn, pages, doomed, Con!consents, faults, overlapped, cut, latest>>
            /\ InSync(s) /\ "insPages" \in Con!Stages
        BY <3>9 DEF Con!InsertKeywords, Con!Mine, InSync, Con!Syncing, Con!Stages
      <4>2. Con!TypeOK' /\ TokenInv'
        BY <2>0, <3>1, <3>2, <3>17, <4>1 DEF Con!TypeOK, Held, Con!consents, Exchanged,
                                            Con!Stages
      <4>3. kw = Con!Empty => kw' = Once(a)
        BY <3>1, <4>1 DEF Con!Empty, Once
      <4>4. Pending(a) => Pending(a)'
        BY <3>1, <3>2, <3>15, <4>1, PendingKept
      <4>5. Progress(s) => Progress(s)'
        BY <3>1, <3>2, <4>1, <4>3, <4>4 DEF Progress
      <4> QED BY <3>2, <3>4, <4>1, <4>2, <4>5, StepKeepsSnapInv
    <3>10. CASE Con!InsertPages(s)
      <4>1. /\ pages' = [pages EXCEPT ![a] = pages[a] + 1] /\ Con!To(s, "done")
            /\ sync[s].pc = "insPages"
            /\ UNCHANGED <<conn, kw, doomed, Con!consents, faults, overlapped, cut, latest>>
            /\ InSync(s) /\ "done" \in Con!Stages
        BY <3>10 DEF Con!InsertPages, Con!Mine, InSync, Con!Syncing, Con!Stages
      <4>2. Con!TypeOK' /\ TokenInv'
        BY <2>0, <3>1, <3>2, <3>17, <4>1 DEF Con!TypeOK, Held, Con!consents, Exchanged,
                                            Con!Stages
      <4>3. pages = Con!Empty => pages' = Once(a)
        BY <3>1, <4>1 DEF Con!Empty, Once
      <4>4. Pending(a) => Pending(a)'
        BY <3>1, <3>2, <3>15, <4>1, PendingKept
      <4>5. Progress(s) => Progress(s)'
        BY <3>1, <3>2, <4>1, <4>3, <4>4 DEF Progress
      <4> QED BY <3>2, <3>4, <4>1, <4>2, <4>5, StepKeepsSnapInv
    <3>11. CASE Con!MarkSynced(s)
      <4> DEFINE cn == [conn[a] EXCEPT !.error = FALSE]
      <4>1. /\ Con!Update(s, cn) /\ sync' = [sync EXCEPT ![s] = Con!NoSync] /\ sync[s].pc = "done"
            /\ UNCHANGED <<Con!tables, Con!consents, faults, overlapped, cut, latest>>
            /\ InSync(s)
        BY <3>11 DEF Con!MarkSynced, Con!Mine, InSync, Con!Syncing, Con!Stages
      <4>2. conn[a] # None => cn \in Con!Connection /\ cn.id = conn[a].id
                              /\ cn.refresh = conn[a].refresh
        BY <2>0, <3>1 DEF Con!TypeOK, Con!Connection
      <4> HIDE DEF cn
      <4>3. /\ conn' \in [Accounts -> Con!Connection \cup {None}]
            /\ \A b \in Accounts : /\ conn'[b] = None <=> conn[b] = None
                                   /\ conn[b] # None => conn'[b].refresh = conn[b].refresh
        BY <2>0, <4>1, <4>2, UpdateKeeps
      <4>4. Con!TypeOK' /\ TokenInv'
        BY <2>0, <3>3, <3>17, <4>1, <4>3 DEF Con!TypeOK, Held, Con!tables, Con!consents
      <4>5. ~overlapped /\ ~cut => Sound'
        BY <3>4, <4>1 DEF Progress, Good, Sound, Con!tables
      <4> QED BY <3>3, <4>1, <4>4, <4>5, StepKeepsSnapInv
    <3>12. CASE Con!Throw(s)
      <4>1. /\ Con!To(s, "error") /\ UNCHANGED <<conn, Con!tables, Con!consents, overlapped, cut, latest>>
            /\ faults' \in 0..MaxFaults /\ InSync(s) /\ "error" \in Con!Stages
        BY <2>0, <3>12 DEF Con!Throw, Con!TypeOK, InSync, Con!Syncing, Con!Stages
      <4>2. Con!TypeOK' /\ TokenInv'
        BY <2>0, <3>2, <3>17, <4>1 DEF Con!TypeOK, Held, Con!tables, Con!consents, Exchanged,
                                      Con!Stages
      <4>3. \A b \in Accounts : /\ conn'[b] = None <=> conn[b] = None
                                /\ conn[b] # None => /\ conn'[b].id = conn[b].id
                                                     /\ conn'[b].error = conn[b].error
        BY <4>1
      <4>4. /\ Pending(a) => Pending(a)'
            /\ latest # None /\ Sound => Sound'
        BY <3>1, <3>2, <3>16, <4>1, <4>3 DEF Con!tables
      <4>5. Progress(s) => Progress(s)'
        BY <3>2, <4>1, <4>4 DEF Progress, InSync, Con!Syncing, Con!Stages
      <4> QED BY <3>2, <3>4, <4>1, <4>2, <4>5, StepKeepsSnapInv
    <3>13. CASE Con!MarkError(s)
      <4> DEFINE cn == [conn[a] EXCEPT !.error = TRUE]
      <4>1. /\ Con!Update(s, cn) /\ sync' = [sync EXCEPT ![s] = Con!NoSync] /\ sync[s].pc = "error"
            /\ UNCHANGED <<Con!tables, Con!consents, faults, overlapped, cut, latest>>
            /\ InSync(s)
        BY <3>13 DEF Con!MarkError, Con!Mine, InSync, Con!Syncing, Con!Stages
      <4>2. conn[a] # None => cn \in Con!Connection /\ cn.id = conn[a].id
                              /\ cn.refresh = conn[a].refresh /\ cn.error
        BY <2>0, <3>1 DEF Con!TypeOK, Con!Connection
      <4> HIDE DEF cn
      <4>3. /\ conn' \in [Accounts -> Con!Connection \cup {None}]
            /\ \A b \in Accounts : /\ conn'[b] = None <=> conn[b] = None
                                   /\ conn[b] # None => /\ conn'[b].id = conn[b].id
                                                        /\ conn'[b].refresh = conn[b].refresh
                                   /\ b # a => conn'[b] = conn[b]
            /\ conn[a] # None /\ conn[a].id = sync[s].conn.id => conn'[a] = cn
        BY <2>0, <4>1, <4>2, UpdateKeeps
      <4>4. Con!TypeOK' /\ TokenInv'
        BY <2>0, <3>3, <3>17, <4>1, <4>3 DEF Con!TypeOK, Held, Con!tables, Con!consents
      <4>5. \A b \in Accounts : Pending(b) => Pending(b)'
        BY <3>3, <3>15, <4>1, <4>3, PendingKept
      <4>6. ~overlapped /\ ~cut /\ latest' # None => Sound'
        <5> SUFFICES ASSUME ~overlapped, ~cut, latest # None PROVE Sound'
          BY <4>1
        <5>1. latest \in Accounts /\ (latest = a \/ Sound)
              /\ (conn[a] = None \/ conn[a].id = sync[s].conn.id \/ Pending(a))
          BY <2>0, <3>4, <4>1 DEF Progress, Con!TypeOK
        <5>2. CASE latest = a
          BY <4>1, <4>2, <4>3, <4>5, <5>1, <5>2, <3>1 DEF Good, Sound
        <5>3. CASE latest # a
          BY <4>1, <4>3, <4>5, <5>1, <5>3 DEF Good, Sound, Con!tables
        <5> QED BY <5>2, <5>3
      <4> QED BY <3>3, <4>1, <4>4, <4>6, StepKeepsSnapInv
    <3>14. CASE Con!Dies(s)
      <4>1. cut' = TRUE /\ sync' = [sync EXCEPT ![s] = Con!NoSync] /\ faults' \in 0..MaxFaults
            /\ UNCHANGED <<conn, Con!tables, Con!consents, overlapped, latest>>
        BY <2>0, <3>14 DEF Con!Dies, Con!TypeOK
      <4>2. cut' \in BOOLEAN
        BY <4>1
      <4>3. Con!TypeOK'
        BY <2>0, <3>3, <4>1, <4>2 DEF Con!TypeOK, Held, Con!tables, Con!consents
      <4>4. TokenInv'
        BY <2>0, <3>3, <4>1, TokensKept DEF Exchanged
      <4> QED BY <4>1, <4>3, <4>4 DEF SnapInv, ProgressInv
    <3> QED BY <2>11, <3>5, <3>6, <3>7, <3>8, <3>9, <3>10, <3>11, <3>12, <3>13,
          <3>14 DEF Con!SyncStep
  <2> QED BY <2>1, <2>4, <2>5, <2>6, <2>7, <2>8, <2>9, <2>10, <2>11 DEF Con!Next
<1> QED BY <1>1, <1>2, PTL DEF Con!Spec

\* The stored refresh token is the newest that was ever stored for the account,
\* unless two of its callbacks were under way at once and none has come alone
\* since (RefreshTokenIsNewest).
THEOREM ConnectionsRefreshToken ==
  Con!Spec => []Con!RefreshTokenIsNewest
<1> USE NoneIsNothing, BoundsAreNumbers
<1>1. SnapInv => Con!RefreshTokenIsNewest
  BY DEF SnapInv, TokenInv
<1> QED BY <1>1, SnapshotInvariant, PTL

\* When nothing is syncing or about to, the snapshot is whole, but for rows
\* that ClickHouse is still to delete, or marked as not, unless syncs
\* overlapped or one was cut off or never started (SnapshotIsWhole).
THEOREM ConnectionsSnapshotIsWhole ==
  Con!Spec => []Con!SnapshotIsWhole
<1> USE NoneIsNothing, BoundsAreNumbers
<1>1. SnapInv => Con!SnapshotIsWhole
  <2> SUFFICES ASSUME SnapInv, ~overlapped, ~cut, Con!Resting,
                      conn[latest] # None, ~conn[latest].error
               PROVE  Con!WholeSnapshot
    BY DEF Con!SnapshotIsWhole
  <2>1. latest # None /\ \A s \in Syncs : ~InSync(s) /\ sync[s].pc # "upserted"
    BY DEF Con!Resting, InSync, Con!Syncing, Con!Stages
  <2>2. kw = Once(latest) /\ pages = Once(latest)
    BY <2>1 DEF SnapInv, ProgressInv, Sound, Good, Pending
  <2> QED BY <2>2 DEF Once, Con!WholeSnapshot
<1> QED BY <1>1, SnapshotInvariant, PTL

-----------------------------------------------------------------------------
(***************************************************************************)
(* BlogEditor.                                                             *)
(***************************************************************************)

\* A save, as the editor remembers it.
Saves == [version : Nat, request : {"sent", "landed", "gone"}, open : BOOLEAN]

\* As long as nobody hurries, one save at most is under way: the latest, of
\* what is on screen.  What the table lacks shows as Unsaved.
CalmInv ==
  /\ draft \in Nat /\ sent \in Seq(Saves)
  /\ ~hurried =>
       /\ \A n \in Edi!UnderWay :
            /\ n = Len(sent) /\ sent[n].version = draft
            /\ sent[n].request = "landed" => stored = draft
       /\ ~dirty => stored = draft

\* A call of mutate.
LEMMA MutateKeepsCalm ==
  ASSUME CalmInv, Edi!Mutate, UNCHANGED <<draft, dirty, stored>>
  PROVE  CalmInv'
<1> DEFINE new == [version |-> draft, request |-> "sent", open |-> TRUE]
<1>1. new \in Saves /\ sent \in Seq(Saves) /\ sent' = Append(sent, new)
  BY DEF CalmInv, Edi!Mutate, Saves
<1>2. /\ sent' \in Seq(Saves) /\ Len(sent') = Len(sent) + 1 /\ Len(sent) \in Nat
      /\ DOMAIN sent = 1..Len(sent) /\ DOMAIN sent' = 1..(Len(sent) + 1)
      /\ sent'[Len(sent) + 1] = new
      /\ \A n \in 1..Len(sent) : sent'[n] = sent[n]
  BY <1>1
<1>3. ~hurried' => ~hurried /\ Edi!UnderWay = {}
  BY DEF Edi!Mutate
<1>4. ~hurried' => \A n \in Edi!UnderWay' : n = Len(sent) + 1
  BY <1>2, <1>3 DEF Edi!UnderWay
<1> QED BY <1>2, <1>3, <1>4 DEF CalmInv

\* What becomes of the save n: it keeps its version, and is no more under way
\* than it was.
LEMMA OneSaveChanges ==
  ASSUME CalmInv, NEW n \in DOMAIN sent, NEW c \in Saves, c.version = sent[n].version,
         sent' = [sent EXCEPT ![n] = c]
  PROVE  /\ sent' \in Seq(Saves) /\ Len(sent') = Len(sent) /\ DOMAIN sent' = DOMAIN sent
         /\ sent'[n] = c /\ \A m \in DOMAIN sent \ {n} : sent'[m] = sent[m]
         /\ \A m \in DOMAIN sent : m # n => (m \in Edi!UnderWay' <=> m \in Edi!UnderWay)
         /\ n \in Edi!UnderWay' <=> c.open \/ c.request = "sent"
         /\ Edi!UnderWay' \subseteq DOMAIN sent
         /\ n \in Edi!UnderWay <=> sent[n].open \/ sent[n].request = "sent"
<1>1. sent \in Seq(Saves)
  BY DEF CalmInv
<1>2. /\ sent' \in Seq(Saves) /\ Len(sent') = Len(sent) /\ DOMAIN sent' = DOMAIN sent
      /\ sent'[n] = c /\ \A m \in DOMAIN sent \ {n} : sent'[m] = sent[m]
  BY <1>1
<1> QED BY <1>2 DEF Edi!UnderWay

\* CalmInv holds in every state.
THEOREM CalmInvariant == Edi!Spec => []CalmInv
<1>1. Edi!Init => CalmInv
  BY DEF Edi!Init, CalmInv, Edi!UnderWay
<1>2. CalmInv /\ [Edi!Next]_(Edi!vars) => CalmInv'
  <2> SUFFICES ASSUME CalmInv, [Edi!Next]_(Edi!vars) PROVE CalmInv'
    OBVIOUS
  <2>1. CASE Edi!Edit
    <3>1. /\ draft' = draft + 1 /\ dirty' = TRUE /\ UNCHANGED <<sent, stored>>
          /\ hurried' = (hurried \/ Edi!UnderWay # {})
      BY <2>1 DEF Edi!Edit
    <3>2. Edi!UnderWay' = Edi!UnderWay
      BY <3>1 DEF Edi!UnderWay
    <3>3. /\ ~hurried' => ~hurried /\ Edi!UnderWay = {}
          /\ dirty'
      BY <3>1
    <3> QED BY <3>1, <3>2, <3>3 DEF CalmInv
  <2>2. CASE Edi!Autosave \/ Edi!PressSave
    <3>1. Edi!Mutate /\ UNCHANGED <<draft, dirty, stored>>
      BY <2>2 DEF Edi!Autosave, Edi!PressSave
    <3> QED BY <3>1, MutateKeepsCalm
  <2>3. ASSUME NEW n \in DOMAIN sent, Edi!Apply(n) \/ Edi!Answer(n) \/ Edi!Fail(n)
        PROVE  CalmInv'
    <3>0. sent[n] \in Saves /\ n \in 1..Len(sent) /\ Len(sent) \in Nat
      BY DEF CalmInv
    <3>1. CASE Edi!Apply(n)
      <4> DEFINE c == [sent[n] EXCEPT !.request = "landed"]
      <4>1. /\ c \in Saves /\ c.version = sent[n].version /\ c.open = sent[n].open
            /\ c.request = "landed"
        BY <3>0 DEF Saves
      <4>2. /\ sent' = [sent EXCEPT ![n] = c] /\ stored' = sent[n].version
            /\ sent[n].request = "sent" /\ UNCHANGED <<draft, dirty, hurried>>
        BY <3>1 DEF Edi!Apply
      <4> HIDE DEF c
      <4> QED BY <4>1, <4>2, OneSaveChanges DEF CalmInv
    <3>2. CASE Edi!Answer(n)
      <4> DEFINE c == [sent[n] EXCEPT !.open = FALSE]
      <4>1. /\ c \in Saves /\ c.version = sent[n].version /\ c.open = FALSE
            /\ c.request = sent[n].request
        BY <3>0 DEF Saves
      <4>2. /\ sent' = [sent EXCEPT ![n] = c] /\ sent[n].open /\ sent[n].request = "landed"
            /\ UNCHANGED <<draft, stored, hurried>>
            /\ dirty' = FALSE \/ dirty' = dirty
        BY <3>2 DEF Edi!Answer
      <4> HIDE DEF c
      <4>3. n \in Edi!UnderWay
        BY <4>1, <4>2, OneSaveChanges
      <4>4. ~hurried => stored = draft
        BY <4>2, <4>3 DEF CalmInv
      <4> QED BY <4>1, <4>2, <4>4, OneSaveChanges DEF CalmInv
    <3>3. CASE Edi!Fail(n)
      <4>1. PICK r \in {sent[n].request, IF sent[n].request = "sent" THEN "gone" ELSE "landed"} :
              sent' = [sent EXCEPT ![n].open = FALSE, ![n].request = r]
        BY <3>3 DEF Edi!Fail
      <4>2. sent[n].open /\ UNCHANGED <<draft, dirty, stored, hurried>>
        BY <3>3 DEF Edi!Fail
      <4> DEFINE c == [sent[n] EXCEPT !.open = FALSE, !.request = r]
      <4>3. sent' = [sent EXCEPT ![n] = c]
        BY <4>1
      <4>4. /\ c \in Saves /\ c.version = sent[n].version /\ c.open = FALSE /\ c.request = r
            /\ r \in {"sent", "landed", "gone"}
            /\ r = "sent" => sent[n].request = "sent"
        BY <3>0, <4>1 DEF Saves
      <4> HIDE DEF c
      <4> QED BY <4>2, <4>3, <4>4, OneSaveChanges DEF CalmInv
    <3> QED BY <2>3, <3>1, <3>2, <3>3
  <2>4. CASE UNCHANGED Edi!vars
    BY <2>4 DEF CalmInv, Edi!UnderWay, Edi!vars
  <2> QED BY <2>1, <2>2, <2>3, <2>4 DEF Edi!Next
<1> QED BY <1>1, <1>2, PTL DEF Edi!Spec

\* CalmIsStored: an editor that shows neither Unsaved nor Saving has on screen
\* what is in the table, unless somebody typed or saved during a save, for any
\* number of edits, saves and failures.
THEOREM EditorCalmIsStored == Edi!Spec => []Edi!CalmIsStored
<1>1. CalmInv => Edi!CalmIsStored
  BY DEF CalmInv, Edi!CalmIsStored, Edi!SavedIsStored
<1> QED BY <1>1, CalmInvariant, PTL

-----------------------------------------------------------------------------
(***************************************************************************)
(* EventBus.                                                               *)
(***************************************************************************)

\* The messages of an event on their way to a process, and its command.
Messages(p, e) == {m \in channel : m[1] = p /\ m[2] = e}
Queued(e) == IF command[e] = "queued" THEN 1 ELSE 0

\* Who publishes an event: nobody, until somebody does.
Publication == [by : {None}, at : {"new"}] \cup [by : Processes, at : {"racing", "gaveup", "done"}]

BusTypes ==
  /\ room \in [Sockets -> Processes \cup {"new", "closed"}]
  /\ publisher \in [Events -> Publication]
  /\ command \in [Events -> {"none", "queued", "landed", "lost"}]
  /\ channel \subseteq Processes \X Events \X Nat
  /\ got \in [Sockets -> [Events -> Nat]]
  /\ faults \in Nat /\ again \in [Events -> Nat]
  /\ expecting \in [Events -> SUBSET Sockets]

\* An event that nobody has published is nowhere.
Unheard(e) ==
  /\ command[e] = "none" /\ again[e] = 0
  /\ \A p \in Processes : Messages(p, e) = {}
  /\ \A s \in Sockets : got[s][e] = 0

\* What a socket has been sent, what is on its way to it and what Redis may
\* yet pass on are no more than the broadcasts.
CountInv ==
  /\ \A e \in Events : publisher[e].at = "new" => Unheard(e)
  /\ \A p \in Processes, e \in Events :
       /\ IsFiniteSet(Messages(p, e))
       /\ Cardinality(Messages(p, e)) + Queued(e) <= 1 + again[e]
  /\ \A s \in Sockets, e \in Events :
       /\ room[s] = "new" => got[s][e] = 0
       /\ got[s][e] <= 1 + again[e]
       /\ \A p \in Processes : room[s] = p =>
            got[s][e] + Cardinality(Messages(p, e)) + Queued(e) <= 1 + again[e]

\* Whoever an event was broadcast to has it, or it is on its way, as long as
\* nothing has failed.
ReachInv ==
  faults = 0 =>
    \A e \in Events : \A s \in expecting[e] :
      /\ room[s] # "new"
      /\ \A p \in Processes : room[s] = p => got[s][e] > 0 \/ Messages(p, e) # {}

BusInv == BusTypes /\ CountInv /\ ReachInv

-----------------------------------------------------------------------------
\* Counts are numbers.
LEMMA CountsAreNat ==
  ASSUME BusInv, NEW p \in Processes, NEW e \in Events
  PROVE  Cardinality(Messages(p, e)) \in Nat /\ Queued(e) \in {0, 1} /\ again[e] \in Nat
BY FS_CardinalityType DEF BusInv, BusTypes, Publication, CountInv, Queued

\* Sockets come and go.
LEMMA RoomsKeepBusInv ==
  ASSUME BusInv,
         \/ \E s \in Sockets : Bus!Leave(s) \/ \E p \in Processes : Bus!Join(s, p)
         \/ \E p \in Processes : Bus!Subscribed(p) \/ Bus!SubscribeFails(p)
  PROVE  BusInv'
<1>1. UNCHANGED <<publisher, command, channel, got, again, expecting>>
  BY DEF Bus!Leave, Bus!Join, Bus!Subscribed, Bus!SubscribeFails
<1>2. \A p, e : Messages(p, e)' = Messages(p, e) /\ Queued(e)' = Queued(e)
  BY <1>1 DEF Messages, Queued
<1>3. \A e : Unheard(e)' = Unheard(e)
  BY <1>1 DEF Unheard, Messages
<1>4. CASE \E s \in Sockets : Bus!Leave(s)
  <2>1. PICK s \in Sockets : room' = [room EXCEPT ![s] = "closed"] /\ faults' = faults
                             /\ room[s] \in Processes
    BY <1>4 DEF Bus!Leave
  <2>2. BusTypes'
    BY <1>1, <2>1 DEF BusInv, BusTypes, Publication
  <2>3. room'[s] = "closed" /\ \A t \in Sockets \ {s} : room'[t] = room[t]
    BY <2>1 DEF BusInv, BusTypes, Publication
  <2>4. CountInv'
    BY <1>1, <1>2, <1>3, <2>3, RoomsAreProcesses DEF BusInv, CountInv
  <2>5. ReachInv'
    BY <1>1, <1>2, <2>1, <2>3, RoomsAreProcesses DEF BusInv, BusTypes, Publication, ReachInv
  <2> QED BY <2>2, <2>4, <2>5 DEF BusInv
<1>5. CASE \E s \in Sockets, p \in Processes : Bus!Join(s, p)
  <2>1. PICK s \in Sockets, p \in Processes :
          room' = [room EXCEPT ![s] = p] /\ faults' = faults /\ room[s] = "new"
    BY <1>5 DEF Bus!Join
  <2>2. BusTypes'
    BY <1>1, <2>1 DEF BusInv, BusTypes, Publication
  <2>3. room'[s] = p /\ \A t \in Sockets \ {s} : room'[t] = room[t]
    BY <2>1 DEF BusInv, BusTypes, Publication
  <2>4. \A e \in Events : got[s][e] = 0
    BY <2>1 DEF BusInv, CountInv
  <2>5. \A e \in Events : 0 + Cardinality(Messages(p, e)) + Queued(e) <= 1 + again[e]
    BY CountsAreNat DEF BusInv, CountInv
  <2>6. CountInv'
    BY <1>1, <1>2, <1>3, <2>3, <2>4, <2>5, RoomsAreProcesses DEF BusInv, CountInv
  <2>7. ReachInv'
    BY <1>1, <1>2, <2>1, <2>3, RoomsAreProcesses DEF BusInv, BusTypes, Publication, ReachInv
  <2> QED BY <2>2, <2>6, <2>7 DEF BusInv
<1>6. CASE \E p \in Processes : Bus!Subscribed(p) \/ Bus!SubscribeFails(p)
  <2>1. room' = room /\ (faults' = faults \/ faults' = faults + 1)
    BY <1>6 DEF Bus!Subscribed, Bus!SubscribeFails
  <2>2. BusTypes' /\ (faults' = 0 => faults = 0)
    BY <1>1, <2>1 DEF BusInv, BusTypes, Publication
  <2>3. CountInv'
    BY <1>1, <1>2, <1>3, <2>1 DEF BusInv, CountInv
  <2>4. ReachInv'
    BY <1>1, <1>2, <2>1, <2>2 DEF BusInv, ReachInv
  <2> QED BY <2>2, <2>3, <2>4 DEF BusInv
<1> QED BY <1>4, <1>5, <1>6

\* publishLocal sends the event to the room.
LEMMA LocalCounts ==
  ASSUME BusTypes, NEW p, NEW e \in Events, Bus!publishLocal(p, e)
  PROVE  /\ got' \in [Sockets -> [Events -> Nat]]
         /\ \A s \in Sockets, d \in Events :
              got'[s][d] = IF room[s] = p /\ d = e THEN got[s][d] + 1 ELSE got[s][d]
<1>1. got \in [Sockets -> [Events -> Nat]]
  BY DEF BusTypes
<1>2. ASSUME NEW s \in Sockets
      PROVE  /\ got'[s] \in [Events -> Nat]
             /\ \A d \in Events :
                  got'[s][d] = IF room[s] = p /\ d = e THEN got[s][d] + 1 ELSE got[s][d]
  <2>1. got'[s] = IF room[s] = p THEN [got[s] EXCEPT ![e] = got[s][e] + 1] ELSE got[s]
    BY DEF Bus!publishLocal
  <2>2. got[s] \in [Events -> Nat] /\ got[s][e] + 1 \in Nat
    BY <1>1
  <2> QED BY <2>1, <2>2
<1>3. got' = [s \in Sockets |-> got'[s]]
  BY DEF Bus!publishLocal
<1> QED BY <1>2, <1>3

\* publish, until Redis has answered or has not.
LEMMA PublishKeepsBusInv ==
  ASSUME BusInv, NEW e \in Events,
         (\E p \in Processes : Bus!Publish(p, e)) \/ Bus!Answered(e) \/ Bus!Resend(e)
  PROVE  BusInv'
<1>1. UNCHANGED <<room, channel, got, expecting>>
  BY DEF Bus!Publish, Bus!Answered, Bus!Resend
<1>2. \A p, d : Messages(p, d)' = Messages(p, d)
  BY <1>1 DEF Messages
<1>3. CASE \E p \in Processes : Bus!Publish(p, e)
  <2>1. PICK p \in Processes :
          /\ publisher[e].at = "new"
          /\ publisher' = [publisher EXCEPT ![e] = [by |-> p, at |-> "racing"]]
          /\ command' = [command EXCEPT ![e] = "queued"]
          /\ UNCHANGED <<faults, again>>
    BY <1>3 DEF Bus!Publish
  <2>2. BusTypes'
    BY <1>1, <2>1 DEF BusInv, BusTypes, Publication
  <2>3. /\ publisher'[e].at = "racing" /\ command'[e] = "queued"
        /\ \A d \in Events \ {e} : publisher'[d] = publisher[d] /\ command'[d] = command[d]
    BY <2>1 DEF BusInv, BusTypes, Publication
  <2>4. /\ Queued(e)' = 1 /\ again[e] = 0
        /\ \A q \in Processes : Messages(q, e) = {} /\ Cardinality(Messages(q, e)) = 0
        /\ \A s \in Sockets : got[s][e] = 0
    BY <2>1, <2>3, FS_EmptySet DEF BusInv, CountInv, Unheard, Queued
  <2>5. \A d \in Events \ {e} : Queued(d)' = Queued(d) /\ Unheard(d)' = Unheard(d)
    BY <1>1, <1>2, <2>1, <2>3 DEF Queued, Unheard
  <2>6. CountInv'
    BY <1>1, <1>2, <2>1, <2>3, <2>4, <2>5, RoomsAreProcesses DEF BusInv, CountInv
  <2>7. ReachInv'
    BY <1>1, <1>2, <2>1 DEF BusInv, ReachInv
  <2> QED BY <2>2, <2>6, <2>7 DEF BusInv
<1>4. CASE Bus!Answered(e)
  <2>1. /\ publisher[e].at = "racing" /\ UNCHANGED <<command, faults, again>>
        /\ publisher' = [publisher EXCEPT ![e].at = "done"]
    BY <1>4 DEF Bus!Answered
  <2>2. BusTypes'
    BY <1>1, <2>1 DEF BusInv, BusTypes, Publication
  <2>3. publisher'[e].at = "done" /\ \A d \in Events \ {e} : publisher'[d] = publisher[d]
    BY <2>1 DEF BusInv, BusTypes, Publication
  <2>4. \A d : Queued(d)' = Queued(d) /\ Unheard(d)' = Unheard(d)
    BY <1>1, <1>2, <2>1 DEF Queued, Unheard
  <2>5. CountInv'
    BY <1>1, <1>2, <2>1, <2>3, <2>4 DEF BusInv, CountInv
  <2>6. ReachInv'
    BY <1>1, <1>2, <2>1 DEF BusInv, ReachInv
  <2> QED BY <2>2, <2>5, <2>6 DEF BusInv
<1>5. CASE Bus!Resend(e)
  <2>1. /\ publisher[e].at \in {"racing", "gaveup"} /\ command[e] = "landed" /\ publisher' = publisher
        /\ command' = [command EXCEPT ![e] = "queued"]
        /\ again' = [again EXCEPT ![e] = again[e] + 1] /\ faults' = faults + 1
    BY <1>5 DEF Bus!Resend
  <2>2. BusTypes' /\ faults' # 0
    BY <1>1, <2>1 DEF BusInv, BusTypes, Publication
  <2>3. /\ command'[e] = "queued" /\ again'[e] = again[e] + 1
        /\ \A d \in Events \ {e} : again'[d] = again[d] /\ command'[d] = command[d]
    BY <2>1 DEF BusInv, BusTypes, Publication
  <2>4. /\ Queued(e)' = 1 /\ Queued(e) = 0
        /\ \A d \in Events \ {e} : Queued(d)' = Queued(d) /\ Unheard(d)' = Unheard(d)
    BY <1>1, <1>2, <2>1, <2>3 DEF Queued, Unheard
  <2>5. \A p \in Processes, d \in Events :
          /\ IsFiniteSet(Messages(p, d))
          /\ Cardinality(Messages(p, d)) \in Nat /\ again[d] \in Nat /\ Queued(d) \in Nat
    BY CountsAreNat DEF BusInv, CountInv
  <2>6. \A s \in Sockets, d \in Events : got[s][d] \in Nat
    BY DEF BusInv, BusTypes, Publication
  <2>7. CountInv'
    <3>1. \A d \in Events : publisher'[d].at = "new" => Unheard(d)'
      BY <2>1, <2>4 DEF BusInv, CountInv
    <3>2. \A p \in Processes, d \in Events :
            /\ IsFiniteSet(Messages(p, d)')
            /\ Cardinality(Messages(p, d))' + Queued(d)' <= 1 + again'[d]
      BY <1>2, <2>3, <2>4, <2>5 DEF BusInv, CountInv
    <3>3. ASSUME NEW s \in Sockets, NEW d \in Events
          PROVE  /\ room[s] = "new" => got[s][d] = 0
                 /\ got[s][d] <= 1 + again'[d]
                 /\ \A p \in Processes : room[s] = p =>
                      got[s][d] + Cardinality(Messages(p, d)) + Queued(d)' <= 1 + again'[d]
      <4>1. /\ room[s] = "new" => got[s][d] = 0
            /\ got[s][d] <= 1 + again[d]
            /\ \A p \in Processes : room[s] = p =>
                 got[s][d] + Cardinality(Messages(p, d)) + Queued(d) <= 1 + again[d]
        BY DEF BusInv, CountInv
      <4>2. \/ again'[d] = again[d] + 1 /\ Queued(d)' = 1 /\ Queued(d) = 0
            \/ again'[d] = again[d] /\ Queued(d)' = Queued(d)
        <5>1. CASE d = e
          BY <2>3, <2>4, <5>1
        <5>2. CASE d # e
          BY <2>3, <2>4, <5>2
        <5> QED BY <5>1, <5>2
      <4>3. got[s][d] \in Nat /\ again[d] \in Nat /\ Queued(d) \in Nat
        BY <2>6, CountsAreNat DEF BusInv, BusTypes, Publication, Queued
      <4>4. ASSUME NEW p \in Processes, room[s] = p
            PROVE  got[s][d] + Cardinality(Messages(p, d)) + Queued(d)' <= 1 + again'[d]
        <5>1. got[s][d] + Cardinality(Messages(p, d)) + Queued(d) <= 1 + again[d]
              /\ Cardinality(Messages(p, d)) \in Nat
          BY <2>5, <4>1, <4>4
        <5> QED BY <4>2, <4>3, <5>1
      <4> QED BY <4>1, <4>2, <4>3, <4>4
    <3> QED BY <1>1, <1>2, <3>1, <3>2, <3>3 DEF CountInv
  <2>8. ReachInv'
    BY <2>2 DEF ReachInv
  <2> QED BY <2>2, <2>7, <2>8 DEF BusInv
<1> QED BY <1>3, <1>4, <1>5

\* Redis passes an event on.
LEMMA LandKeepsBusInv ==
  ASSUME BusInv, NEW e \in Events, Bus!Land(e)
  PROVE  BusInv'
<1> DEFINE Ready == {q \in Processes : subscriber[q] = "ready"}
<1>1. /\ command[e] = "queued" /\ command' = [command EXCEPT ![e] = "landed"]
      /\ channel' = channel \cup {<<p, e, again[e]>> : p \in Ready}
      /\ expecting' = [expecting EXCEPT ![e] =
           expecting[e] \cup UNION {Bus!InRoom(p) : p \in Ready}]
      /\ UNCHANGED <<room, publisher, got, faults, again>>
  BY DEF Bus!Land
<1>2. BusTypes'
  <2>1. {<<p, e, again[e]>> : p \in Ready} \subseteq Processes \X Events \X Nat
    BY DEF BusInv, BusTypes, Publication
  <2>2. UNION {Bus!InRoom(p) : p \in Ready} \subseteq Sockets
    BY DEF Bus!InRoom
  <2>3. channel' \subseteq Processes \X Events \X Nat
    BY <1>1, <2>1 DEF BusInv, BusTypes, Publication
  <2>4. expecting' \in [Events -> SUBSET Sockets]
    BY <1>1, <2>2 DEF BusInv, BusTypes, Publication
  <2> QED BY <1>1, <2>3, <2>4 DEF BusInv, BusTypes, Publication
<1>3. /\ Queued(e)' = 0 /\ Queued(e) = 1
      /\ \A d \in Events \ {e} : Queued(d)' = Queued(d)
  BY <1>1 DEF BusInv, BusTypes, Publication, Queued
<1>4. \A p \in Processes, d \in Events \ {e} : Messages(p, d)' = Messages(p, d)
  BY <1>1 DEF Messages
<1>5. \A p \in Processes :
        /\ Messages(p, e) \subseteq Messages(p, e)'
        /\ Messages(p, e)' \subseteq Messages(p, e) \cup {<<p, e, again[e]>>}
        /\ p \in Ready => <<p, e, again[e]>> \in Messages(p, e)'
  BY <1>1 DEF Messages
<1>6. ASSUME NEW p \in Processes
      PROVE  /\ IsFiniteSet(Messages(p, e)') /\ Cardinality(Messages(p, e)') \in Nat
             /\ Cardinality(Messages(p, e)') <= Cardinality(Messages(p, e)) + 1
  <2>1. IsFiniteSet(Messages(p, e))
    BY DEF BusInv, CountInv
  <2> DEFINE more == Messages(p, e) \cup {<<p, e, again[e]>>}
  <2>2. IsFiniteSet(more)
        /\ (Cardinality(more) = Cardinality(Messages(p, e))
            \/ Cardinality(more) = Cardinality(Messages(p, e)) + 1)
    BY <2>1, FS_AddElement
  <2>3. Cardinality(Messages(p, e)) \in Nat
    BY <2>1, FS_CardinalityType
  <2>4. Cardinality(more) \in Nat
    BY <2>2, FS_CardinalityType
  <2>5. Cardinality(more) <= Cardinality(Messages(p, e)) + 1
    <3> HIDE DEF more
    <3> QED BY <2>2, <2>3, <2>4
  <2>6. Messages(p, e)' \subseteq more
    BY <1>5
  <2>7. /\ IsFiniteSet(Messages(p, e)')
        /\ Cardinality(Messages(p, e)') <= Cardinality(more)
    BY <2>2, <2>6, FS_Subset
  <2>8. Cardinality(Messages(p, e)') \in Nat
    BY <2>7, FS_CardinalityType
  <2> HIDE DEF more
  <2> QED BY <2>3, <2>4, <2>5, <2>7, <2>8
<1>7. publisher[e].at # "new"
  BY <1>1 DEF BusInv, CountInv, Unheard
<1>8. \A d \in Events \ {e} : Unheard(d)' = Unheard(d)
  BY <1>1, <1>4 DEF BusInv, BusTypes, Publication, Unheard
<1>9. CountInv'
  <2>1. \A d \in Events : publisher'[d].at = "new" => Unheard(d)'
    BY <1>1, <1>7, <1>8 DEF BusInv, CountInv
  <2>2. ASSUME NEW p \in Processes, NEW d \in Events
        PROVE  /\ IsFiniteSet(Messages(p, d)')
               /\ Cardinality(Messages(p, d)') \in Nat
               /\ Cardinality(Messages(p, d)') + Queued(d)' <= Cardinality(Messages(p, d)) + Queued(d)
               /\ Cardinality(Messages(p, d)) \in Nat /\ Queued(d)' \in Nat /\ Queued(d) \in Nat
               /\ again[d] \in Nat
    <3>1. Cardinality(Messages(p, d)) \in Nat /\ again[d] \in Nat /\ Queued(d) \in Nat
          /\ IsFiniteSet(Messages(p, d))
      BY CountsAreNat DEF BusInv, CountInv
    <3>2. CASE d = e
      BY <1>3, <1>6, <3>1, <3>2
    <3>3. CASE d # e
      BY <1>3, <1>4, <3>1, <3>3
    <3> QED BY <3>2, <3>3
  <2>3. ASSUME NEW p \in Processes, NEW d \in Events
        PROVE  Cardinality(Messages(p, d)') + Queued(d)' <= 1 + again[d]
    <3>1. Cardinality(Messages(p, d)) + Queued(d) <= 1 + again[d]
      BY DEF BusInv, CountInv
    <3> QED BY <2>2, <3>1
  <2>4. ASSUME NEW s \in Sockets, NEW d \in Events, NEW p \in Processes, room[s] = p
        PROVE  got[s][d] + Cardinality(Messages(p, d)') + Queued(d)' <= 1 + again[d]
    <3>1. got[s][d] + Cardinality(Messages(p, d)) + Queued(d) <= 1 + again[d]
      BY <2>4 DEF BusInv, CountInv
    <3>2. got[s][d] \in Nat
      BY DEF BusInv, BusTypes, Publication
    <3> QED BY <2>2, <3>1, <3>2
  <2> QED BY <1>1, <2>1, <2>2, <2>3, <2>4 DEF BusInv, CountInv
<1>10. ReachInv'
  <2> SUFFICES ASSUME faults = 0, NEW d \in Events, NEW s \in expecting'[d]
               PROVE  /\ room[s] # "new"
                      /\ \A p \in Processes : room[s] = p => got[s][d] > 0 \/ Messages(p, d)' # {}
    BY <1>1 DEF ReachInv
  <2>1. CASE s \in expecting[d]
    <3>1. /\ room[s] # "new"
          /\ \A p \in Processes : room[s] = p => got[s][d] > 0 \/ Messages(p, d) # {}
      BY <2>1 DEF BusInv, ReachInv
    <3> QED BY <1>4, <1>5, <3>1
  <2>2. CASE s \notin expecting[d]
    <3>1. d = e /\ \E p \in Ready : room[s] = p
      BY <1>1, <2>2 DEF BusInv, BusTypes, Publication, Bus!InRoom
    <3> QED BY <1>5, <3>1, RoomsAreProcesses
  <2> QED BY <2>1, <2>2
<1> QED BY <1>2, <1>9, <1>10 DEF BusInv

\* An event goes to the sockets of process p, and a message of it is used up
\* or one more broadcast is counted.
LEMMA SendKeepsBusInv ==
  ASSUME BusInv, NEW p \in Processes, NEW e \in Events, Bus!publishLocal(p, e),
         UNCHANGED <<room, command, faults>>,
         publisher[e].at # "new",
         \A d \in Events : publisher'[d].at = "new" => publisher[d].at = "new",
         publisher' \in [Events -> Publication],
         channel' \subseteq channel, again' \in [Events -> Nat],
         \A d \in Events \ {e} : again'[d] = again[d],
         \A q \in Processes, d \in Events : q # p \/ d # e => Messages(q, d)' = Messages(q, d),
         \/ again'[e] = again[e] + 1 /\ Messages(p, e)' = Messages(p, e)
         \/ again'[e] = again[e] /\ \E m \in Messages(p, e) : Messages(p, e)' = Messages(p, e) \ {m},
         expecting' \in [Events -> SUBSET Sockets],
         \A d \in Events : \A s \in expecting'[d] :
           s \in expecting[d] \/ (d = e /\ room[s] = p)
  PROVE  BusInv'
<1>1. /\ got' \in [Sockets -> [Events -> Nat]]
      /\ \A s \in Sockets, d \in Events :
           got'[s][d] = IF room[s] = p /\ d = e THEN got[s][d] + 1 ELSE got[s][d]
  BY LocalCounts DEF BusInv
<1>2. BusTypes'
  BY <1>1 DEF BusInv, BusTypes, Publication
<1>3. \A d : Queued(d)' = Queued(d)
  BY DEF Queued
<1>4. \A q \in Processes, d \in Events :
        /\ IsFiniteSet(Messages(q, d)) /\ Cardinality(Messages(q, d)) \in Nat
        /\ Queued(d) \in Nat /\ again[d] \in Nat /\ again'[d] \in Nat
  <2>1. \A q \in Processes, d \in Events : IsFiniteSet(Messages(q, d))
    BY DEF BusInv, CountInv
  <2>2. \A q \in Processes, d \in Events :
          Cardinality(Messages(q, d)) \in Nat /\ Queued(d) \in {0, 1} /\ again[d] \in Nat
    BY CountsAreNat
  <2>3. \A d \in Events : again'[d] \in Nat
    OBVIOUS
  <2> QED BY <2>1, <2>2, <2>3
<1>5. /\ IsFiniteSet(Messages(p, e)')
      /\ Cardinality(Messages(p, e)') \in Nat
      /\ \/ again'[e] = again[e] + 1 /\ Cardinality(Messages(p, e)') = Cardinality(Messages(p, e))
         \/ again'[e] = again[e] /\ Cardinality(Messages(p, e)') = Cardinality(Messages(p, e)) - 1
  BY <1>4, FS_RemoveElement, FS_CardinalityType
<1>6. \A d \in Events : publisher'[d].at = "new" => Unheard(d)'
  <2> SUFFICES ASSUME NEW d \in Events, publisher'[d].at = "new" PROVE Unheard(d)'
    OBVIOUS
  <2>1. d # e /\ Unheard(d)
    BY DEF BusInv, CountInv
  <2> QED BY <1>1, <2>1 DEF Unheard
<1>7. ASSUME NEW q \in Processes, NEW d \in Events
      PROVE  /\ IsFiniteSet(Messages(q, d)')
             /\ Cardinality(Messages(q, d)') + Queued(d)' <= 1 + again'[d]
  <2>1. Cardinality(Messages(q, d)) + Queued(d) <= 1 + again[d]
    BY DEF BusInv, CountInv
  <2>2. CASE q = p /\ d = e
    BY <1>3, <1>4, <1>5, <2>1, <2>2
  <2>3. CASE q # p /\ d = e
    <3>1. again'[e] >= again[e]
      BY <1>4, <1>5
    <3> QED BY <1>3, <1>4, <2>1, <2>3, <3>1
  <2>4. CASE d # e
    BY <1>3, <1>4, <2>1, <2>4
  <2> QED BY <2>2, <2>3, <2>4
<1>8. ASSUME NEW s \in Sockets, NEW d \in Events
      PROVE  /\ room[s] = "new" => got'[s][d] = 0
             /\ got'[s][d] <= 1 + again'[d]
             /\ \A q \in Processes : room[s] = q =>
                  got'[s][d] + Cardinality(Messages(q, d)') + Queued(d)' <= 1 + again'[d]
  <2>1. /\ room[s] = "new" => got[s][d] = 0
        /\ got[s][d] <= 1 + again[d]
        /\ \A q \in Processes : room[s] = q =>
             got[s][d] + Cardinality(Messages(q, d)) + Queued(d) <= 1 + again[d]
    BY DEF BusInv, CountInv
  <2>2. got[s][d] \in Nat
    BY DEF BusInv, BusTypes, Publication
  <2>3. CASE room[s] = p /\ d = e
    <3>1. got'[s][d] = got[s][d] + 1 /\ room[s] # "new"
      BY <1>1, <2>3, RoomsAreProcesses
    <3>2. got[s][e] + Cardinality(Messages(p, e)) + Queued(e) <= 1 + again[e]
      BY <2>1, <2>3
    <3>3. got'[s][d] + Cardinality(Messages(p, e)') + Queued(e)' <= 1 + again'[e]
      BY <1>3, <1>4, <1>5, <2>2, <2>3, <3>1, <3>2
    <3>4. got'[s][d] <= 1 + again'[d]
      BY <1>3, <1>4, <1>5, <2>2, <2>3, <3>1, <3>3
    <3> QED BY <2>3, <3>1, <3>3, <3>4
  <2>4. CASE ~(room[s] = p /\ d = e)
    <3>1. got'[s][d] = got[s][d] /\ again'[d] >= again[d]
      BY <1>1, <1>4, <1>5, <2>4
    <3>2. \A q \in Processes : room[s] = q => Messages(q, d)' = Messages(q, d)
      BY <2>4
    <3> QED BY <1>3, <1>4, <2>1, <2>2, <3>1, <3>2
  <2> QED BY <2>3, <2>4
<1>9. CountInv'
  BY <1>6, <1>7, <1>8 DEF CountInv
<1>10. ReachInv'
  <2> SUFFICES ASSUME faults = 0, NEW d \in Events, NEW s \in expecting'[d]
               PROVE  /\ room[s] # "new"
                      /\ \A q \in Processes : room[s] = q => got'[s][d] > 0 \/ Messages(q, d)' # {}
    BY DEF ReachInv
  <2>0. s \in Sockets /\ got[s][d] \in Nat
    BY DEF BusInv, BusTypes, Publication
  <2>1. CASE room[s] = p /\ d = e
    BY <1>1, <2>0, <2>1, RoomsAreProcesses
  <2>2. CASE ~(room[s] = p /\ d = e)
    <3>1. /\ room[s] # "new"
          /\ \A q \in Processes : room[s] = q => got[s][d] > 0 \/ Messages(q, d) # {}
      BY <2>2 DEF BusInv, ReachInv
    <3> QED BY <1>1, <2>0, <2>2, <3>1
  <2> QED BY <2>1, <2>2
<1> QED BY <1>2, <1>9, <1>10 DEF BusInv

\* A message comes.
LEMMA DeliverKeepsBusInv ==
  ASSUME BusInv, NEW m \in channel, Bus!Deliver(m)
  PROVE  BusInv'
<1> DEFINE p == m[1]
           e == m[2]
<1>1. /\ p \in Processes /\ e \in Events /\ m \in Messages(p, e)
  BY DEF BusInv, BusTypes, Publication, Messages
<1>2. /\ channel' = channel \ {m} /\ Bus!publishLocal(p, e)
      /\ UNCHANGED <<room, subscriber, publisher, command, faults, again, expecting>>
  BY DEF Bus!Deliver
<1>3. publisher[e].at # "new"
  BY <1>1 DEF BusInv, CountInv, Unheard
<1>4. /\ Messages(p, e)' = Messages(p, e) \ {m}
      /\ \A q \in Processes, d \in Events : q # p \/ d # e => Messages(q, d)' = Messages(q, d)
  BY <1>2 DEF Messages
<1>5. /\ publisher' \in [Events -> Publication]
      /\ again' \in [Events -> Nat] /\ expecting' \in [Events -> SUBSET Sockets]
  BY <1>2 DEF BusInv, BusTypes, Publication
<1> HIDE DEF p, e
<1> QED BY <1>1, <1>2, <1>3, <1>4, <1>5, SendKeepsBusInv

\* Nobody has answered in time.
LEMMA TimesOutKeepsBusInv ==
  ASSUME BusInv, NEW e \in Events, Bus!TimesOut(e)
  PROVE  BusInv'
<1>0. publisher[e].by \in Processes
  BY DEF Bus!TimesOut, BusInv, BusTypes, Publication
<1>1. PICK p \in Processes : p = publisher[e].by
  BY <1>0
<1>2. /\ publisher[e].at = "racing" /\ Bus!publishLocal(p, e)
      /\ publisher' = [publisher EXCEPT ![e].at = "gaveup"]
      /\ again' = [again EXCEPT ![e] = again[e] + 1]
      /\ expecting' = [expecting EXCEPT ![e] = expecting[e] \cup Bus!InRoom(p)]
      /\ UNCHANGED <<room, subscriber, command, channel, faults>>
  BY <1>1 DEF Bus!TimesOut
<1>3. /\ publisher' \in [Events -> Publication]
      /\ \A d \in Events : publisher'[d].at = "new" => publisher[d].at = "new"
  BY <1>2 DEF BusInv, BusTypes, Publication
<1>4. /\ again' \in [Events -> Nat] /\ again'[e] = again[e] + 1
      /\ \A d \in Events \ {e} : again'[d] = again[d]
  BY <1>2 DEF BusInv, BusTypes, Publication
<1>5. \A q, d : Messages(q, d)' = Messages(q, d)
  BY <1>2 DEF Messages
<1>6. /\ expecting' \in [Events -> SUBSET Sockets]
      /\ \A d \in Events : \A s \in expecting'[d] :
           s \in expecting[d] \/ (d = e /\ room[s] = p)
  BY <1>2 DEF BusInv, BusTypes, Publication, Bus!InRoom
<1> QED BY <1>2, <1>3, <1>4, <1>5, <1>6, SendKeepsBusInv

\* Messages are lost, with the process that waited for them or without it.
LEMMA LossKeepsBusInv ==
  ASSUME BusInv, NEW p \in Processes, Bus!Drop(p) \/ Bus!Die(p)
  PROVE  BusInv'
<1>1. /\ UNCHANGED <<got, again, expecting>> /\ faults' = faults + 1
      /\ channel' = {m \in channel : m[1] # p}
  BY DEF Bus!Drop, Bus!Die
<1>2. /\ room' \in [Sockets -> Processes \cup {"new", "closed"}]
      /\ \A s \in Sockets : room'[s] = room[s] \/ room'[s] = "closed"
  BY DEF Bus!Drop, Bus!Die, BusInv, BusTypes
<1>3. /\ command' \in [Events -> {"none", "queued", "landed", "lost"}]
      /\ \A d \in Events : command'[d] = command[d]
                         \/ (command'[d] = "lost" /\ publisher'[d].at = "done")
  <2>1. CASE Bus!Drop(p)
    BY <2>1 DEF Bus!Drop, BusInv, BusTypes
  <2>2. CASE Bus!Die(p)
    BY <2>2 DEF Bus!Die, BusInv, BusTypes, Publication
  <2> QED BY <2>1, <2>2
<1>4. /\ publisher' \in [Events -> Publication]
      /\ \A d \in Events : publisher'[d].at = "new" => publisher[d].at = "new"
  <2>1. CASE Bus!Drop(p)
    BY <2>1 DEF Bus!Drop, BusInv, BusTypes
  <2>2. CASE Bus!Die(p)
    <3>1. ASSUME NEW d \in Events
          PROVE  /\ publisher'[d] \in Publication
                 /\ publisher'[d].at = "new" => publisher[d].at = "new"
      BY <2>2 DEF Bus!Die, BusInv, BusTypes, Publication
    <3>2. publisher' = [d \in Events |-> publisher'[d]]
      BY <2>2 DEF Bus!Die
    <3> QED BY <3>1, <3>2
  <2> QED BY <2>1, <2>2
<1>5. BusTypes' /\ faults' # 0
  BY <1>1, <1>2, <1>3, <1>4 DEF BusInv, BusTypes
<1>6. \A q, d : Messages(q, d)' \subseteq Messages(q, d)
  BY <1>1 DEF Messages
<1>7. \A d \in Events : publisher'[d].at = "new" => Unheard(d)'
  BY <1>1, <1>3, <1>4, <1>6 DEF BusInv, CountInv, Unheard
<1>8. ASSUME NEW q \in Processes, NEW d \in Events
      PROVE  /\ IsFiniteSet(Messages(q, d)') /\ Cardinality(Messages(q, d)') \in Nat
             /\ Cardinality(Messages(q, d)) \in Nat
             /\ Cardinality(Messages(q, d)') <= Cardinality(Messages(q, d))
             /\ Queued(d)' \in Nat /\ Queued(d) \in Nat /\ Queued(d)' <= Queued(d)
  <2>1. IsFiniteSet(Messages(q, d)) /\ Cardinality(Messages(q, d)) \in Nat
    BY CountsAreNat DEF BusInv, CountInv
  <2>2. /\ IsFiniteSet(Messages(q, d)')
        /\ Cardinality(Messages(q, d)') <= Cardinality(Messages(q, d))
    BY <1>6, <2>1, FS_Subset
  <2>3. Cardinality(Messages(q, d)') \in Nat
    BY <2>2, FS_CardinalityType
  <2>4. Queued(d)' \in Nat /\ Queued(d) \in Nat /\ Queued(d)' <= Queued(d)
    BY <1>3 DEF Queued
  <2> QED BY <2>1, <2>2, <2>3, <2>4
<1>9. \A d \in Events : again[d] \in Nat /\ \A s \in Sockets : got[s][d] \in Nat
  BY DEF BusInv, BusTypes
<1>10. CountInv'
  <2>1. ASSUME NEW q \in Processes, NEW d \in Events
        PROVE  Cardinality(Messages(q, d)') + Queued(d)' <= 1 + again[d]
    <3>1. Cardinality(Messages(q, d)) + Queued(d) <= 1 + again[d]
      BY DEF BusInv, CountInv
    <3> QED BY <1>8, <1>9, <3>1
  <2>2. ASSUME NEW s \in Sockets, NEW d \in Events
        PROVE  /\ room'[s] = "new" => got[s][d] = 0
               /\ got[s][d] <= 1 + again[d]
    BY <1>2 DEF BusInv, CountInv
  <2>3. ASSUME NEW s \in Sockets, NEW d \in Events, NEW q \in Processes, room'[s] = q
        PROVE  got[s][d] + Cardinality(Messages(q, d)') + Queued(d)' <= 1 + again[d]
    <3>1. room[s] = q
      BY <1>2, <2>3, RoomsAreProcesses
    <3>2. got[s][d] + Cardinality(Messages(q, d)) + Queued(d) <= 1 + again[d]
      BY <3>1 DEF BusInv, CountInv
    <3> QED BY <1>8, <1>9, <3>2
  <2> QED BY <1>1, <1>7, <1>8, <2>1, <2>2, <2>3 DEF CountInv
<1>11. ReachInv'
  BY <1>5 DEF ReachInv
<1> QED BY <1>5, <1>10, <1>11 DEF BusInv

\* BusInv is an invariant of the bus.
THEOREM BusInvariant == Bus!Spec => []BusInv
<1>1. Bus!Init => BusInv
  <2> SUFFICES ASSUME Bus!Init PROVE BusInv
    OBVIOUS
  <2>1. BusTypes
    BY BoundsAreNumbers DEF Bus!Init, BusTypes, Publication
  <2>2. \A p, e : Messages(p, e) = {}
    BY DEF Bus!Init, Messages
  <2>3. \A e \in Events : again[e] = 0 /\ Queued(e) = 0 /\ \A s \in Sockets : got[s][e] = 0
    BY DEF Bus!Init, Queued
  <2>4. \A e \in Events : Unheard(e)
    BY <2>2, <2>3 DEF Bus!Init, Unheard
  <2>5. \A p, e : IsFiniteSet(Messages(p, e)) /\ Cardinality(Messages(p, e)) = 0
    BY <2>2, FS_EmptySet
  <2>6. CountInv
    BY <2>3, <2>4, <2>5 DEF CountInv
  <2>7. ReachInv
    BY DEF Bus!Init, ReachInv
  <2> QED BY <2>1, <2>6, <2>7 DEF BusInv
<1>2. BusInv /\ [Bus!Next]_Bus!vars => BusInv'
  <2> SUFFICES ASSUME BusInv, [Bus!Next]_Bus!vars PROVE BusInv'
    OBVIOUS
  <2>1. CASE UNCHANGED Bus!vars
    <3>1. UNCHANGED <<room, subscriber, publisher, command, channel, got, faults, again, expecting>>
      BY <2>1 DEF Bus!vars
    <3>2. \A p, e : Messages(p, e)' = Messages(p, e)
      BY <3>1 DEF Messages
    <3>3. \A e : Queued(e)' = Queued(e) /\ Unheard(e)' = Unheard(e)
      BY <3>1, <3>2 DEF Queued, Unheard
    <3>4. BusTypes' /\ CountInv'
      BY <3>1, <3>2, <3>3 DEF BusInv, BusTypes, CountInv
    <3>5. ReachInv'
      BY <3>1, <3>2 DEF BusInv, ReachInv
    <3> QED BY <3>4, <3>5 DEF BusInv
  <2>2. CASE \/ \E s \in Sockets : Bus!Leave(s) \/ \E p \in Processes : Bus!Join(s, p)
             \/ \E p \in Processes : Bus!Subscribed(p) \/ Bus!SubscribeFails(p)
    BY <2>2, RoomsKeepBusInv
  <2>3. CASE \E p \in Processes : Bus!Drop(p) \/ Bus!Die(p)
    BY <2>3, LossKeepsBusInv
  <2>4. CASE \E e \in Events :
               (\E p \in Processes : Bus!Publish(p, e)) \/ Bus!Answered(e) \/ Bus!Resend(e)
    BY <2>4, PublishKeepsBusInv
  <2>5. CASE \E m \in channel : Bus!Deliver(m)
    BY <2>5, DeliverKeepsBusInv
  <2>6. CASE \E e \in Events : Bus!Land(e)
    BY <2>6, LandKeepsBusInv
  <2>7. CASE \E e \in Events : Bus!TimesOut(e)
    BY <2>7, TimesOutKeepsBusInv
  <2> QED BY <2>1, <2>2, <2>3, <2>4, <2>5, <2>6, <2>7 DEF Bus!Next
<1> QED BY <1>1, <1>2, PTL DEF Bus!Spec

\* The invariant gives both halves of the property.
LEMMA BusInvGivesRight ==
  ASSUME BusInv
  PROVE  Bus!BroadcastsRight
<1>1. Bus!OnceUnlessAgain
  BY DEF BusInv, CountInv, Bus!OnceUnlessAgain
<1>2. Bus!NobodyLeftOut
  <2> SUFFICES ASSUME NEW e \in Events, NEW s \in Sockets, Bus!Through(e), faults = 0,
                      s \in expecting[e], room[s] \in Processes
               PROVE  got[s][e] > 0
    BY DEF Bus!NobodyLeftOut
  <2>1. Messages(room[s], e) = {}
    BY DEF Bus!Through, Messages
  <2>2. got[s][e] > 0 \/ Messages(room[s], e) # {}
    BY DEF BusInv, ReachInv
  <2> QED BY <2>1, <2>2
<1> QED BY <1>1, <1>2 DEF Bus!BroadcastsRight

\* No socket is sent an event more often than it was broadcast, and none it was
\* broadcast to goes without, as long as nothing fails.
THEOREM BusBroadcastsAreRight == Bus!Spec => []Bus!BroadcastsRight
BY BusInvariant, BusInvGivesRight, PTL

-----------------------------------------------------------------------------
(***************************************************************************)
(* RecommendationScreen.                                                   *)
(***************************************************************************)

\* With every click answered, a list that is under way is the table, and so is
\* the list shown unless it is marked, but for rows changed elsewhere since.  As
\* long as a click waits nothing is claimed: its answer has the list read again.
ScreenInv ==
  /\ Scr!TypeOK
  /\ \A c \in Clicks : call[c] # None /\ call[c].at = "waiting"
                         => call[c].previous \in Scr!List \cup {Mock}
  /\ Scr!Settled /\ ~late =>
       /\ read \in Scr!List => \A r \in Rows \ unread : read[r] = server[r]
       /\ read = None /\ current /\ cache # Mock =>
            \A r \in Rows \ missed : cache[r] = server[r]

\* The query.
LEMMA QueryKeepsScreen ==
  ASSUME ScreenInv,
         \/ Scr!Refresh \/ Scr!Notified \/ Scr!Read
         \/ Scr!Arrive \/ Scr!Unreachable \/ Scr!Refused
  PROVE  ScreenInv'
<1> USE AskedIsNoList, BoundsAreNumbers DEF Scr!AsksAnew, Scr!NoneUnderWay, Scr!elsewhere
<1>1. UNCHANGED <<server, call, late>> /\ Scr!Settled' = Scr!Settled
  BY DEF Scr!Refresh, Scr!Notified, Scr!Read, Scr!Arrive, Scr!Unreachable, Scr!Refused, Scr!Settled
<1>2. CASE Scr!Refresh
  BY <1>1, <1>2 DEF ScreenInv, Scr!TypeOK, Scr!Refresh
<1>7. CASE Scr!Notified
  BY <1>1, <1>7 DEF ScreenInv, Scr!TypeOK, Scr!Notified
<1>3. CASE Scr!Read
  BY <1>1, <1>3 DEF ScreenInv, Scr!TypeOK, Scr!Read
<1>4. CASE Scr!Arrive
  BY <1>1, <1>4 DEF ScreenInv, Scr!TypeOK, Scr!Arrive
<1>5. CASE Scr!Unreachable
  BY <1>1, <1>5 DEF ScreenInv, Scr!TypeOK, Scr!Unreachable
<1>6. CASE Scr!Refused
  <2>1. /\ read' = None /\ current' = FALSE /\ cache' = cache
        /\ missed' = missed /\ unread' = {}
        /\ faults' = faults + 1 /\ faults < MaxFaults
    BY <1>6 DEF Scr!Refused
  <2>2. faults' \in 0..MaxFaults
    BY <2>1 DEF ScreenInv, Scr!TypeOK
  <2> QED BY <1>1, <2>1, <2>2 DEF ScreenInv, Scr!TypeOK
<1> QED BY <1>2, <1>3, <1>4, <1>5, <1>6, <1>7

\* A click that changes: the others stay.
LEMMA ClickKeepsScreen ==
  ASSUME ScreenInv, NEW c \in Clicks, NEW r \in Rows, NEW s \in Statuses,
         \/ Scr!Click(c, r, s) \/ Scr!Patch(c) \/ Scr!Apply(c) \/ Scr!Succeed(c)
         \/ \E q \in {"sent", "landed", "gone"} : Scr!RollBack(c, q)
  PROVE  ScreenInv'
<1> USE AskedIsNoList, BoundsAreNumbers, NoneIsNoCall DEF Scr!elsewhere
<1>1. CASE Scr!Click(c, r, s)
  <2> DEFINE new == [row |-> r, to |-> s, previous |-> None, at |-> "clicked", request |-> "none"]
  <2>1. /\ new \in Scr!Call /\ call' = [call EXCEPT ![c] = new] /\ read' = None
        /\ unread' = {}
        /\ UNCHANGED <<server, cache, current, faults, late, missed>>
    BY <1>1 DEF Scr!Click, Scr!Call, Scr!NoneUnderWay
  <2>2. call' \in [Clicks -> Scr!Call \cup {None}] /\ call'[c] = new
    BY <2>1 DEF ScreenInv, Scr!TypeOK
  <2>3. ~Scr!Settled'
    BY <2>1, <2>2 DEF Scr!Settled
  <2>4. call'[c].at = "clicked" /\ \A d \in Clicks \ {c} : call'[d] = call[d]
    BY <2>1, <2>2
  <2> HIDE DEF new
  <2> QED BY <2>1, <2>2, <2>3, <2>4 DEF ScreenInv, Scr!TypeOK
<1>2. CASE call[c] # None /\ ~Scr!Click(c, r, s)
  <2>1. call[c] \in Scr!Call /\ call \in [Clicks -> Scr!Call \cup {None}]
    BY <1>2 DEF ScreenInv, Scr!TypeOK
  <2>2. CASE Scr!Patch(c)
    <3> DEFINE new == [call[c] EXCEPT !.previous = cache, !.at = "waiting", !.request = "sent"]
    <3>1. new \in Scr!Call /\ new.at = "waiting" /\ new.previous = cache
      BY <2>1 DEF ScreenInv, Scr!TypeOK, Scr!Call
    <3>2. /\ call' = [call EXCEPT ![c] = new] /\ current' = TRUE
          /\ UNCHANGED <<server, read, faults, late, missed, unread>>
          /\ cache' = Scr!Patched(cache, call[c].row, call[c].to)
      BY <2>2 DEF Scr!Patch
    <3>3. cache' \in Scr!List \cup {Mock}
      BY <2>1, <3>2 DEF ScreenInv, Scr!TypeOK, Scr!Patched, Scr!List, Scr!Call
    <3> HIDE DEF new
    <3>4. call' \in [Clicks -> Scr!Call \cup {None}] /\ call'[c] = new
      BY <2>1, <3>1, <3>2
    <3>5. ~Scr!Settled'
      BY <3>1, <3>4 DEF Scr!Settled
    <3> QED BY <2>1, <3>1, <3>2, <3>3, <3>4, <3>5 DEF ScreenInv, Scr!TypeOK
  <2>3. CASE Scr!Apply(c)
    <3> DEFINE new == [call[c] EXCEPT !.request = "landed"]
    <3>1. new \in Scr!Call /\ new.at = call[c].at /\ new.previous = call[c].previous
      BY <2>1 DEF Scr!Call
    <3>2. /\ call' = [call EXCEPT ![c] = new]
          /\ late' = (late \/ call[c].at = "done")
          /\ UNCHANGED <<cache, read, current, faults, missed, unread>>
          /\ server' = [server EXCEPT ![call[c].row] = call[c].to]
      BY <2>3 DEF Scr!Apply
    <3>3. server' \in Scr!List
      BY <2>1, <3>2 DEF ScreenInv, Scr!TypeOK, Scr!List, Scr!Call
    <3> HIDE DEF new
    <3>4. call' \in [Clicks -> Scr!Call \cup {None}] /\ call'[c] = new
      BY <2>1, <3>1, <3>2
    <3>5. Scr!Settled' => late'
      BY <3>1, <3>2, <3>4 DEF Scr!Settled
    <3>6. late' \in BOOLEAN
      BY <3>2
    <3> QED BY <2>1, <3>1, <3>2, <3>3, <3>4, <3>5, <3>6 DEF ScreenInv, Scr!TypeOK
  <2>4. CASE Scr!Succeed(c)
    <3> DEFINE new == [call[c] EXCEPT !.at = "done"]
    <3>1. new \in Scr!Call /\ new.at = "done"
      BY <2>1 DEF Scr!Call
    <3>2. /\ call' = [call EXCEPT ![c] = new] /\ read' = Asked /\ current' = FALSE
          /\ unread' = {} /\ UNCHANGED <<server, cache, faults, late, missed>>
      BY <2>4 DEF Scr!Succeed, Scr!Invalidate, Scr!AsksAnew
    <3> HIDE DEF new
    <3>3. call' \in [Clicks -> Scr!Call \cup {None}] /\ call'[c] = new
      BY <2>1, <3>1, <3>2
    <3> QED BY <2>1, <3>1, <3>2, <3>3 DEF ScreenInv, Scr!TypeOK
  <2>5. CASE \E q \in {"sent", "landed", "gone"} : Scr!RollBack(c, q)
    <3>1. PICK q \in {"sent", "landed", "gone"} : Scr!RollBack(c, q)
      BY <2>5
    <3> DEFINE new == [call[c] EXCEPT !.at = "done", !.request = q]
    <3>2. new \in Scr!Call /\ new.at = "done"
      BY <2>1, <3>1 DEF Scr!Call
    <3>3. /\ call' = [call EXCEPT ![c] = new] /\ read' = Asked /\ current' = FALSE
          /\ cache' = call[c].previous /\ faults' = faults + 1 /\ faults < MaxFaults
          /\ unread' = {} /\ UNCHANGED <<server, late, missed>>
      BY <3>1 DEF Scr!RollBack, Scr!GivesUp, Scr!Invalidate, Scr!AsksAnew
    <3> HIDE DEF new
    <3>4. call' \in [Clicks -> Scr!Call \cup {None}] /\ call'[c] = new
      BY <2>1, <3>2, <3>3
    <3>5. cache' \in Scr!List \cup {Mock}
      BY <3>1 DEF ScreenInv, Scr!RollBack, Scr!GivesUp
    <3>6. faults' \in 0..MaxFaults
      BY <3>3 DEF ScreenInv, Scr!TypeOK
    <3>7. Scr!TypeOK'
      BY <3>3, <3>4, <3>5, <3>6 DEF ScreenInv, Scr!TypeOK
    <3>8. \A d \in Clicks \ {c} : call'[d] = call[d]
      BY <2>1, <3>3
    <3>9. \A d \in Clicks : call'[d] # None /\ call'[d].at = "waiting"
                          => call'[d].previous \in Scr!List \cup {Mock}
      BY <3>2, <3>4, <3>8 DEF ScreenInv
    <3>10. read' \notin Scr!List /\ read' # None
      BY <3>3
    <3> QED BY <3>7, <3>9, <3>10 DEF ScreenInv
  <2> QED BY <1>2, <2>2, <2>3, <2>4, <2>5
<1>3. CASE ~Scr!Click(c, r, s) /\ call[c] = None
  BY <1>3 DEF Scr!Patch, Scr!Apply, Scr!Succeed, Scr!RollBack, Scr!GivesUp
<1> QED BY <1>1, <1>2, <1>3

\* Somebody else changes a row: it is counted as missed.
LEMMA ElsewhereKeepsScreen ==
  ASSUME ScreenInv, NEW r \in Rows, NEW s \in Statuses, Scr!Elsewhere(r, s)
  PROVE  ScreenInv'
<1> USE AskedIsNoList
<1>1. /\ server' = [server EXCEPT ![r] = s] /\ missed' = missed \cup {r}
      /\ unread' = IF read \in Scr!List THEN unread \cup {r} ELSE unread
      /\ UNCHANGED <<cache, read, current, call, faults, late>>
  BY DEF Scr!Elsewhere
<1>2. /\ server' \in Scr!List /\ \A q \in Rows \ {r} : server'[q] = server[q]
      /\ missed' \subseteq Rows /\ unread' \subseteq Rows
  BY <1>1 DEF ScreenInv, Scr!TypeOK, Scr!List
<1>3. Scr!TypeOK' /\ Scr!Settled' = Scr!Settled
  BY <1>1, <1>2 DEF ScreenInv, Scr!TypeOK, Scr!Settled
<1>4. ASSUME Scr!Settled, ~late, read \in Scr!List, NEW q \in Rows \ unread'
      PROVE  read[q] = server'[q]
  BY <1>1, <1>2, <1>4 DEF ScreenInv
<1>5. ASSUME Scr!Settled, ~late, read = None, current, cache # Mock, NEW q \in Rows \ missed'
      PROVE  cache[q] = server'[q]
  BY <1>1, <1>2, <1>5 DEF ScreenInv
<1> QED BY <1>1, <1>3, <1>4, <1>5 DEF ScreenInv

\* ScreenInv holds in every state.
THEOREM ScreenInvariant == Scr!Spec => []ScreenInv
<1>1. Scr!Init => ScreenInv
  <2> SUFFICES ASSUME Scr!Init PROVE ScreenInv
    OBVIOUS
  <2>1. /\ server \in Scr!List /\ cache = server /\ read = None /\ current = TRUE
        /\ call = [c \in Clicks |-> None] /\ faults = 0 /\ late = FALSE
        /\ missed = {} /\ unread = {}
    BY DEF Scr!Init
  <2>2. 0 \in 0..MaxFaults
    BY BoundsAreNumbers
  <2>3. Scr!TypeOK
    BY <2>1, <2>2 DEF Scr!TypeOK
  <2>4. \A c \in Clicks : call[c] = None
    BY <2>1
  <2>5. read \notin Scr!List
    BY <2>1, AskedIsNoList
  <2> QED BY <2>1, <2>3, <2>4, <2>5 DEF ScreenInv
<1>2. ScreenInv /\ [Scr!Next]_(Scr!vars) => ScreenInv'
  <2> SUFFICES ASSUME ScreenInv, [Scr!Next]_(Scr!vars) PROVE ScreenInv'
    OBVIOUS
  <2>1. CASE UNCHANGED Scr!vars
    <3>1. UNCHANGED <<server, cache, read, current, call, faults, late, missed, unread>>
      BY <2>1 DEF Scr!vars, Scr!elsewhere
    <3>2. Scr!Settled' = Scr!Settled /\ Scr!TypeOK' = Scr!TypeOK
      BY <3>1 DEF Scr!Settled, Scr!TypeOK
    <3> QED BY <3>1, <3>2 DEF ScreenInv
  <2>2. CASE \/ Scr!Refresh \/ Scr!Notified \/ Scr!Read
             \/ Scr!Arrive \/ Scr!Unreachable \/ Scr!Refused
    BY <2>2, QueryKeepsScreen
  <2>3. ASSUME NEW c \in Clicks,
               \/ \E r \in Rows, s \in Statuses : Scr!Click(c, r, s)
               \/ Scr!Patch(c) \/ Scr!Apply(c) \/ Scr!Succeed(c)
               \/ \E q \in {"sent", "landed", "gone"} : Scr!RollBack(c, q)
        PROVE  ScreenInv'
    <3>1. CASE \E r \in Rows, s \in Statuses : Scr!Click(c, r, s)
      BY <3>1, ClickKeepsScreen
    <3>2. CASE \/ Scr!Patch(c) \/ Scr!Apply(c) \/ Scr!Succeed(c)
               \/ \E q \in {"sent", "landed", "gone"} : Scr!RollBack(c, q)
      <4>1. call[c] # None
        BY <3>2 DEF Scr!Patch, Scr!Apply, Scr!Succeed, Scr!RollBack, Scr!GivesUp
      <4>2. PICK r \in Rows, s \in Statuses : TRUE
        BY <4>1 DEF ScreenInv, Scr!TypeOK, Scr!Call
      <4> QED BY <3>2, ClickKeepsScreen
    <3> QED BY <2>3, <3>1, <3>2
  <2>4. CASE \E r \in Rows, s \in Statuses : Scr!Elsewhere(r, s)
    BY <2>4, ElsewhereKeepsScreen
  <2> QED BY <2>1, <2>2, <2>3, <2>4 DEF Scr!Next
<1> QED BY <1>1, <1>2, PTL DEF Scr!Spec

\* With every click answered and nothing under way the screen shows the table,
\* for any list and any clicks, however many fail and in whatever order answers
\* and reads arrive, but for requests that took effect after their call failed
\* and rows changed elsewhere since the list was read.
THEOREM ScreenShowsTable == Scr!Spec => []Scr!ScreenAgrees
<1>1. ScreenInv => Scr!ScreenAgrees
  BY DEF ScreenInv, Scr!ScreenAgrees
<1> QED BY <1>1, ScreenInvariant, PTL

-----------------------------------------------------------------------------
(***************************************************************************)
(* BlogPosts.                                                              *)
(***************************************************************************)

\* A request that looks for an address, or is about to write one, has one.
Slugged(d) ==
  Pos!Open(d) =>
    /\ call[d].at = "probe" => call[d].op \in {"create", "update"}
    /\ call[d].at \in {"probe", "write"} /\ call[d].op \in {"create", "update"}
         => call[d].slug \in Pos!Slugs

\* What is being created is not there yet, and is being created once.
Creating(d, p) == Pos!Open(d) /\ call[d].op = "create" /\ call[d].id = p
NewIsNew ==
  \A d \in Calls, p \in Posts :
    Creating(d, p) => p \notin Pos!Stored /\ \A e \in Calls : Creating(e, p) => e = d

\* What is about to be deleted is a draft, unless it was published since.
Deleting(d, p) == Pos!Doing(d, "delete", "write") /\ call[d].id = p
DraftsGo ==
  \A d \in Calls, p \in Pos!Stored :
    Deleting(d, p) /\ post[p].at # None => raced

\* No post but the last one pinned is, and that one is or will be.
Pinning(d) == Pos!Doing(d, "pin", "write")
PinSoon ==
  /\ Pos!Pinned \subseteq {pin}
  /\ ~botched /\ pin # None /\ pin \notin Pos!Pinned => \E d \in Calls : Pinning(d)

\* Without its hint nothing is left that the public sees, but for requests cut
\* short.
Hinting(d) == Pos!Open(d) /\ call[d].at = "hint"
HintSoon ==
  ~fresh /\ ~unhinted /\ ~raced => \E d \in Calls : Pinning(d) \/ Hinting(d)

BlogInv ==
  /\ Pos!TypeOK /\ (lost => raced)
  /\ \A d \in Calls : Slugged(d)
  /\ NewIsNew /\ DraftsGo /\ PinSoon /\ HintSoon

-----------------------------------------------------------------------------
\* One call goes on: the others stay as they are.
LEMMA OneCallGoesOn ==
  ASSUME Pos!TypeOK, NEW c \in Calls, NEW x \in Pos!Call \cup {Done},
         call' = [call EXCEPT ![c] = x]
  PROVE  /\ call' \in [Calls -> Pos!Call \cup {None, Done}]
         /\ call'[c] = x
         /\ \A d \in Calls \ {c} :
              /\ call'[d] = call[d]
              /\ Slugged(d)' <=> Slugged(d)
              /\ Pinning(d)' <=> Pinning(d)
              /\ Hinting(d)' <=> Hinting(d)
              /\ \A p \in Posts : /\ Creating(d, p)' <=> Creating(d, p)
                                  /\ Deleting(d, p)' <=> Deleting(d, p)
         /\ Pos!Open(c)' <=> x # Done
<1>1. /\ call' \in [Calls -> Pos!Call \cup {None, Done}] /\ call'[c] = x
      /\ \A d \in Calls \ {c} : call'[d] = call[d]
  BY DEF Pos!TypeOK
<1>2. \A d \in Calls \ {c} : Pos!Open(d)' <=> Pos!Open(d)
  BY <1>1 DEF Pos!Open
<1>3. Pos!Open(c)' <=> x # Done
  BY <1>1, PostsAreNamed DEF Pos!Open
<1> QED BY <1>1, <1>2, <1>3 DEF Slugged, Pinning, Hinting, Creating, Deleting, Pos!Doing

\* A call that reads, asks or is refused.
LEMMA ReadKeepsBlog ==
  ASSUME BlogInv, NEW c \in Calls, NEW x \in Pos!Call \cup {Done},
         call' = [call EXCEPT ![c] = x],
         UNCHANGED <<post, fresh, pin, botched, unhinted, lost, raced, faults>>,
         ~Pinning(c), ~Hinting(c),
         x # Done /\ x.at = "probe" => x.op \in {"create", "update"},
         x # Done /\ x.at \in {"probe", "write"} /\ x.op \in {"create", "update"}
           => x.slug \in Pos!Slugs,
         x # Done /\ x.op = "create"
           => \/ Creating(c, x.id)
              \/ x.id \notin Pos!Stored /\ \A d \in Calls : ~Creating(d, x.id),
         x # Done /\ x.op = "delete" /\ x.at = "write"
           => x.id \notin Pos!Stored \/ post[x.id].at = None
  PROVE  BlogInv'
<1>0. Pos!TypeOK
  BY DEF BlogInv
<1>1. /\ call' \in [Calls -> Pos!Call \cup {None, Done}]
      /\ call'[c] = x
      /\ \A d \in Calls \ {c} :
           /\ Slugged(d)' <=> Slugged(d)
           /\ Pinning(d)' <=> Pinning(d)
           /\ Hinting(d)' <=> Hinting(d)
           /\ \A p \in Posts : /\ Creating(d, p)' <=> Creating(d, p)
                               /\ Deleting(d, p)' <=> Deleting(d, p)
      /\ Pos!Open(c)' <=> x # Done
  BY <1>0, OneCallGoesOn
<1>2. Pos!TypeOK' /\ (lost' => raced')
  BY <1>1 DEF BlogInv, Pos!TypeOK
<1>3. Pos!Stored' = Pos!Stored /\ Pos!Pinned' = Pos!Pinned
  BY DEF Pos!Stored, Pos!Pinned
<1>4. \A d \in Calls : Slugged(d)'
  <2>1. Slugged(c)'
    BY <1>1 DEF Slugged
  <2> QED BY <1>1, <2>1 DEF BlogInv
<1>5. NewIsNew'
  <2>1. \A p \in Posts : Creating(c, p)' =>
          \/ Creating(c, p)
          \/ p \notin Pos!Stored /\ \A d \in Calls : ~Creating(d, p)
    BY <1>1 DEF Creating
  <2> QED BY <1>1, <1>3, <2>1 DEF BlogInv, NewIsNew
<1>6. DraftsGo'
  <2>1. \A p \in Posts : Deleting(c, p)' => p \notin Pos!Stored \/ post[p].at = None
    BY <1>1 DEF Deleting, Pos!Doing
  <2>2. Pos!Stored \subseteq Posts
    BY DEF Pos!Stored
  <2> QED BY <1>1, <1>3, <2>1, <2>2 DEF BlogInv, DraftsGo
<1>7. PinSoon'
  BY <1>1, <1>3 DEF BlogInv, PinSoon
<1>8. HintSoon'
  BY <1>1 DEF BlogInv, HintSoon
<1> QED BY <1>2, <1>4, <1>5, <1>6, <1>7, <1>8 DEF BlogInv

\* A call that writes one row, and then hints or has its answer.
LEMMA WriteKeepsBlog ==
  ASSUME BlogInv, NEW c \in Calls, NEW x \in Pos!Call \cup {Done},
         call' = [call EXCEPT ![c] = x],
         Pos!Open(c), ~Pinning(c), ~Hinting(c),
         x # Done => x.at = "hint" /\ x.op # "create",
         NEW p \in Posts, NEW entry \in Pos!Row \cup {None}, Pos!Put(p, entry),
         UNCHANGED <<botched, unhinted, faults>>, {lost', raced'} \subseteq BOOLEAN, pin' \in Posts \cup {None},
         raced => raced', lost' => lost \/ raced',
         x = Done => raced' \/ (~Pos!Live(post[p]) /\ ~Pos!Live(entry)),
         post[p] = None /\ entry # None => Creating(c, p) /\ x = Done,
         entry # None /\ ~raced' => entry.at = None \/ (post[p] # None /\ post[p].at # None)
                   \/ (\A d \in Calls : ~Deleting(d, p)),
         \/ pin' = pin /\ (entry # None => (entry.pinned <=> p \in Pos!Pinned)) /\ (entry = None => p \notin Pos!Pinned)
         \/ pin' = (IF pin = p THEN None ELSE pin) /\ (entry # None => ~entry.pinned)
  PROVE  BlogInv'
<1>0. Pos!TypeOK
  BY DEF BlogInv
<1>1. /\ call' \in [Calls -> Pos!Call \cup {None, Done}]
      /\ call'[c] = x
      /\ \A d \in Calls \ {c} :
           /\ Slugged(d)' <=> Slugged(d)
           /\ Pinning(d)' <=> Pinning(d)
           /\ Hinting(d)' <=> Hinting(d)
           /\ \A q \in Posts : /\ Creating(d, q)' <=> Creating(d, q)
                               /\ Deleting(d, q)' <=> Deleting(d, q)
      /\ Pos!Open(c)' <=> x # Done
  BY <1>0, OneCallGoesOn
<1>2. /\ post' \in [Posts -> Pos!Row \cup {None}] /\ post'[p] = entry
      /\ \A q \in Posts \ {p} : post'[q] = post[q]
      /\ fresh' = (fresh /\ ~Pos!Live(post[p]) /\ ~Pos!Live(entry))
  BY <1>0 DEF Pos!TypeOK, Pos!Put
<1>3. Pos!TypeOK' /\ (lost' => raced')
  <2>1. {fresh', botched', unhinted'} \subseteq BOOLEAN
    BY <1>0, <1>2 DEF Pos!TypeOK
  <2> QED BY <1>1, <1>2, <2>1 DEF BlogInv, Pos!TypeOK
<1>4. /\ Pos!Stored' \subseteq Posts
      /\ \A q \in Posts \ {p} : /\ q \in Pos!Stored' <=> q \in Pos!Stored
                                /\ q \in Pos!Pinned' <=> q \in Pos!Pinned
      /\ p \in Pos!Stored' <=> entry # None
      /\ p \in Pos!Pinned' <=> entry # None /\ entry.pinned
  BY <1>2 DEF Pos!Stored, Pos!Pinned
<1>5. /\ \A q \in Posts : ~Creating(c, q)' /\ ~Deleting(c, q)'
      /\ ~Pinning(c)' /\ Slugged(c)'
      /\ x # Done => Hinting(c)'
  BY <1>1 DEF Creating, Deleting, Pinning, Slugged, Hinting, Pos!Doing
<1>6. \A d \in Calls : Slugged(d)'
  BY <1>1, <1>5 DEF BlogInv
<1>7. NewIsNew'
  <2> SUFFICES ASSUME NEW d \in Calls, NEW q \in Posts, Creating(d, q)'
               PROVE  q \notin Pos!Stored' /\ \A e \in Calls : Creating(e, q)' => e = d
    BY DEF NewIsNew
  <2>1. d # c /\ Creating(d, q)
    BY <1>1, <1>5
  <2>2. q \notin Pos!Stored /\ \A e \in Calls : Creating(e, q) => e = d
    BY <2>1 DEF BlogInv, NewIsNew
  <2>3. \A e \in Calls : Creating(e, q)' => e = d
    BY <1>1, <1>5, <2>2
  <2>4. q = p => entry = None
    BY <2>1, <2>2 DEF Pos!Stored
  <2> QED BY <1>4, <2>2, <2>3, <2>4
<1>8. DraftsGo'
  <2> SUFFICES ASSUME NEW d \in Calls, NEW q \in Pos!Stored', Deleting(d, q)', post'[q].at # None
               PROVE  raced'
    BY DEF DraftsGo
  <2>1. q \in Posts /\ d # c /\ Deleting(d, q)
    BY <1>1, <1>4, <1>5
  <2>2. CASE q # p
    BY <1>2, <1>4, <2>1, <2>2 DEF BlogInv, DraftsGo
  <2>3. CASE q = p
    <3>1. entry # None /\ entry.at # None
      BY <1>2, <1>4, <2>3
    <3>2. post[p] # None /\ post[p].at # None => raced
      BY <2>1, <2>3 DEF BlogInv, DraftsGo, Pos!Stored
    <3> QED BY <2>1, <2>3, <3>1, <3>2
  <2> QED BY <2>2, <2>3
<1>9. PinSoon'
  <2>0. Pos!Pinned' \subseteq Posts /\ Pos!Pinned \subseteq {pin} /\ Pos!Pinned \subseteq Posts
    BY DEF BlogInv, PinSoon, Pos!Pinned, Pos!Stored
  <2>1. CASE pin' = pin /\ (p \in Pos!Pinned' <=> p \in Pos!Pinned)
    <3>1. Pos!Pinned' = Pos!Pinned
      BY <1>4, <2>0, <2>1
    <3> QED BY <1>1, <2>1, <3>1 DEF BlogInv, PinSoon
  <2>2. CASE pin' = (IF pin = p THEN None ELSE pin) /\ (entry # None => ~entry.pinned)
    <3>1. Pos!Pinned' = Pos!Pinned \ {p}
      BY <1>4, <2>0, <2>2
    <3>2. Pos!Pinned' \subseteq {pin'}
      BY <2>0, <2>2, <3>1
    <3>3. pin' # None /\ pin' \notin Pos!Pinned' => pin # None /\ pin \notin Pos!Pinned
      BY <2>0, <2>2, <3>1
    <3> QED BY <1>1, <3>2, <3>3 DEF BlogInv, PinSoon
  <2> QED BY <1>4, <2>1, <2>2
<1>10. HintSoon'
  <2> SUFFICES ASSUME ~fresh', ~unhinted', ~raced'
               PROVE  \E d \in Calls : Pinning(d)' \/ Hinting(d)'
    BY DEF HintSoon
  <2>1. CASE x # Done
    BY <1>5, <2>1
  <2>2. CASE x = Done
    <3>1. ~fresh
      BY <1>2, <2>2
    <3>2. PICK d \in Calls : Pinning(d) \/ Hinting(d)
      BY <3>1 DEF BlogInv, HintSoon
    <3> QED BY <1>1, <3>2
  <2> QED BY <2>1, <2>2
<1> QED BY <1>3, <1>6, <1>7, <1>8, <1>9, <1>10 DEF BlogInv

-----------------------------------------------------------------------------
\* A call that has its answer and has written nothing.
LEMMA EndKeepsBlog ==
  ASSUME BlogInv, NEW c \in Calls, Pos!Ends(c),
         UNCHANGED <<post, fresh, pin, botched, unhinted, lost, raced, faults>>, ~Pinning(c), ~Hinting(c)
  PROVE  BlogInv'
BY ReadKeepsBlog DEF Pos!Ends

\* A call that goes on to its next step.
LEMMA GoesOn ==
  ASSUME BlogInv, NEW c \in Calls, Pos!Open(c), NEW at \in {"existing", "probe", "clear", "write", "hint"},
         NEW x, x = [call[c] EXCEPT !.at = at]
  PROVE  /\ call[c] \in Pos!Call /\ call[c].id \in Posts /\ call[c].op \in Pos!Ops
         /\ x \in Pos!Call /\ x # Done /\ x.at = at
         /\ x.op = call[c].op /\ x.id = call[c].id /\ x.slug = call[c].slug
<1>1. call[c] \in Pos!Call
  BY DEF BlogInv, Pos!TypeOK, Pos!Open
<1>2. /\ x \in Pos!Call /\ x.at = at
      /\ x.op = call[c].op /\ x.id = call[c].id /\ x.slug = call[c].slug
  BY <1>1 DEF Pos!Call
<1> QED BY <1>1, <1>2, PostsAreNamed DEF Pos!Call

\* An admin's request.
LEMMA AskKeepsBlog ==
  ASSUME BlogInv, NEW c \in Calls, NEW op \in Pos!Ops, NEW p \in Posts, Pos!Ask(c, op, p)
  PROVE  BlogInv'
<1>1. PICK slug \in (Wanted \X {1}) \cup {None}, time \in {None, "past", "future"} :
        /\ op = "create" => slug # None
        /\ call' = [call EXCEPT ![c] =
             [op |-> op, id |-> p, slug |-> slug, time |-> time,
              at |-> Pos!FirstStep(op), before |-> None]]
  BY DEF Pos!Ask
<1> DEFINE x == [op |-> op, id |-> p, slug |-> slug, time |-> time,
                 at |-> Pos!FirstStep(op), before |-> None]
<1>2. /\ call[c] = None /\ UNCHANGED <<post, fresh, pin, botched, unhinted, lost, raced, faults>>
      /\ op = "create" => p \notin Pos!Stored /\ \A d \in Calls : Pos!Open(d) => call[d].id # p
  BY DEF Pos!Ask
<1>3. slug # None => slug \in Pos!Slugs
  <2>1. 1 \in 1..MaxSuffix
    BY SuffixesBegin
  <2> QED BY <2>1 DEF Pos!Slugs
<1>4. /\ Pos!FirstStep(op) \in {"before", "existing", "probe", "clear", "write"}
      /\ Pos!FirstStep(op) = "probe" => op = "create"
      /\ Pos!FirstStep(op) = "write" => op \notin {"create", "update", "delete"}
  BY DEF Pos!FirstStep, Pos!Ops
<1>5. x \in Pos!Call
  BY <1>3, <1>4 DEF Pos!Call, Pos!Times
<1>6. /\ x.op = op /\ x.id = p /\ x.slug = slug /\ x.at = Pos!FirstStep(op)
      /\ call' = [call EXCEPT ![c] = x]
  BY <1>1
<1> HIDE DEF x
<1>7. ~Pinning(c) /\ ~Hinting(c)
  BY <1>2 DEF Pinning, Hinting, Pos!Doing, Pos!Open
<1>8. op = "create" => p \notin Pos!Stored /\ \A d \in Calls : ~Creating(d, p)
  BY <1>2 DEF Creating
<1> QED BY <1>1, <1>2, <1>3, <1>4, <1>5, <1>6, <1>7, <1>8, ReadKeepsBlog

\* One more candidate.
LEMMA ProbeKeepsBlog ==
  ASSUME BlogInv, NEW c \in Calls, Pos!Probe(c)
  PROVE  BlogInv'
<1>1. /\ Pos!Open(c) /\ call[c].at = "probe" /\ UNCHANGED <<post, fresh, pin, botched, unhinted, lost, raced, faults>>
  BY DEF Pos!Probe
<1>2. /\ call[c] \in Pos!Call /\ call[c].id \in Posts
      /\ ~Pinning(c) /\ ~Hinting(c) /\ call[c].slug \in Pos!Slugs
  BY <1>1 DEF BlogInv, Slugged, Pos!TypeOK, Pos!Open, Pinning, Hinting, Pos!Doing, Pos!Call
<1>3. CASE Pos!Goes(c, "write")
  <2> DEFINE x == [call[c] EXCEPT !.at = "write"]
  <2>1. call' = [call EXCEPT ![c] = x]
    BY <1>3 DEF Pos!Goes
  <2>2. /\ x \in Pos!Call /\ x # Done /\ x.at = "write"
        /\ x.op = call[c].op /\ x.id = call[c].id /\ x.slug = call[c].slug
    BY <1>1, GoesOn
  <2>3. x.op # "delete"
    BY <1>1, <2>2 DEF BlogInv, Slugged
  <2> HIDE DEF x
  <2> QED BY <1>1, <1>2, <2>1, <2>2, <2>3, ReadKeepsBlog DEF Creating
<1>4. CASE call[c].slug[2] < MaxSuffix /\ call' = [call EXCEPT ![c].slug[2] = call[c].slug[2] + 1]
  <2>1. PICK w \in Wanted, n \in 1..MaxSuffix : call[c].slug = <<w, n>>
    BY <1>2 DEF Pos!Slugs
  <2> DEFINE x == [call[c] EXCEPT !.slug = <<w, n + 1>>]
  <2>2. [call[c].slug EXCEPT ![2] = call[c].slug[2] + 1] = <<w, n + 1>>
    BY <2>1
  <2>3. call' = [call EXCEPT ![c] = x]
    BY <1>4, <2>2, <1>2 DEF Pos!Call
  <2>4. <<w, n + 1>> \in Pos!Slugs
    <3>1. n + 1 \in 1..MaxSuffix
      <4>1. call[c].slug[2] = n
        BY <2>1
      <4> QED BY <1>4, <4>1, SuffixesBegin
    <3> QED BY <3>1 DEF Pos!Slugs
  <2>5. /\ x \in Pos!Call /\ x.at = "probe" /\ x.slug = <<w, n + 1>>
        /\ x.op = call[c].op /\ x.id = call[c].id
    BY <1>1, <1>2, <2>4 DEF Pos!Call
  <2> HIDE DEF x
  <2>6. x.op \in {"create", "update"} /\ x.op # "delete"
    BY <1>1, <2>5 DEF BlogInv, Slugged
  <2>7. x.op = "create" => Creating(c, x.id)
    BY <1>1, <2>5 DEF Creating
  <2> QED BY <1>1, <1>2, <2>3, <2>4, <2>5, <2>6, <2>7, ReadKeepsBlog
<1> QED BY <1>3, <1>4 DEF Pos!Probe

\* The INSERT.
LEMMA CreateKeepsBlog ==
  ASSUME BlogInv, NEW c \in Calls, Pos!Create(c)
  PROVE  BlogInv'
<1>1. /\ Pos!Open(c) /\ call[c].op = "create" /\ call[c].at = "write"
      /\ Pos!Ends(c) /\ UNCHANGED <<pin, botched, unhinted, lost, raced, faults>>
  BY DEF Pos!Create, Pos!Doing
<1>2. /\ call[c] \in Pos!Call /\ call[c].id \in Posts
      /\ ~Pinning(c) /\ ~Hinting(c) /\ call[c].slug \in Pos!Slugs
  BY <1>1 DEF BlogInv, Slugged, Pos!TypeOK, Pos!Open, Pinning, Hinting, Pos!Doing, Pos!Call
<1>3. CASE UNCHANGED <<post, fresh>>
  BY <1>1, <1>2, <1>3, EndKeepsBlog
<1>4. CASE Pos!Put(call[c].id, [slug |-> call[c].slug, at |-> None, pinned |-> FALSE])
  <2> DEFINE p == call[c].id
             entry == [slug |-> call[c].slug, at |-> None, pinned |-> FALSE]
  <2>8. entry \in Pos!Row /\ entry.at = None /\ entry.pinned = FALSE
    BY <1>2 DEF Pos!Row, Pos!Times
  <2> HIDE DEF entry
  <2>1. entry \in Pos!Row /\ entry.at = None /\ ~entry.pinned /\ entry # None /\ ~Pos!Live(entry)
    BY <2>8, PostsAreNamed DEF Pos!Live
  <2> USE DEF entry
  <2>2. Creating(c, p) /\ p \in Posts
    BY <1>1, <1>2 DEF Creating
  <2> HIDE DEF p
  <2>7. p \notin Pos!Stored
    BY <2>2 DEF BlogInv, NewIsNew
  <2>3. p \notin Pos!Stored /\ p \notin Pos!Pinned
    BY <2>7 DEF Pos!Pinned
  <2> USE DEF p
  <2>4. post[p] = None /\ ~Pos!Live(post[p])
    BY <1>2, <2>3 DEF Pos!Stored, Pos!Live
  <2>5. call' = [call EXCEPT ![c] = Done] /\ p \in Posts /\ Pos!Put(p, entry)
    BY <1>1, <1>2, <1>4 DEF Pos!Ends
  <2>6. {lost', raced'} \subseteq BOOLEAN /\ pin' \in Posts \cup {None}
    BY <1>1 DEF BlogInv, Pos!TypeOK
  <2> HIDE DEF p, entry
  <2> QED BY <1>1, <1>2, <2>1, <2>2, <2>3, <2>4, <2>5, <2>6, WriteKeepsBlog
<1> QED BY <1>3, <1>4 DEF Pos!Create

\* The two reads of a save.
LEMMA SaveReadsKeepBlog ==
  ASSUME BlogInv, NEW c \in Calls, Pos!ReadBefore(c) \/ Pos!ReadExisting(c)
  PROVE  BlogInv'
<1>1. /\ Pos!Open(c) /\ call[c].op = "update" /\ call[c].at \in {"before", "existing"}
      /\ UNCHANGED <<post, fresh, pin, botched, unhinted, lost, raced, faults>>
  BY DEF Pos!ReadBefore, Pos!ReadExisting, Pos!Doing
<1>2. /\ call[c] \in Pos!Call /\ call[c].id \in Posts /\ ~Pinning(c) /\ ~Hinting(c)
  BY <1>1 DEF BlogInv, Pos!TypeOK, Pos!Open, Pinning, Hinting, Pos!Doing, Pos!Call
<1>3. CASE Pos!Ends(c)
  BY <1>1, <1>2, <1>3, EndKeepsBlog
<1>4. CASE Pos!ReadBefore(c) /\ ~Pos!Missing(c)
                             /\ call' = [call EXCEPT ![c].before = post[call[c].id].slug, ![c].at = "existing"]
  <2> DEFINE x == [call[c] EXCEPT !.before = post[call[c].id].slug, !.at = "existing"]
  <2>1. post[call[c].id].slug \in Pos!Slugs
    BY <1>2, <1>4 DEF BlogInv, Pos!TypeOK, Pos!Missing, Pos!Stored, Pos!Row
  <2>2. /\ call' = [call EXCEPT ![c] = x]
        /\ x \in Pos!Call /\ x.at = "existing" /\ x.op = "update"
    BY <1>1, <1>2, <1>4, <2>1 DEF Pos!Call
  <2> HIDE DEF x
  <2> QED BY <1>1, <1>2, <2>2, ReadKeepsBlog
<1>5. CASE Pos!ReadExisting(c) /\ ~Pos!Missing(c) /\ ~Pos!Ends(c)
  <2>1. PICK entry : entry = post[call[c].id]
    OBVIOUS
  <2>2. PICK desired : desired = slugify[IF call[c].slug = None THEN entry.slug ELSE call[c].slug]
    OBVIOUS
  <2>3. entry.slug \in Pos!Slugs
    BY <1>2, <1>5, <2>1 DEF BlogInv, Pos!TypeOK, Pos!Missing, Pos!Stored, Pos!Row
  <2>4. desired \in Pos!Slugs
    BY <1>2, <2>2, <2>3, SpellingIsOne DEF Pos!Call, Pos!SlugsStaySlugs
  <2>5. PICK at \in {"write", "probe"} :
          call' = [call EXCEPT ![c].slug = desired, ![c].at = at]
    BY <1>5, <2>1, <2>2 DEF Pos!ReadExisting
  <2> DEFINE x == [call[c] EXCEPT !.slug = desired, !.at = at]
  <2>6. /\ call' = [call EXCEPT ![c] = x]
        /\ x \in Pos!Call /\ x.slug = desired /\ x.op = "update"
    BY <1>1, <1>2, <2>4, <2>5 DEF Pos!Call
  <2> HIDE DEF x
  <2> QED BY <1>1, <1>2, <2>4, <2>6, ReadKeepsBlog
<1> QED BY <1>3, <1>4, <1>5 DEF Pos!ReadBefore, Pos!ReadExisting

\* A publication and a deletion look before they write.
LEMMA ChecksKeepBlog ==
  ASSUME BlogInv, NEW c \in Calls, Pos!CheckFinished(c) \/ Pos!CheckDraft(c)
  PROVE  BlogInv'
<1>1. /\ Pos!Open(c) /\ call[c].op \in {"publish", "delete"} /\ call[c].at = "existing"
      /\ UNCHANGED <<post, fresh, pin, botched, unhinted, lost, raced, faults>>
  BY DEF Pos!CheckFinished, Pos!CheckDraft, Pos!Doing
<1>2. /\ call[c] \in Pos!Call /\ call[c].id \in Posts /\ ~Pinning(c) /\ ~Hinting(c)
  BY <1>1 DEF BlogInv, Pos!TypeOK, Pos!Open, Pinning, Hinting, Pos!Doing, Pos!Call
<1>3. CASE Pos!Ends(c)
  BY <1>1, <1>2, <1>3, EndKeepsBlog
<1>4. CASE Pos!Goes(c, "write") /\ (call[c].op = "delete" => post[call[c].id].at = None)
  <2> DEFINE x == [call[c] EXCEPT !.at = "write"]
  <2>1. call' = [call EXCEPT ![c] = x]
    BY <1>4 DEF Pos!Goes
  <2>2. /\ x \in Pos!Call /\ x # Done /\ x.at = "write"
        /\ x.op = call[c].op /\ x.id = call[c].id /\ x.slug = call[c].slug
    BY <1>1, GoesOn
  <2> HIDE DEF x
  <2> QED BY <1>1, <1>2, <1>4, <2>1, <2>2, ReadKeepsBlog
<1>5. call[c].op = "delete" /\ ~Pos!Ends(c) => post[call[c].id].at = None
  BY DEF Pos!CheckFinished, Pos!CheckDraft, Pos!Doing
<1> QED BY <1>3, <1>4, <1>5 DEF Pos!CheckFinished, Pos!CheckDraft

\* The row that a write finds: how it shows.
LEMMA RowFound ==
  ASSUME BlogInv, NEW c \in Calls, Pos!Open(c), ~Pos!Missing(c), NEW p, p = call[c].id
  PROVE  /\ p \in Posts /\ p \in Pos!Stored /\ post[p] \in Pos!Row /\ post[p] # None
         /\ post[p].pinned <=> p \in Pos!Pinned
<1>1. p \in Pos!Stored
  BY DEF Pos!Missing
<1> QED BY <1>1 DEF Pos!Stored, Pos!Pinned, BlogInv, Pos!TypeOK

\* updatePost's UPDATE.
LEMMA UpdateKeepsBlog ==
  ASSUME BlogInv, NEW c \in Calls, Pos!Update(c)
  PROVE  BlogInv'
<1> DEFINE p == call[c].id
           entry == [post[p] EXCEPT !.slug = call[c].slug]
<1>1. /\ Pos!Open(c) /\ call[c].op = "update" /\ call[c].at = "write"
      /\ UNCHANGED <<pin, botched, unhinted, lost, raced, faults>>
  BY DEF Pos!Update, Pos!Doing
<1>2. /\ call[c] \in Pos!Call
      /\ ~Pinning(c) /\ ~Hinting(c) /\ call[c].slug \in Pos!Slugs
  BY <1>1 DEF BlogInv, Slugged, Pos!TypeOK, Pos!Open, Pinning, Hinting, Pos!Doing
<1>3. CASE Pos!Ends(c) /\ UNCHANGED <<post, fresh>>
  BY <1>1, <1>2, <1>3, EndKeepsBlog
<1>4. CASE /\ ~Pos!Missing(c) /\ Pos!Put(p, entry)
           /\ IF Pos!Live(entry) \/ call[c].before # entry.slug THEN Pos!Goes(c, "hint") ELSE Pos!Ends(c)
  <2>1. /\ p \in Posts /\ p \in Pos!Stored /\ post[p] \in Pos!Row /\ post[p] # None
        /\ post[p].pinned <=> p \in Pos!Pinned
    BY <1>1, <1>4, RowFound
  <2>2. entry \in Pos!Row /\ entry.at = post[p].at /\ entry.pinned = post[p].pinned
    BY <1>2, <2>1 DEF Pos!Row
  <2>3. entry # None
    BY <2>2, PostsAreNamed
  <2>4. Pos!Live(entry) <=> Pos!Live(post[p])
    BY <2>1, <2>2, <2>3 DEF Pos!Live
  <2>5. {lost', raced'} \subseteq BOOLEAN /\ pin' \in Posts \cup {None}
    BY <1>1 DEF BlogInv, Pos!TypeOK
  <2>6. entry.pinned <=> p \in Pos!Pinned
    BY <2>1, <2>2
  <2>7. entry.at = None \/ (post[p] # None /\ post[p].at # None)
    BY <2>1, <2>2
  <2>8. CASE Pos!Goes(c, "hint")
    <3> DEFINE x == [call[c] EXCEPT !.at = "hint"]
    <3>1. call' = [call EXCEPT ![c] = x]
      BY <2>8 DEF Pos!Goes
    <3>2. x \in Pos!Call /\ x # Done /\ x.at = "hint" /\ x.op = call[c].op
      BY <1>1, GoesOn
    <3>3. Pos!Put(p, entry)
      BY <1>4
    <3>4. x \in Pos!Call \cup {Done} /\ x # Done /\ x.at = "hint" /\ x.op # "create"
      BY <1>1, <3>2
    <3> HIDE DEF x, p, entry
    <3> QED BY <1>1, <1>2, <2>1, <2>2, <2>3, <3>4, <2>5, <2>6, <2>7, <3>1, <3>3, WriteKeepsBlog
  <2>9. CASE Pos!Ends(c) /\ ~Pos!Live(entry)
    <3>1. call' = [call EXCEPT ![c] = Done] /\ Pos!Put(p, entry)
      BY <1>4, <2>9 DEF Pos!Ends
    <3> HIDE DEF p, entry
    <3> QED BY <1>1, <1>2, <2>1, <2>2, <2>3, <2>4, <2>5, <2>6, <2>7, <2>9, <3>1, WriteKeepsBlog
  <2> QED BY <1>4, <2>8, <2>9
<1> QED BY <1>3, <1>4 DEF Pos!Update

\* A write of the time of publication.
LEMMA TimeKeepsBlog ==
  ASSUME BlogInv, NEW c \in Calls, Pos!Publish(c) \/ Pos!Unpublish(c)
  PROVE  BlogInv'
<1>1. /\ Pos!Open(c) /\ call[c].op \in {"publish", "unpublish"} /\ call[c].at = "write"
      /\ UNCHANGED <<pin, botched, unhinted, lost, faults>>
  BY DEF Pos!Publish, Pos!Published, Pos!Unpublish, Pos!Doing
<1>6. raced => raced'
  <2>1. CASE Pos!Publish(c)
    BY <2>1 DEF Pos!Publish, Pos!Published
  <2>2. CASE Pos!Unpublish(c)
    BY <2>2 DEF Pos!Unpublish
  <2> QED BY <2>1, <2>2
<1>2. /\ call[c] \in Pos!Call /\ ~Pinning(c) /\ ~Hinting(c)
  BY <1>1 DEF BlogInv, Pos!TypeOK, Pos!Open, Pinning, Hinting, Pos!Doing
<1>3. PICK time \in Pos!Times :
        /\ Pos!SetTime(c, time)
        /\ time = None \/ Pos!Publish(c)
  <2>1. CASE Pos!Publish(c)
    BY <1>2, <2>1 DEF Pos!Publish, Pos!Call
  <2>2. CASE Pos!Unpublish(c)
    BY <2>2 DEF Pos!Unpublish, Pos!Times
  <2> QED BY <2>1, <2>2
<1>4. CASE Pos!Missing(c)
  <2>1. Pos!Ends(c) /\ UNCHANGED <<post, fresh>>
    BY <1>3, <1>4 DEF Pos!SetTime
  <2>2. raced' = raced
    BY <1>4 DEF Pos!Publish, Pos!Published, Pos!Unpublish, BlogInv, Pos!TypeOK
  <2> QED BY <1>1, <1>2, <2>1, <2>2, EndKeepsBlog
<1>5. CASE ~Pos!Missing(c)
  <2> DEFINE p == call[c].id
             entry == [post[p] EXCEPT !.at = time]
             x == [call[c] EXCEPT !.at = "hint"]
  <2>1. /\ p \in Posts /\ p \in Pos!Stored /\ post[p] \in Pos!Row /\ post[p] # None
        /\ post[p].pinned <=> p \in Pos!Pinned
    BY <1>1, <1>5, RowFound
  <2>2. entry \in Pos!Row /\ entry.at = time /\ entry.pinned = post[p].pinned
    BY <1>3, <2>1 DEF Pos!Row
  <2>3. entry # None
    BY <2>2, PostsAreNamed
  <2>4. Pos!Put(p, entry) /\ call' = [call EXCEPT ![c] = x]
    BY <1>3, <1>5 DEF Pos!SetTime, Pos!Goes
  <2>5. x \in Pos!Call /\ x # Done /\ x.at = "hint" /\ x.op = call[c].op
    BY <1>1, GoesOn
  <2>6. x.op # "create"
    BY <1>1, <2>5
  <2>7. {lost', raced'} \subseteq BOOLEAN /\ pin' \in Posts \cup {None}
    BY <1>1 DEF BlogInv, Pos!TypeOK, Pos!Publish, Pos!Published, Pos!Unpublish
  <2>8. entry.pinned <=> p \in Pos!Pinned
    BY <2>1, <2>2
  <2>9. ~raced' => entry.at = None \/ \A d \in Calls : ~Deleting(d, p)
    BY <1>3, <1>5, <2>2 DEF Pos!Publish, Pos!Published, Deleting
  <2>10. /\ x # Done => x.at = "hint" /\ x.op # "create"
         /\ x = Done => raced' \/ (~Pos!Live(post[p]) /\ ~Pos!Live(entry))
         /\ post[p] = None /\ entry # None => Creating(c, p) /\ x = Done
         /\ entry # None /\ ~raced' => entry.at = None \/ (post[p] # None /\ post[p].at # None)
                   \/ (\A d \in Calls : ~Deleting(d, p))
         /\ pin' = pin /\ (entry # None => (entry.pinned <=> p \in Pos!Pinned)) /\ (entry = None => p \notin Pos!Pinned)
         /\ lost' => lost \/ raced'
    <3> HIDE DEF p, entry, x
    <3>1. x # Done => x.at = "hint" /\ x.op # "create"
      BY <1>1, <2>1, <2>3, <2>5, <2>6, <2>8, <2>9
    <3>2. x = Done => raced' \/ (~Pos!Live(post[p]) /\ ~Pos!Live(entry))
      BY <1>1, <2>1, <2>3, <2>5, <2>6, <2>8, <2>9
    <3>3. post[p] = None /\ entry # None => Creating(c, p) /\ x = Done
      BY <1>1, <2>1, <2>3, <2>5, <2>6, <2>8, <2>9
    <3>4. entry # None /\ ~raced' => entry.at = None \/ (post[p] # None /\ post[p].at # None)
                   \/ (\A d \in Calls : ~Deleting(d, p))
      BY <1>1, <2>1, <2>3, <2>5, <2>6, <2>8, <2>9
    <3>5. /\ pin' = pin
          /\ entry # None => (entry.pinned <=> p \in Pos!Pinned)
          /\ entry = None => p \notin Pos!Pinned
      <4>1. pin' = pin
        BY <1>1
      <4>2. entry # None => (entry.pinned <=> p \in Pos!Pinned)
        BY <2>8
      <4>3. entry = None => p \notin Pos!Pinned
        BY <2>3
      <4> QED BY <4>1, <4>2, <4>3
    <3>6. lost' => lost \/ raced'
      BY <1>1, <2>1, <2>3, <2>5, <2>6, <2>8, <2>9
    <3> QED BY <3>1, <3>2, <3>3, <3>4, <3>5, <3>6
  <2> HIDE DEF p, entry, x
  <2> QED BY <1>1, <1>2, <1>6, <2>1, <2>2, <2>4, <2>5, <2>7, <2>10, WriteKeepsBlog
<1> QED BY <1>4, <1>5

\* A post that is no longer pinned, and one that is no more.
LEMMA UnpinKeepsBlog ==
  ASSUME BlogInv, NEW c \in Calls, Pos!Unpin(c)
  PROVE  BlogInv'
<1>1. /\ Pos!Open(c) /\ call[c].op = "unpin" /\ call[c].at = "write"
      /\ UNCHANGED <<botched, unhinted, lost, raced, faults>>
  BY DEF Pos!Unpin, Pos!Doing
<1>2. /\ call[c] \in Pos!Call /\ ~Pinning(c) /\ ~Hinting(c)
  BY <1>1 DEF BlogInv, Pos!TypeOK, Pos!Open, Pinning, Hinting, Pos!Doing
<1>3. CASE Pos!Missing(c)
  BY <1>1, <1>2, <1>3, EndKeepsBlog DEF Pos!Unpin
<1>4. CASE ~Pos!Missing(c)
  <2> DEFINE p == call[c].id
             entry == [post[p] EXCEPT !.pinned = FALSE]
             x == [call[c] EXCEPT !.at = "hint"]
  <2>1. /\ p \in Posts /\ p \in Pos!Stored /\ post[p] \in Pos!Row /\ post[p] # None
    BY <1>1, <1>4, RowFound
  <2>2. entry \in Pos!Row /\ entry.at = post[p].at /\ entry.pinned = FALSE
    BY <2>1 DEF Pos!Row
  <2>3. entry # None
    BY <2>2, PostsAreNamed
  <2>4. Pos!Put(p, entry) /\ call' = [call EXCEPT ![c] = x] /\ pin' = IF pin = p THEN None ELSE pin
    BY <1>4 DEF Pos!Unpin, Pos!Goes
  <2>5. x \in Pos!Call /\ x # Done /\ x.at = "hint" /\ x.op = call[c].op
    BY <1>1, GoesOn
  <2>6. x.op # "create"
    BY <1>1, <2>5
  <2>7. {lost', raced'} \subseteq BOOLEAN /\ pin' \in Posts \cup {None}
    BY <1>1, <2>4 DEF BlogInv, Pos!TypeOK
  <2>8. entry.at = None \/ (post[p] # None /\ post[p].at # None)
    BY <2>1, <2>2
  <2>9. /\ x # Done => x.at = "hint" /\ x.op # "create"
        /\ x = Done => raced' \/ (~Pos!Live(post[p]) /\ ~Pos!Live(entry))
        /\ post[p] = None /\ entry # None => Creating(c, p) /\ x = Done
        /\ entry # None /\ ~raced' => entry.at = None \/ (post[p] # None /\ post[p].at # None)
                   \/ (\A d \in Calls : ~Deleting(d, p))
        /\ pin' = (IF pin = p THEN None ELSE pin) /\ (entry # None => ~entry.pinned)
        /\ lost' => lost \/ raced'
        /\ raced => raced'
    <3> HIDE DEF p, entry, x
    <3>1. x # Done => x.at = "hint" /\ x.op # "create"
      BY <1>1, <2>1, <2>2, <2>4, <2>5, <2>6, <2>8
    <3>2. x = Done => raced' \/ (~Pos!Live(post[p]) /\ ~Pos!Live(entry))
      BY <1>1, <2>1, <2>2, <2>4, <2>5, <2>6, <2>8
    <3>3. post[p] = None /\ entry # None => Creating(c, p) /\ x = Done
      BY <1>1, <2>1, <2>2, <2>4, <2>5, <2>6, <2>8
    <3>4. entry # None /\ ~raced' => entry.at = None \/ (post[p] # None /\ post[p].at # None)
                   \/ (\A d \in Calls : ~Deleting(d, p))
      BY <1>1, <2>1, <2>2, <2>4, <2>5, <2>6, <2>8
    <3>5. pin' = (IF pin = p THEN None ELSE pin) /\ (entry # None => ~entry.pinned)
      BY <1>1, <2>1, <2>2, <2>4, <2>5, <2>6, <2>8
    <3>6. lost' => lost \/ raced'
      BY <1>1, <2>1, <2>2, <2>4, <2>5, <2>6, <2>8
    <3>7. raced => raced'
      BY <1>1, <2>1, <2>2, <2>4, <2>5, <2>6, <2>8
    <3> QED BY <3>1, <3>2, <3>3, <3>4, <3>5, <3>6, <3>7
  <2> HIDE DEF p, entry, x
  <2> QED BY <1>1, <1>2, <2>1, <2>2, <2>4, <2>5, <2>7, <2>9, WriteKeepsBlog
<1> QED BY <1>3, <1>4

\* The DELETE: what it finds is a draft, unless one was published meanwhile.
LEMMA DeleteKeepsBlog ==
  ASSUME BlogInv, NEW c \in Calls, Pos!Delete(c)
  PROVE  BlogInv'
<1> DEFINE p == call[c].id
<1>1. /\ Pos!Open(c) /\ call[c].op = "delete" /\ call[c].at = "write"
      /\ UNCHANGED <<botched, unhinted, raced, faults>> /\ call' = [call EXCEPT ![c] = Done]
      /\ Pos!Put(p, None) /\ pin' = (IF pin = p THEN None ELSE pin)
      /\ lost' = (lost \/ (~Pos!Missing(c) /\ post[p].at # None))
  BY DEF Pos!Delete, Pos!Doing, Pos!Ends
<1>2. /\ call[c] \in Pos!Call /\ p \in Posts /\ ~Pinning(c) /\ ~Hinting(c)
  BY <1>1 DEF BlogInv, Pos!TypeOK, Pos!Open, Pinning, Hinting, Pos!Doing, Pos!Call
<1>3. Deleting(c, p)
  BY <1>1 DEF Deleting, Pos!Doing
<1>4. p \in Pos!Stored /\ post[p].at # None => raced
  BY <1>3 DEF BlogInv, DraftsGo
<1>5. lost' => lost \/ raced'
  BY <1>1, <1>4 DEF Pos!Missing
<1>6. raced' \/ (~Pos!Live(post[p]) /\ ~Pos!Live(None))
  BY <1>1, <1>2, <1>4, PostsAreNamed DEF Pos!Live, Pos!Stored
<1>7. {lost', raced'} \subseteq BOOLEAN /\ pin' \in Posts \cup {None}
  BY <1>1 DEF BlogInv, Pos!TypeOK
<1> HIDE DEF p
<1> QED BY <1>1, <1>2, <1>5, <1>6, <1>7, WriteKeepsBlog

\* The old pin is cleared: until the new one is set a request is about to.
LEMMA ClearKeepsBlog ==
  ASSUME BlogInv, NEW c \in Calls, Pos!ClearPins(c)
  PROVE  BlogInv'
<1> DEFINE others == Pos!Pinned \ {call[c].id}
           x == [call[c] EXCEPT !.at = "write"]
<1>0. Pos!TypeOK
  BY DEF BlogInv
<1>1. /\ Pos!Open(c) /\ call[c].op = "pin" /\ call[c].at = "clear"
      /\ post' = [p \in Posts |-> IF p \in others THEN [post[p] EXCEPT !.pinned = FALSE]
                                                  ELSE post[p]]
      /\ fresh' = (fresh /\ \A p \in others : ~Pos!Live(post[p]))
      /\ UNCHANGED <<pin, botched, unhinted, lost, raced, faults>> /\ call' = [call EXCEPT ![c] = x]
  BY DEF Pos!ClearPins, Pos!Doing, Pos!Goes
<1>2. x \in Pos!Call /\ x # Done /\ x.at = "write" /\ x.op = "pin"
  BY <1>1, GoesOn
<1>3. /\ call' \in [Calls -> Pos!Call \cup {None, Done}] /\ call'[c] = x
      /\ \A d \in Calls \ {c} :
           /\ Slugged(d)' <=> Slugged(d)
           /\ Pinning(d)' <=> Pinning(d)
           /\ \A p \in Posts : /\ Creating(d, p)' <=> Creating(d, p)
                               /\ Deleting(d, p)' <=> Deleting(d, p)
      /\ Pos!Open(c)'
  <2> HIDE DEF x
  <2> QED BY <1>0, <1>1, <1>2, OneCallGoesOn
<1>4. Pinning(c)' /\ Slugged(c)' /\ \A p \in Posts : ~Creating(c, p)' /\ ~Deleting(c, p)'
  BY <1>2, <1>3 DEF Pinning, Slugged, Creating, Deleting, Pos!Doing
<1>5. ASSUME NEW p \in Posts
      PROVE  /\ post'[p] \in Pos!Row \cup {None}
             /\ post'[p] = None <=> post[p] = None
             /\ post[p] # None => post'[p].at = post[p].at
             /\ post'[p] # None /\ post'[p].pinned => post[p] # None /\ post[p].pinned
  <2>1. CASE p \in others
    <3>1. post[p] \in Pos!Row /\ post[p] # None
      BY <1>0, <2>1 DEF Pos!TypeOK, Pos!Pinned, Pos!Stored
    <3>2. post'[p] = [post[p] EXCEPT !.pinned = FALSE]
      BY <1>1, <2>1
    <3>3. /\ post'[p] \in Pos!Row /\ post'[p].at = post[p].at /\ post'[p].pinned = FALSE
      BY <3>1, <3>2 DEF Pos!Row
    <3> QED BY <3>1, <3>3, PostsAreNamed
  <2>2. CASE p \notin others
    <3>1. post'[p] = post[p] /\ post[p] \in Pos!Row \cup {None}
      BY <1>0, <1>1, <2>2 DEF Pos!TypeOK
    <3> QED BY <3>1
  <2> QED BY <2>1, <2>2
<1>6. Pos!Stored' = Pos!Stored /\ Pos!Pinned' \subseteq Pos!Pinned
  BY <1>5 DEF Pos!Stored, Pos!Pinned
<1>7. Pos!TypeOK' /\ (lost' => raced')
  <2>1. post' \in [Posts -> Pos!Row \cup {None}]
    BY <1>1, <1>5
  <2>2. fresh' \in BOOLEAN
    BY <1>1
  <2> QED BY <1>1, <1>3, <2>1, <2>2 DEF BlogInv, Pos!TypeOK
<1> HIDE DEF others, x
<1>8. \A d \in Calls : Slugged(d)'
  BY <1>3, <1>4 DEF BlogInv
<1>9. NewIsNew'
  BY <1>3, <1>4, <1>6 DEF BlogInv, NewIsNew
<1>10. DraftsGo'
  <2> SUFFICES ASSUME NEW d \in Calls, NEW p \in Pos!Stored', Deleting(d, p)', post'[p].at # None
               PROVE  raced'
    BY DEF DraftsGo
  <2>1. p \in Posts /\ p \in Pos!Stored /\ post[p] # None
    BY <1>6 DEF Pos!Stored
  <2>2. Deleting(d, p) /\ post[p].at # None
    BY <1>3, <1>4, <1>5, <2>1
  <2> QED BY <1>1, <2>1, <2>2 DEF BlogInv, DraftsGo
<1>11. PinSoon'
  BY <1>1, <1>4, <1>6 DEF BlogInv, PinSoon
<1>12. HintSoon'
  BY <1>4 DEF HintSoon
<1> QED BY <1>7, <1>8, <1>9, <1>10, <1>11, <1>12 DEF BlogInv

\* The new pin is set, or the request fails halfway.
LEMMA PinKeepsBlog ==
  ASSUME BlogInv, NEW c \in Calls, Pos!Pin(c)
  PROVE  BlogInv'
<1> DEFINE p == call[c].id
<1>0. Pos!TypeOK
  BY DEF BlogInv
<1>1. /\ Pos!Open(c) /\ call[c].op = "pin" /\ call[c].at = "write" /\ UNCHANGED <<lost, raced, faults>>
  BY DEF Pos!Pin, Pos!Doing
<1>2. CASE Pos!Ends(c) /\ botched' = TRUE /\ unhinted' = TRUE /\ UNCHANGED <<post, fresh, pin>>
  <2>1. Done \in Pos!Call \cup {Done} /\ call' = [call EXCEPT ![c] = Done]
    BY <1>2 DEF Pos!Ends
  <2>2. /\ call' \in [Calls -> Pos!Call \cup {None, Done}]
        /\ \A d \in Calls \ {c} :
             /\ Slugged(d)' <=> Slugged(d)
             /\ \A q \in Posts : /\ Creating(d, q)' <=> Creating(d, q)
                                 /\ Deleting(d, q)' <=> Deleting(d, q)
        /\ ~Pos!Open(c)'
    BY <1>0, <2>1, OneCallGoesOn
  <2>3. Slugged(c)' /\ \A q \in Posts : ~Creating(c, q)' /\ ~Deleting(c, q)'
    BY <2>2 DEF Slugged, Creating, Deleting, Pos!Doing
  <2>4. Pos!Stored' = Pos!Stored /\ Pos!Pinned' = Pos!Pinned /\ Pos!Stored \subseteq Posts
    BY <1>2 DEF Pos!Stored, Pos!Pinned
  <2>5. Pos!TypeOK' /\ (lost' => raced')
    BY <1>1, <1>2, <2>2 DEF BlogInv, Pos!TypeOK
  <2>6. \A d \in Calls : Slugged(d)'
    BY <2>2, <2>3 DEF BlogInv
  <2>7. NewIsNew'
    BY <2>2, <2>3, <2>4 DEF BlogInv, NewIsNew
  <2>8. DraftsGo'
    BY <1>1, <1>2, <2>2, <2>3, <2>4 DEF BlogInv, DraftsGo
  <2>9. PinSoon'
    BY <1>2, <2>4 DEF BlogInv, PinSoon
  <2>10. HintSoon'
    BY <1>2 DEF HintSoon
  <2> QED BY <2>5, <2>6, <2>7, <2>8, <2>9, <2>10 DEF BlogInv
<1>3. CASE /\ ~Pos!Missing(c) /\ Pos!Pinned \ {p} = {}
           /\ Pos!Put(p, [post[p] EXCEPT !.pinned = TRUE]) /\ pin' = p
           /\ Pos!Goes(c, "hint") /\ UNCHANGED <<botched, unhinted>>
  <2> DEFINE x == [call[c] EXCEPT !.at = "hint"]
             entry == [post[p] EXCEPT !.pinned = TRUE]
  <2>1. p \in Posts /\ p \in Pos!Stored /\ post[p] \in Pos!Row /\ post[p] # None
    BY <1>1, <1>3, RowFound
  <2>2. entry \in Pos!Row /\ entry.at = post[p].at /\ entry.pinned = TRUE
    BY <2>1 DEF Pos!Row
  <2>3. x \in Pos!Call /\ x # Done /\ x.at = "hint" /\ x.op = "pin"
    BY <1>1, GoesOn
  <2>4. call' = [call EXCEPT ![c] = x]
    BY <1>3 DEF Pos!Goes
  <2>5. /\ post' = [post EXCEPT ![p] = entry]
        /\ fresh' = (fresh /\ ~Pos!Live(post[p]) /\ ~Pos!Live(entry))
    BY <1>3 DEF Pos!Put
  <2> HIDE DEF x, entry, p
  <2>6. /\ call' \in [Calls -> Pos!Call \cup {None, Done}] /\ call'[c] = x
        /\ \A d \in Calls \ {c} :
             /\ Slugged(d)' <=> Slugged(d)
             /\ \A q \in Posts : /\ Creating(d, q)' <=> Creating(d, q)
                                 /\ Deleting(d, q)' <=> Deleting(d, q)
        /\ Pos!Open(c)'
    BY <1>0, <2>3, <2>4, OneCallGoesOn
  <2>7. Hinting(c)' /\ Slugged(c)' /\ \A q \in Posts : ~Creating(c, q)' /\ ~Deleting(c, q)'
    BY <2>3, <2>6 DEF Hinting, Slugged, Creating, Deleting, Pos!Doing
  <2>8. /\ post' \in [Posts -> Pos!Row \cup {None}] /\ post'[p] = entry /\ entry # None
        /\ \A q \in Posts \ {p} : post'[q] = post[q]
    BY <1>0, <2>1, <2>2, <2>5, PostsAreNamed DEF Pos!TypeOK
  <2>9. Pos!Stored' = Pos!Stored
    BY <2>1, <2>8 DEF Pos!Stored
  <2>10. Pos!Pinned' = {p}
    <3>1. Pos!Pinned \subseteq {p}
      BY <1>3
    <3>2. \A q \in Posts \ {p} : q \notin Pos!Pinned'
      BY <2>8, <3>1 DEF Pos!Pinned, Pos!Stored
    <3>3. p \in Pos!Pinned'
      BY <2>1, <2>2, <2>8 DEF Pos!Pinned, Pos!Stored
    <3>4. Pos!Pinned' \subseteq Posts
      BY DEF Pos!Pinned, Pos!Stored
    <3> QED BY <3>2, <3>3, <3>4
  <2>11. Pos!TypeOK' /\ (lost' => raced')
    <3>1. fresh' \in BOOLEAN
      BY <2>5
    <3> QED BY <1>1, <1>3, <2>1, <2>6, <2>8, <3>1 DEF BlogInv, Pos!TypeOK
  <2>12. \A d \in Calls : Slugged(d)'
    BY <2>6, <2>7 DEF BlogInv
  <2>13. NewIsNew'
    BY <2>6, <2>7, <2>9 DEF BlogInv, NewIsNew
  <2>14. DraftsGo'
    <3>1. \A q \in Pos!Stored : q \in Posts /\ post'[q].at = post[q].at
      BY <2>2, <2>8 DEF Pos!Stored
    <3> QED BY <1>1, <2>6, <2>7, <2>9, <3>1 DEF BlogInv, DraftsGo
  <2>15. PinSoon'
    BY <1>3, <2>10 DEF PinSoon
  <2>16. HintSoon'
    BY <2>7 DEF HintSoon
  <2> QED BY <2>11, <2>12, <2>13, <2>14, <2>15, <2>16 DEF BlogInv
<1> QED BY <1>2, <1>3 DEF Pos!Pin, Pos!Botched

\* The hint.
LEMMA HintKeepsBlog ==
  ASSUME BlogInv, NEW c \in Calls, Pos!revalidateBlog(c)
  PROVE  BlogInv'
<1>0. Pos!TypeOK
  BY DEF BlogInv
<1>1. /\ Pos!Open(c) /\ call[c].at = "hint" /\ UNCHANGED <<post, pin, botched, lost, raced, faults>>
      /\ fresh' = TRUE /\ unhinted' = FALSE /\ call' = [call EXCEPT ![c] = Done]
  BY DEF Pos!revalidateBlog, Pos!Ends
<1>2. /\ call' \in [Calls -> Pos!Call \cup {None, Done}]
      /\ \A d \in Calls \ {c} :
           /\ Slugged(d)' <=> Slugged(d)
           /\ Pinning(d)' <=> Pinning(d)
           /\ \A q \in Posts : /\ Creating(d, q)' <=> Creating(d, q)
                               /\ Deleting(d, q)' <=> Deleting(d, q)
      /\ ~Pos!Open(c)'
  BY <1>0, <1>1, OneCallGoesOn
<1>3. /\ Slugged(c)' /\ ~Pinning(c)
      /\ \A q \in Posts : ~Creating(c, q)' /\ ~Deleting(c, q)'
  BY <1>1, <1>2 DEF Slugged, Creating, Deleting, Pinning, Pos!Doing
<1>4. Pos!Stored' = Pos!Stored /\ Pos!Pinned' = Pos!Pinned /\ Pos!Stored \subseteq Posts
  BY <1>1 DEF Pos!Stored, Pos!Pinned
<1>5. Pos!TypeOK' /\ (lost' => raced')
  BY <1>1, <1>2 DEF BlogInv, Pos!TypeOK
<1>6. \A d \in Calls : Slugged(d)'
  BY <1>2, <1>3 DEF BlogInv
<1>7. NewIsNew'
  BY <1>2, <1>3, <1>4 DEF BlogInv, NewIsNew
<1>8. DraftsGo'
  BY <1>1, <1>2, <1>3, <1>4 DEF BlogInv, DraftsGo
<1>9. PinSoon'
  BY <1>1, <1>2, <1>3, <1>4 DEF BlogInv, PinSoon
<1>10. HintSoon'
  BY <1>1 DEF HintSoon
<1> QED BY <1>5, <1>6, <1>7, <1>8, <1>9, <1>10 DEF BlogInv

\* A request that ends where it is: a pin that is cleared and a hint that is
\* owed are told.
LEMMA FailKeepsBlog ==
  ASSUME BlogInv, NEW c \in Calls, Pos!Fails(c)
  PROVE  BlogInv'
<1>0. Pos!TypeOK
  BY DEF BlogInv
<1>1. /\ Pos!Open(c) /\ call' = [call EXCEPT ![c] = Done]
      /\ faults < MaxFaults /\ faults' = faults + 1
      /\ botched' = (botched \/ Pinning(c))
      /\ unhinted' = (unhinted \/ Pinning(c) \/ Hinting(c))
      /\ UNCHANGED <<post, fresh, pin, lost, raced>>
  BY DEF Pos!Fails, Pos!Ends, Pinning, Hinting
<1>2. /\ call' \in [Calls -> Pos!Call \cup {None, Done}]
      /\ \A d \in Calls \ {c} :
           /\ Slugged(d)' <=> Slugged(d)
           /\ Pinning(d)' <=> Pinning(d)
           /\ Hinting(d)' <=> Hinting(d)
           /\ \A q \in Posts : /\ Creating(d, q)' <=> Creating(d, q)
                               /\ Deleting(d, q)' <=> Deleting(d, q)
      /\ ~Pos!Open(c)'
  BY <1>0, <1>1, OneCallGoesOn
<1>3. Slugged(c)' /\ \A q \in Posts : ~Creating(c, q)' /\ ~Deleting(c, q)'
  BY <1>2 DEF Slugged, Creating, Deleting, Pos!Doing
<1>4. Pos!Stored' = Pos!Stored /\ Pos!Pinned' = Pos!Pinned /\ Pos!Stored \subseteq Posts
  BY <1>1 DEF Pos!Stored, Pos!Pinned
<1>5. Pos!TypeOK' /\ (lost' => raced')
  <2>1. faults' \in 0..MaxFaults
    BY <1>0, <1>1, BoundsAreNumbers DEF Pos!TypeOK
  <2>2. {botched', unhinted'} \subseteq BOOLEAN
    BY <1>1
  <2> QED BY <1>1, <1>2, <2>1, <2>2 DEF BlogInv, Pos!TypeOK
<1>6. \A d \in Calls : Slugged(d)'
  BY <1>2, <1>3 DEF BlogInv
<1>7. NewIsNew'
  BY <1>2, <1>3, <1>4 DEF BlogInv, NewIsNew
<1>8. DraftsGo'
  BY <1>1, <1>2, <1>3, <1>4 DEF BlogInv, DraftsGo
<1>9. PinSoon'
  BY <1>1, <1>2, <1>4 DEF BlogInv, PinSoon
<1>10. HintSoon'
  BY <1>1, <1>2 DEF BlogInv, HintSoon
<1> QED BY <1>5, <1>6, <1>7, <1>8, <1>9, <1>10 DEF BlogInv

\* A time has come.
LEMMA DueKeepsBlog ==
  ASSUME BlogInv, NEW p \in Posts, Pos!Due(p)
  PROVE  BlogInv'
<1>0. Pos!TypeOK
  BY DEF BlogInv
<1> DEFINE entry == [post[p] EXCEPT !.at = "past"]
<1>1. /\ p \in Pos!Stored /\ post[p].at = "future" /\ post' = [post EXCEPT ![p] = entry]
      /\ UNCHANGED <<call, fresh, pin, botched, unhinted, lost, raced, faults>>
  BY DEF Pos!Due
<1>2. entry \in Pos!Row /\ entry # None /\ entry.pinned = post[p].pinned /\ post[p] # None
  <2>1. post[p] \in Pos!Row /\ post[p] # None
    BY <1>0, <1>1 DEF Pos!TypeOK, Pos!Stored
  <2>2. entry \in Pos!Row /\ entry.pinned = post[p].pinned
    BY <2>1 DEF Pos!Row, Pos!Times
  <2> QED BY <2>1, <2>2, PostsAreNamed
<1> HIDE DEF entry
<1>3. /\ post' \in [Posts -> Pos!Row \cup {None}] /\ post'[p] = entry
      /\ \A q \in Posts \ {p} : post'[q] = post[q]
  BY <1>0, <1>1, <1>2 DEF Pos!TypeOK
<1>4. Pos!Stored' = Pos!Stored /\ Pos!Pinned' = Pos!Pinned /\ Pos!Stored \subseteq Posts
  <2>1. \A q \in Posts : /\ post'[q] = None <=> post[q] = None
                         /\ post[q] # None => post'[q].pinned = post[q].pinned
    BY <1>2, <1>3
  <2> QED BY <2>1 DEF Pos!Stored, Pos!Pinned
<1>5. \A d \in Calls :
        /\ Slugged(d)' <=> Slugged(d)
        /\ Pinning(d)' <=> Pinning(d)
        /\ Hinting(d)' <=> Hinting(d)
        /\ \A q \in Posts : /\ Creating(d, q)' <=> Creating(d, q)
                            /\ Deleting(d, q)' <=> Deleting(d, q)
  BY <1>1 DEF Slugged, Pinning, Hinting, Creating, Deleting, Pos!Doing, Pos!Open
<1>6. Pos!TypeOK' /\ (lost' => raced')
  BY <1>1, <1>3 DEF BlogInv, Pos!TypeOK
<1>7. \A d \in Calls : Slugged(d)'
  BY <1>5 DEF BlogInv
<1>8. NewIsNew'
  BY <1>4, <1>5 DEF BlogInv, NewIsNew
<1>9. DraftsGo'
  <2>1. post[p].at # None
    BY <1>1, PostsAreNamed
  <2> QED BY <1>1, <1>3, <1>4, <1>5, <2>1 DEF BlogInv, DraftsGo
<1>10. PinSoon'
  BY <1>1, <1>4, <1>5 DEF BlogInv, PinSoon
<1>11. HintSoon'
  BY <1>1, <1>5 DEF BlogInv, HintSoon
<1> QED BY <1>6, <1>7, <1>8, <1>9, <1>10, <1>11 DEF BlogInv

\* BlogInv is an invariant of the blog.
THEOREM BlogInvariant == Pos!Spec => []BlogInv
<1>1. Pos!Init => BlogInv
  <2> SUFFICES ASSUME Pos!Init PROVE BlogInv
    OBVIOUS
  <2>1. \A d \in Calls : call[d] = None /\ ~Pos!Open(d)
    BY DEF Pos!Init, Pos!Open
  <2>2. Pos!TypeOK /\ (lost => raced)
    <3>1. 0 \in 0..MaxFaults
      BY BoundsAreNumbers
    <3> QED BY <3>1 DEF Pos!Init, Pos!TypeOK
  <2>3. (\A d \in Calls : Slugged(d)) /\ NewIsNew /\ DraftsGo
    BY <2>1 DEF Slugged, NewIsNew, DraftsGo, Creating, Deleting, Pos!Doing
  <2>4. PinSoon
    BY DEF Pos!Init, PinSoon
  <2>5. HintSoon
    BY DEF Pos!Init, HintSoon
  <2> QED BY <2>2, <2>3, <2>4, <2>5 DEF BlogInv
<1>2. BlogInv /\ [Pos!Next]_(Pos!vars) => BlogInv'
  <2> SUFFICES ASSUME BlogInv, [Pos!Next]_(Pos!vars) PROVE BlogInv'
    OBVIOUS
  <2>1. CASE UNCHANGED Pos!vars
    <3>1. UNCHANGED <<post, call, fresh, pin, botched, unhinted, lost, raced, faults>>
      BY <2>1 DEF Pos!vars
    <3>2. Pos!Stored' = Pos!Stored /\ Pos!Pinned' = Pos!Pinned
      BY <3>1 DEF Pos!Stored, Pos!Pinned
    <3>3. \A d \in Calls :
            /\ Slugged(d)' <=> Slugged(d)
            /\ Pinning(d)' <=> Pinning(d)
            /\ Hinting(d)' <=> Hinting(d)
            /\ \A q : /\ Creating(d, q)' <=> Creating(d, q)
                      /\ Deleting(d, q)' <=> Deleting(d, q)
      BY <3>1 DEF Slugged, Pinning, Hinting, Creating, Deleting, Pos!Doing, Pos!Open
    <3>4. Pos!TypeOK' /\ (lost' => raced')
      BY <3>1 DEF BlogInv, Pos!TypeOK
    <3>5. (\A d \in Calls : Slugged(d)') /\ NewIsNew' /\ DraftsGo'
      BY <3>1, <3>2, <3>3 DEF BlogInv, NewIsNew, DraftsGo
    <3>6. PinSoon' /\ HintSoon'
      BY <3>1, <3>2, <3>3 DEF BlogInv, PinSoon, HintSoon
    <3> QED BY <3>4, <3>5, <3>6 DEF BlogInv
  <2>2. CASE \E c \in Calls, op \in Pos!Ops, p \in Posts : Pos!Ask(c, op, p)
    BY <2>2, AskKeepsBlog
  <2>3. CASE \E c \in Calls : Pos!Probe(c) \/ Pos!Create(c)
    BY <2>3, ProbeKeepsBlog, CreateKeepsBlog
  <2>4. CASE \E c \in Calls : Pos!ReadBefore(c) \/ Pos!ReadExisting(c) \/ Pos!Update(c)
    BY <2>4, SaveReadsKeepBlog, UpdateKeepsBlog
  <2>5. CASE \E c \in Calls : \/ Pos!CheckFinished(c) \/ Pos!Publish(c) \/ Pos!Unpublish(c)
                             \/ Pos!CheckDraft(c) \/ Pos!Delete(c)
    BY <2>5, ChecksKeepBlog, TimeKeepsBlog, DeleteKeepsBlog
  <2>6. CASE \E c \in Calls : Pos!ClearPins(c) \/ Pos!Pin(c) \/ Pos!Unpin(c) \/ Pos!revalidateBlog(c)
                             \/ Pos!Fails(c)
    BY <2>6, ClearKeepsBlog, PinKeepsBlog, UnpinKeepsBlog, HintKeepsBlog, FailKeepsBlog
  <2>7. CASE \E p \in Posts : Pos!Due(p)
    BY <2>7, DueKeepsBlog
  <2> QED BY <2>1, <2>2, <2>3, <2>4, <2>5, <2>6, <2>7 DEF Pos!Next
<1> QED BY <1>1, <1>2, PTL DEF Pos!Spec

\* When no request is under way nothing waits for its hint, the pin is the last
\* one set, and no published post was deleted, for any posts and any number of
\* overlapping requests, but for pins that failed halfway, requests that ended
\* between their write and their hint, and deletions that a publication
\* overtook.
THEOREM PostsBlogIsKept == Pos!Spec => []Pos!BlogIsKept
<1>1. BlogInv => Pos!BlogIsKept
  <2> SUFFICES ASSUME BlogInv PROVE Pos!BlogIsKept
    OBVIOUS
  <2>1. Pos!Quiet => \A d \in Calls : ~Pinning(d) /\ ~Hinting(d)
    BY DEF Pos!Quiet, Pinning, Hinting, Pos!Doing
  <2>2. Pos!ChangesAreHinted
    BY <2>1 DEF BlogInv, HintSoon, Pos!ChangesAreHinted
  <2>3. Pos!PinIsKept
    <3> SUFFICES ASSUME Pos!Quiet, ~botched PROVE Pos!Pinned = {pin} \ {None}
      BY DEF Pos!PinIsKept
    <3>1. Pos!Pinned \subseteq {pin} /\ None \notin Pos!Pinned
      BY PostsAreNamed DEF BlogInv, PinSoon, Pos!Pinned, Pos!Stored
    <3>2. pin # None => pin \in Pos!Pinned
      BY <2>1 DEF BlogInv, PinSoon
    <3> QED BY <3>1, <3>2
  <2>4. Pos!LiveIsKept
    BY DEF BlogInv, Pos!LiveIsKept
  <2> QED BY <2>2, <2>3, <2>4 DEF Pos!BlogIsKept
<1> QED BY <1>1, BlogInvariant, PTL

-----------------------------------------------------------------------------
(***************************************************************************)
(* Recommendations.                                                        *)
(***************************************************************************)

QueueLoad ==
  [pc : {"idle"} \cup Rec!Stages,
   branch : [Rec!Branches -> {"off", "run", "insert", "done", "failed"}],
   before : Nat, due : SUBSET Rec!Keys]

QueueTypes ==
  /\ rows \in [Rec!Keys -> Rec!Row \cup {None}]
  /\ used \in Nat /\ metered \in Nat
  /\ load \in [Loads -> QueueLoad]
  /\ {dirty, overlapped} \subseteq BOOLEAN
  /\ IsFiniteSet(Rec!Present)

\* A generator at work is one of a load that generates, and a load does not
\* leave its maintenance while that is at work.
StageInv(x) ==
  /\ \A t \in Rec!Types : x.branch[t] \in {"run", "insert"} => x.pc = "generate"
  /\ \A b \in {"wake", "dedupe"} : x.branch[b] \in {"run", "insert"} => x.pc = "maintain"
  /\ x.pc = "maintain" => x.branch["wake"] \in {"run", "done", "failed"}
  /\ x.pc = "idle" => x.due = {}

\* A snooze that a load is to wake has not been renewed; when the load has woken
\* them it sleeps no more.
Woke(x) == x.branch["wake"] = "done" \/ x.pc \in {"allowance", "generate", "count", "record"}
WakeInv(x) ==
  \A k \in x.due :
    rows[k] # None /\ rows[k].status = "snoozed" => rows[k].until = "past" /\ ~Woke(x)

\* What a lone load may yet charge for, it has made.
MeterInv(x) ==
  /\ x.pc \in {"maintain", "allowance"} => Cardinality(Rec!Present) <= x.before
  /\ x.pc \in {"generate", "count"} /\ x.before > 0
       => used + Cardinality(Rec!Present) <= metered + x.before
  /\ x.pc = "count" => x.before > 0
  /\ x.pc = "record" => used + x.before <= metered

LoadsAreRight ==
  \A l \in Loads, x \in QueueLoad : load[l] = x =>
    StageInv(x) /\ WakeInv(x) /\ (~overlapped => MeterInv(x))

\* Somebody has acted on a row that is not as it was inserted.
WorkInv ==
  \A k \in Rec!Keys :
    rows[k] # None /\ (rows[k].status # "pending" \/ rows[k].assigned) => k \in touched

LoneInv ==
  ~overlapped =>
    /\ used <= metered
    /\ \A l, m \in Loads : load[l].pc # "idle" /\ load[m].pc # "idle" => l = m

QueueInv == QueueTypes /\ LoadsAreRight /\ WorkInv /\ LoneInv /\ Rec!NoJobTwice

-----------------------------------------------------------------------------
\* The instance's count of a set is the count of that set.
LEMMA RecCounts ==
  ASSUME NEW S
  PROVE  Rec!Cardinality(S) = Cardinality(S)
BY DEF Rec!Cardinality, Cardinality, Rec!IsFiniteSet, IsFiniteSet

\* One load goes on.
LEMMA OneLoadGoesOn ==
  ASSUME QueueTypes, NEW l \in Loads, NEW x \in QueueLoad, load' = [load EXCEPT ![l] = x]
  PROVE  /\ load' \in [Loads -> QueueLoad] /\ load'[l] = x
         /\ \A m \in Loads \ {l} : load'[m] = load[m]
BY DEF QueueTypes

\* An idle load promises nothing.
LEMMA IdleMeter ==
  ASSUME NEW x, x.pc = "idle"
  PROVE  MeterInv(x) /\ MeterInv(x)'
BY DEF MeterInv

\* A load that goes on without writing to the rows or the meter.
LEMMA ReadKeepsQueue ==
  ASSUME QueueInv, NEW l \in Loads, NEW x \in QueueLoad, load' = [load EXCEPT ![l] = x],
         UNCHANGED <<rows, used, touched, metered>>,
         {dirty', overlapped'} \subseteq BOOLEAN,
         dirty => dirty', overlapped => overlapped',
         StageInv(x), WakeInv(x), ~overlapped' => MeterInv(x),
         x.pc # "idle" /\ ~overlapped' => load[l].pc # "idle" \/ \A m \in Loads : load[m].pc = "idle",
         load[l].pc = "generate" => x.pc = "generate" \/ dirty'
  PROVE  QueueInv'
<1>1. /\ load' \in [Loads -> QueueLoad] /\ load'[l] = x
      /\ \A m \in Loads \ {l} : load'[m] = load[m]
  BY OneLoadGoesOn DEF QueueInv
<1>2. Rec!Present' = Rec!Present
  BY DEF Rec!Present
<1>3. QueueTypes'
  BY <1>1, <1>2 DEF QueueInv, QueueTypes
<1>4. \A y : WakeInv(y)' = WakeInv(y) /\ MeterInv(y)' = MeterInv(y)
  BY <1>2 DEF WakeInv, MeterInv
<1>5. LoadsAreRight'
  <2> SUFFICES ASSUME NEW m \in Loads, NEW y \in QueueLoad, load'[m] = y
               PROVE  StageInv(y) /\ WakeInv(y) /\ (~overlapped' => MeterInv(y))
    BY <1>4 DEF LoadsAreRight, StageInv
  <2>1. CASE m = l
    BY <1>1, <2>1
  <2>2. CASE m # l
    BY <1>1, <2>2 DEF QueueInv, LoadsAreRight
  <2> QED BY <2>1, <2>2
<1>6. WorkInv'
  BY DEF QueueInv, WorkInv
<1>7. LoneInv'
  BY <1>1 DEF QueueInv, LoneInv
<1>8. Rec!NoJobTwice'
  <2>1. \A k : Rec!Duplicate(k)' = Rec!Duplicate(k)
    BY <1>2 DEF Rec!Duplicate
  <2> SUFFICES ASSUME NEW k \in Rec!Keys \ touched, Rec!Duplicate(k), ~dirty'
               PROVE  \E m \in Loads : load'[m].pc = "generate"
    BY <2>1 DEF Rec!NoJobTwice
  <2>2. PICK m \in Loads : load[m].pc = "generate"
    BY DEF QueueInv, Rec!NoJobTwice
  <2> QED BY <1>1, <2>2
<1> QED BY <1>3, <1>5, <1>6, <1>7, <1>8 DEF QueueInv

\* A load that has not begun, or has ended.
LEMMA NoLoadIsRight ==
  /\ Rec!NoLoad \in QueueLoad /\ Rec!NoLoad.pc = "idle" /\ Rec!NoLoad.due = {}
  /\ StageInv(Rec!NoLoad)
BY DEF Rec!NoLoad, QueueLoad, Rec!Off, StageInv, Rec!Branches

\* A load that ends.
LEMMA EndKeepsQueue ==
  ASSUME QueueInv, NEW l \in Loads, Rec!EndLoad(l), UNCHANGED <<rows, used, touched, metered, overlapped>>,
         dirty' \in BOOLEAN, dirty => dirty', load[l].pc = "generate" => dirty'
  PROVE  QueueInv'
<1> DEFINE x == Rec!NoLoad
<1>1. /\ x \in QueueLoad /\ x.pc = "idle" /\ x.due = {} /\ StageInv(x)
  BY NoLoadIsRight
<1>2. load' = [load EXCEPT ![l] = x]
  BY DEF Rec!EndLoad
<1> HIDE DEF x
<1>3. WakeInv(x) /\ MeterInv(x)
  BY <1>1, IdleMeter DEF WakeInv
<1>4. {dirty', overlapped'} \subseteq BOOLEAN
  BY DEF QueueInv, QueueTypes
<1> QED BY <1>1, <1>2, <1>3, <1>4, ReadKeepsQueue

\* What the invariant says of a load.
LEMMA LoadIsRight ==
  ASSUME QueueInv, NEW l \in Loads, NEW y, y = load[l]
  PROVE  /\ y \in QueueLoad /\ StageInv(y) /\ WakeInv(y) /\ (~overlapped => MeterInv(y))
         /\ Cardinality(Rec!Present) \in Nat /\ y.before \in Nat /\ used \in Nat /\ metered \in Nat
<1>1. y \in QueueLoad /\ IsFiniteSet(Rec!Present) /\ used \in Nat /\ metered \in Nat
  BY DEF QueueInv, QueueTypes
<1>2. Cardinality(Rec!Present) \in Nat /\ y.before \in Nat
  BY <1>1, FS_CardinalityType DEF QueueLoad
<1> QED BY <1>1, <1>2 DEF QueueInv, LoadsAreRight

\* The branches that a load starts.
LEMMA Started ==
  ASSUME NEW bs, NEW f, f = Rec!Running(bs)
  PROVE  /\ f \in [Rec!Branches -> {"off", "run", "insert", "done", "failed"}]
         /\ \A b \in Rec!Branches : f[b] = IF b \in bs THEN "run" ELSE "off"
         /\ f["wake"] = IF "wake" \in bs THEN "run" ELSE "off"
         /\ Rec!Types \subseteq Rec!Branches
BY DEF Rec!Running, Rec!Branches

\* A load begins.
LEMMA StartKeepsQueue ==
  ASSUME QueueInv, NEW l \in Loads, Rec!StartLoad(l)
  PROVE  QueueInv'
<1> DEFINE first == Rec!Present = {}
<1>1. PICK f : f = Rec!Running(IF first THEN Rec!Types ELSE {"wake", "dedupe"})
  OBVIOUS
<1>2. PICK n : n = Cardinality(Rec!Present)
  OBVIOUS
<1>3. PICK d : d = {k \in Rec!Present : Rec!Overdue(k)}
  OBVIOUS
<1> DEFINE x == [pc |-> IF first THEN "generate" ELSE "maintain", branch |-> f, before |-> n, due |-> d]
<1>4. /\ load' = [load EXCEPT ![l] = x] /\ load[l].pc = "idle"
      /\ overlapped' = (overlapped \/ \E m \in Loads : load[m].pc # "idle")
      /\ UNCHANGED <<rows, used, touched, dirty, metered>>
  <2>1. /\ load' = [load EXCEPT ![l] =
                     [pc |-> IF Rec!Present = {} THEN "generate" ELSE "maintain",
                      branch |-> Rec!Running(IF Rec!Present = {} THEN Rec!Types ELSE {"wake", "dedupe"}),
                      before |-> Cardinality(Rec!Present),
                      due |-> {k \in Rec!Present : Rec!Overdue(k)}]]
        /\ load[l].pc = "idle"
    BY RecCounts DEF Rec!StartLoad
  <2>2. /\ overlapped' = (overlapped \/ \E m \in Loads : load[m].pc # "idle")
        /\ UNCHANGED <<rows, used, touched, dirty, metered>>
    BY DEF Rec!StartLoad
  <2> QED BY <1>1, <1>2, <1>3, <2>1, <2>2
<1>5. /\ f \in [Rec!Branches -> {"off", "run", "insert", "done", "failed"}]
      /\ \A b \in Rec!Branches :
           f[b] = IF b \in (IF first THEN Rec!Types ELSE {"wake", "dedupe"}) THEN "run" ELSE "off"
      /\ f["wake"] = IF "wake" \in (IF first THEN Rec!Types ELSE {"wake", "dedupe"}) THEN "run" ELSE "off"
      /\ Rec!Types \subseteq Rec!Branches
  BY <1>1, Started
<1>6. n \in Nat /\ d \subseteq Rec!Keys /\ d \subseteq Rec!Present
  BY <1>2, <1>3, LoadIsRight DEF Rec!Present
<1>7. /\ x \in QueueLoad /\ x.branch = f /\ x.before = n /\ x.due = d
      /\ x.pc = IF first THEN "generate" ELSE "maintain"
  BY <1>5, <1>6 DEF QueueLoad, Rec!Stages
<1> HIDE DEF x
<1>8. StageInv(x)
  <2>1. \A t \in Rec!Types : x.branch[t] \in {"run", "insert"} => x.pc = "generate"
    BY <1>5, <1>7, BatchesAreFinite
  <2>2. \A b \in {"wake", "dedupe"} : x.branch[b] \in {"run", "insert"} => x.pc = "maintain"
    BY <1>5, <1>7, BatchesAreFinite DEF Rec!Branches
  <2>3. x.pc = "maintain" => x.branch["wake"] = "run"
    BY <1>5, <1>7, BatchesAreFinite
  <2>4. x.pc # "idle"
    BY <1>7
  <2> QED BY <2>1, <2>2, <2>3, <2>4 DEF StageInv
<1>9. WakeInv(x)
  <2> SUFFICES ASSUME NEW k \in x.due, rows[k] # None, rows[k].status = "snoozed"
               PROVE  rows[k].until = "past" /\ ~Woke(x)
    BY DEF WakeInv
  <2>1. ~first
    BY <1>6, <1>7
  <2>2. rows[k].until = "past"
    BY <1>3, <1>7 DEF Rec!Overdue
  <2>3. ~Woke(x)
    BY <1>5, <1>7, <2>1 DEF Woke
  <2> QED BY <2>2, <2>3
<1>10. MeterInv(x)
  <2>1. first => n = 0
    BY <1>2, FS_EmptySet
  <2> QED BY <1>2, <1>6, <1>7, <2>1 DEF MeterInv
<1>11. {dirty', overlapped'} \subseteq BOOLEAN /\ (dirty => dirty') /\ (overlapped => overlapped')
  BY <1>4 DEF QueueInv, QueueTypes
<1>12. ~overlapped' => \A m \in Loads : load[m].pc = "idle"
  BY <1>4
<1>13. load[l].pc # "generate"
  BY <1>4
<1> QED BY <1>4, <1>7, <1>8, <1>9, <1>10, <1>11, <1>12, <1>13, ReadKeepsQueue

\* A load leaves a step of its chain for the next, with new branches.
LEMMA ChainKeepsQueue ==
  ASSUME QueueInv, NEW l \in Loads,
         Rec!Maintained(l) \/ Rec!CheckAllowance(l) \/ Rec!CountCreated(l)
  PROVE  QueueInv'
<1>1. PICK y : y = load[l]
  OBVIOUS
<1>2. /\ y \in QueueLoad /\ StageInv(y) /\ WakeInv(y) /\ (~overlapped => MeterInv(y))
      /\ Cardinality(Rec!Present) \in Nat /\ y.before \in Nat /\ used \in Nat /\ metered \in Nat
  BY <1>1, LoadIsRight
<1>3. UNCHANGED <<rows, used, touched, dirty, overlapped, metered>>
  BY DEF Rec!Maintained, Rec!CheckAllowance, Rec!CountCreated
<1>4. {dirty', overlapped'} \subseteq BOOLEAN /\ (dirty => dirty') /\ (overlapped => overlapped')
  BY <1>3 DEF QueueInv, QueueTypes
<1>5. y.pc \in {"maintain", "allowance", "count"}
  BY <1>1 DEF Rec!Maintained, Rec!CheckAllowance, Rec!CountCreated
<1>6. CASE Rec!EndLoad(l)
  BY <1>1, <1>3, <1>4, <1>5, <1>6, EndKeepsQueue
<1>7. CASE Rec!Maintained(l) \/ (Rec!CheckAllowance(l) /\ ~Rec!EndLoad(l))
  <2>1. PICK stage \in {"allowance", "generate"}, bs \in {{}, Rec!Types} :
          /\ Rec!Go(l, stage, bs)
          /\ stage = "allowance" => y.pc = "maintain" /\ bs = {} /\ y.branch["wake"] = "done"
          /\ stage = "generate" => y.pc = "allowance"
    <3>1. CASE Rec!Maintained(l)
      <4>1. y.pc = "maintain" /\ Rec!Settled(l) /\ ~Rec!Failed(l) /\ Rec!Go(l, "allowance", {})
        BY <1>1, <3>1 DEF Rec!Maintained
      <4>2. "wake" \in Rec!Branches
        BY DEF Rec!Branches
      <4>3. y.branch["wake"] = "done"
        BY <1>1, <1>2, <4>1, <4>2 DEF StageInv, Rec!Settled, Rec!Failed
      <4> QED BY <4>1, <4>3
    <3>2. CASE Rec!CheckAllowance(l) /\ ~Rec!EndLoad(l)
      BY <1>1, <3>2 DEF Rec!CheckAllowance
    <3> QED BY <1>7, <3>1, <3>2
  <2>2. PICK f : f = Rec!Running(bs)
    OBVIOUS
  <2>3. /\ f \in [Rec!Branches -> {"off", "run", "insert", "done", "failed"}]
        /\ \A b \in Rec!Branches : f[b] = IF b \in bs THEN "run" ELSE "off"
        /\ f["wake"] = IF "wake" \in bs THEN "run" ELSE "off"
        /\ Rec!Types \subseteq Rec!Branches
    BY <2>2, Started
  <2> DEFINE x == [y EXCEPT !.pc = stage, !.branch = f]
  <2>4. load' = [load EXCEPT ![l] = x]
    BY <1>1, <2>1, <2>2 DEF Rec!Go
  <2>5. /\ x \in QueueLoad /\ x.pc = stage /\ x.branch = f /\ x.before = y.before /\ x.due = y.due
    BY <1>2, <2>1, <2>3 DEF QueueLoad, Rec!Stages
  <2> HIDE DEF x
  <2>6. StageInv(x)
    <3>1. \A t \in Rec!Types : x.branch[t] \in {"run", "insert"} => x.pc = "generate"
      BY <2>1, <2>3, <2>5
    <3>2. \A b \in {"wake", "dedupe"} : x.branch[b] = "off"
      BY <2>1, <2>3, <2>5, BatchesAreFinite DEF Rec!Branches
    <3>3. x.pc \notin {"maintain", "idle"}
      BY <2>1, <2>5
    <3> QED BY <3>1, <3>2, <3>3 DEF StageInv
  <2>7. Woke(y)
    BY <2>1 DEF Woke
  <2>8. WakeInv(x)
    BY <1>2, <2>5, <2>7 DEF WakeInv
  <2>9. ~overlapped' => MeterInv(x)
    <3>1. ~overlapped => Cardinality(Rec!Present) <= x.before /\ used <= metered
      BY <1>2, <2>1, <2>5 DEF MeterInv, QueueInv, LoneInv
    <3> QED BY <1>2, <1>3, <2>1, <2>5, <3>1 DEF MeterInv
  <2>10. load[l].pc # "idle" /\ load[l].pc # "generate"
    BY <1>1, <1>5
  <2> QED BY <1>3, <1>4, <2>4, <2>5, <2>6, <2>8, <2>9, <2>10, ReadKeepsQueue
<1>8. CASE Rec!CountCreated(l) /\ ~Rec!EndLoad(l)
  <2> DEFINE n == Cardinality(Rec!Present) - y.before
             x == [y EXCEPT !.pc = "record", !.before = n]
  <2>1. load' = [load EXCEPT ![l] = x] /\ y.pc = "count" /\ Cardinality(Rec!Present) > y.before
    <3>1. y.pc = "count"
      BY <1>1, <1>8 DEF Rec!CountCreated
    <3>2. /\ Cardinality(Rec!Present) > load[l].before
          /\ load' = [load EXCEPT ![l].pc = "record",
                                  ![l].before = Cardinality(Rec!Present) - load[l].before]
      BY <1>8, RecCounts DEF Rec!CountCreated
    <3>3. \A n0 : [load EXCEPT ![l].pc = "record", ![l].before = n0]
                  = [load EXCEPT ![l] = [load[l] EXCEPT !.pc = "record", !.before = n0]]
      OBVIOUS
    <3> QED BY <1>1, <3>1, <3>2, <3>3
  <2>2. n \in Nat /\ n + y.before = Cardinality(Rec!Present)
    BY <1>2, <2>1
  <2> HIDE DEF n
  <2>3. /\ x \in QueueLoad /\ x.pc = "record" /\ x.branch = y.branch /\ x.before = n /\ x.due = y.due
    BY <1>2, <2>2 DEF QueueLoad, Rec!Stages
  <2> HIDE DEF x
  <2>4. StageInv(x)
    BY <1>2, <2>1, <2>3 DEF StageInv
  <2>5. WakeInv(x)
    BY <1>2, <2>1, <2>3 DEF WakeInv, Woke
  <2>6. ~overlapped' => MeterInv(x)
    <3>1. ~overlapped => y.before > 0 /\ used + Cardinality(Rec!Present) <= metered + y.before
      BY <1>2, <2>1 DEF MeterInv
    <3> QED BY <1>2, <1>3, <2>2, <2>3, <3>1 DEF MeterInv
  <2>7. load[l].pc # "idle" /\ load[l].pc # "generate"
    BY <1>1, <1>5
  <2> QED BY <1>3, <1>4, <2>1, <2>3, <2>4, <2>5, <2>6, <2>7, ReadKeepsQueue
<1> QED BY <1>6, <1>7, <1>8

\* A branch of a load goes on without writing.
LEMMA BranchKeepsQueue ==
  ASSUME QueueInv, NEW l \in Loads,
         (\E t \in Rec!Types : Rec!CheckType(l, t)) \/ (\E b \in Rec!Branches : Rec!BranchFails(l, b))
  PROVE  QueueInv'
<1>1. PICK y : y = load[l]
  OBVIOUS
<1>2. /\ y \in QueueLoad /\ StageInv(y) /\ WakeInv(y) /\ (~overlapped => MeterInv(y))
  BY <1>1, LoadIsRight
<1>3. UNCHANGED <<rows, used, touched, dirty, overlapped, metered>>
  BY DEF Rec!CheckType, Rec!BranchFails
<1>4. {dirty', overlapped'} \subseteq BOOLEAN /\ (dirty => dirty') /\ (overlapped => overlapped')
  BY <1>3 DEF QueueInv, QueueTypes
<1>5. PICK b \in Rec!Branches, to \in {"done", "insert", "failed"} :
        /\ load' = [load EXCEPT ![l].branch[b] = to]
        /\ y.branch[b] \in {"run", "insert"}
        /\ b \in Rec!Types \/ to = "failed"
  BY <1>1 DEF Rec!CheckType, Rec!BranchFails, Rec!Branch, Rec!Branches
<1> DEFINE f == [y.branch EXCEPT ![b] = to]
           x == [y EXCEPT !.branch = f]
<1>6. load' = [load EXCEPT ![l] = x]
  BY <1>1, <1>5
<1>7. /\ f \in [Rec!Branches -> {"off", "run", "insert", "done", "failed"}]
      /\ f[b] = to /\ \A c \in Rec!Branches \ {b} : f[c] = y.branch[c]
      /\ Rec!Types \subseteq Rec!Branches /\ "wake" \in Rec!Branches
  BY <1>2, <1>5 DEF QueueLoad, Rec!Branches
<1> HIDE DEF f
<1>8. /\ x \in QueueLoad /\ x.pc = y.pc /\ x.branch = f /\ x.before = y.before /\ x.due = y.due
  BY <1>2, <1>7 DEF QueueLoad
<1> HIDE DEF x
<1>9. b = "wake" => to = "failed"
  BY <1>5, BatchesAreFinite
<1>10. StageInv(x)
  <2>1. \A c \in Rec!Branches : x.branch[c] \in {"run", "insert"} => y.branch[c] \in {"run", "insert"}
    BY <1>5, <1>7, <1>8
  <2>2. y.branch["wake"] \in {"run", "done", "failed"} => x.branch["wake"] \in {"run", "done", "failed"}
    BY <1>5, <1>7, <1>8, <1>9
  <2>3. {"wake", "dedupe"} \subseteq Rec!Branches
    BY DEF Rec!Branches
  <2> QED BY <1>2, <1>7, <1>8, <2>1, <2>2, <2>3 DEF StageInv
<1>11. WakeInv(x)
  <2>1. Woke(x) => Woke(y)
    BY <1>7, <1>8, <1>9 DEF Woke
  <2> QED BY <1>2, <1>8, <2>1 DEF WakeInv
<1>12. ~overlapped' => MeterInv(x)
  BY <1>2, <1>3, <1>8 DEF MeterInv
<1>13. /\ x.pc # "idle" => load[l].pc # "idle"
       /\ load[l].pc = "generate" => x.pc = "generate"
  BY <1>1, <1>8
<1> QED BY <1>3, <1>4, <1>6, <1>8, <1>10, <1>11, <1>12, <1>13, ReadKeepsQueue

\* A load that goes on and writes, and wakes nobody's snooze but its own.
LEMMA WriteKeepsQueue ==
  ASSUME QueueInv, NEW l \in Loads, NEW x \in QueueLoad, load' = [load EXCEPT ![l] = x],
         load[l].pc # "idle",
         rows' \in [Rec!Keys -> Rec!Row \cup {None}], IsFiniteSet(Rec!Present'),
         used' \in Nat, metered' \in Nat, dirty' \in BOOLEAN, overlapped' = overlapped,
         \A k \in Rec!Keys : rows'[k] # None /\ rows'[k].status = "snoozed" => rows[k] = rows'[k],
         StageInv(x), WakeInv(x)', ~overlapped => MeterInv(x)' /\ used' <= metered',
         WorkInv', Rec!NoJobTwice'
  PROVE  QueueInv'
<1>1. /\ load' \in [Loads -> QueueLoad] /\ load'[l] = x
      /\ \A m \in Loads \ {l} : load'[m] = load[m]
  BY OneLoadGoesOn DEF QueueInv
<1>2. QueueTypes'
  BY <1>1 DEF QueueInv, QueueTypes
<1>3. LoadsAreRight'
  <2> SUFFICES ASSUME NEW m \in Loads, NEW y \in QueueLoad, load'[m] = y
               PROVE  StageInv(y) /\ WakeInv(y)' /\ (~overlapped' => MeterInv(y)')
    BY DEF LoadsAreRight, StageInv
  <2>1. CASE m = l
    BY <1>1, <2>1
  <2>2. CASE m # l
    <3>1. y = load[m] /\ StageInv(y) /\ WakeInv(y)
      BY <1>1, <2>2 DEF QueueInv, LoadsAreRight
    <3>2. WakeInv(y)'
      <4>1. y.due \subseteq Rec!Keys
        BY DEF QueueLoad
      <4> QED BY <3>1, <4>1 DEF WakeInv, Woke
    <3>3. ~overlapped => MeterInv(y)'
      <4>1. ~overlapped => y.pc = "idle"
        BY <2>2, <3>1 DEF QueueInv, LoneInv
      <4> QED BY <4>1, IdleMeter
    <3> QED BY <3>1, <3>2, <3>3
  <2> QED BY <2>1, <2>2
<1>4. LoneInv'
  BY <1>1 DEF QueueInv, LoneInv
<1> QED BY <1>2, <1>3, <1>4 DEF QueueInv

\* Snoozes that have run out wake.
LEMMA WakeKeepsQueue ==
  ASSUME QueueInv, NEW l \in Loads, Rec!Wake(l)
  PROVE  QueueInv'
<1>1. PICK y : y = load[l]
  OBVIOUS
<1>2. /\ y \in QueueLoad /\ StageInv(y) /\ WakeInv(y) /\ (~overlapped => MeterInv(y))
  BY <1>1, LoadIsRight
<1>3. /\ y.branch["wake"] = "run" /\ load' = [load EXCEPT ![l].branch["wake"] = "done"]
      /\ UNCHANGED <<used, touched, dirty, overlapped, metered>>
  BY <1>1 DEF Rec!Wake, Rec!Branch
<1>4. \A k \in Rec!Keys :
        rows'[k] = IF rows[k] # None /\ Rec!Overdue(k)
                   THEN [rows[k] EXCEPT !.status = "pending", !.until = "null"] ELSE rows[k]
  BY DEF Rec!Wake
<1>5. \A k \in Rec!Keys :
        rows[k] # None =>
          [rows[k] EXCEPT !.status = "pending", !.until = "null"]
            \in [status : {"pending"}, assigned : {rows[k].assigned}, until : {"null"}]
  BY DEF QueueInv, QueueTypes, Rec!Row
<1>6. \A k \in Rec!Keys : rows[k] # None => rows[k] \in Rec!Row
  BY DEF QueueInv, QueueTypes
<1>7. \A k \in Rec!Keys :
        \/ rows'[k] = rows[k] /\ ~(rows[k] # None /\ Rec!Overdue(k))
        \/ /\ rows[k] # None /\ Rec!Overdue(k) /\ rows'[k] # None
           /\ rows'[k] \in Rec!Row /\ rows'[k].status = "pending"
  <2> TAKE k \in Rec!Keys
  <2>1. CASE rows[k] # None /\ Rec!Overdue(k)
    <3> DEFINE r == [rows[k] EXCEPT !.status = "pending", !.until = "null"]
    <3>1. r \in [status : {"pending"}, assigned : {rows[k].assigned}, until : {"null"}]
      BY <1>5, <2>1
    <3>2. rows'[k] = r
      BY <1>4, <2>1
    <3> HIDE DEF r
    <3>3. r \in Rec!Row /\ r.status = "pending"
      BY <1>6, <2>1, <3>1 DEF Rec!Row
    <3> QED BY <2>1, <3>2, <3>3, BatchesAreFinite
  <2>2. CASE ~(rows[k] # None /\ Rec!Overdue(k))
    BY <1>4, <2>2
  <2> QED BY <2>1, <2>2
<1>8. rows' \in [Rec!Keys -> Rec!Row \cup {None}]
  <2>1. rows' = [k \in Rec!Keys |-> rows'[k]]
    BY DEF Rec!Wake
  <2>2. \A k \in Rec!Keys : rows'[k] \in Rec!Row \cup {None}
    BY <1>6, <1>7
  <2> QED BY <2>1, <2>2
<1>9. Rec!Present' = Rec!Present /\ IsFiniteSet(Rec!Present)
  BY <1>7 DEF Rec!Present, QueueInv, QueueTypes
<1> DEFINE f == [y.branch EXCEPT !["wake"] = "done"]
           x == [y EXCEPT !.branch = f]
<1>10. load' = [load EXCEPT ![l] = x]
  BY <1>1, <1>3
<1>11. /\ f \in [Rec!Branches -> {"off", "run", "insert", "done", "failed"}]
       /\ f["wake"] = "done" /\ \A c \in Rec!Branches \ {"wake"} : f[c] = y.branch[c]
       /\ Rec!Types \cup {"dedupe"} \subseteq Rec!Branches \ {"wake"}
  BY <1>2, BatchesAreFinite DEF QueueLoad, Rec!Branches
<1> HIDE DEF f
<1>12. /\ x \in QueueLoad /\ x.pc = y.pc /\ x.branch = f /\ x.before = y.before /\ x.due = y.due
  BY <1>2, <1>11 DEF QueueLoad
<1> HIDE DEF x
<1>13. StageInv(x)
  BY <1>2, <1>11, <1>12 DEF StageInv
<1>14. WakeInv(x)'
  <2> SUFFICES ASSUME NEW k \in x.due, rows'[k] # None, rows'[k].status = "snoozed"
               PROVE  FALSE
    BY DEF WakeInv
  <2>1. k \in Rec!Keys
    BY <1>12 DEF QueueLoad
  <2>2. rows[k] = rows'[k] /\ ~Rec!Overdue(k)
    BY <1>7, <2>1
  <2> QED BY <1>2, <1>12, <2>2 DEF WakeInv, Rec!Overdue
<1>15. ~overlapped => MeterInv(x)' /\ used' <= metered'
  BY <1>2, <1>3, <1>9, <1>12 DEF MeterInv, QueueInv, LoneInv
<1>16. WorkInv'
  BY <1>3, <1>7 DEF QueueInv, WorkInv, Rec!Overdue
<1>17. Rec!NoJobTwice'
  <2> SUFFICES ASSUME NEW k \in Rec!Keys, k \notin touched, Rec!Duplicate(k)'
               PROVE  dirty' \/ \E m \in Loads : load'[m].pc = "generate"
    BY <1>3 DEF Rec!NoJobTwice
  <2>1. rows'[k] = rows[k]
    BY <1>7 DEF QueueInv, WorkInv, Rec!Overdue
  <2>2. Rec!Duplicate(k)
    BY <1>9, <2>1 DEF Rec!Duplicate
  <2>3. dirty \/ \E m \in Loads : load[m].pc = "generate"
    BY <2>2 DEF QueueInv, Rec!NoJobTwice
  <2>4. \A m \in Loads : load'[m].pc = load[m].pc
    BY <1>1, <1>10, <1>12 DEF QueueInv, QueueTypes
  <2> QED BY <1>3, <2>3, <2>4
<1>18. y.pc = "maintain"
  BY <1>2, <1>3 DEF StageInv
<1>19. \A k \in Rec!Keys : rows'[k] # None /\ rows'[k].status = "snoozed" => rows[k] = rows'[k]
  BY <1>7
<1>20. used' \in Nat /\ metered' \in Nat /\ dirty' \in BOOLEAN /\ overlapped' = overlapped
  BY <1>3 DEF QueueInv, QueueTypes
<1>21. IsFiniteSet(Rec!Present') /\ load[l].pc # "idle"
  BY <1>1, <1>9, <1>18
<1> QED BY <1>8, <1>10, <1>12, <1>13, <1>14, <1>15, <1>16, <1>17, <1>19, <1>20, <1>21, WriteKeepsQueue

\* Deleting duplicates.
LEMMA DedupeClears ==
  ASSUME QueueInv, Rec!Dedupe
  PROVE  /\ rows' \in [Rec!Keys -> Rec!Row \cup {None}]
         /\ \A k \in Rec!Keys : rows'[k] # None => rows'[k] = rows[k]
         /\ Rec!Present' \subseteq Rec!Present /\ IsFiniteSet(Rec!Present')
         /\ Cardinality(Rec!Present') <= Cardinality(Rec!Present)
         /\ Cardinality(Rec!Present') \in Nat /\ Cardinality(Rec!Present) \in Nat
         /\ WorkInv' /\ Rec!NoJobTwice' /\ dirty' = FALSE
<1>1. /\ rows \in [Rec!Keys -> Rec!Row \cup {None}] /\ IsFiniteSet(Rec!Present)
      /\ touched' = {k \in touched : ~Rec!Duplicate(k)} /\ dirty' = FALSE
  BY DEF Rec!Dedupe, QueueInv, QueueTypes
<1>2. \A k \in Rec!Keys : rows'[k] = IF Rec!Duplicate(k) THEN None ELSE rows[k]
  BY DEF Rec!Dedupe
<1>3. rows' \in [Rec!Keys -> Rec!Row \cup {None}]
  <2>1. rows' = [k \in Rec!Keys |-> rows'[k]]
    BY DEF Rec!Dedupe
  <2>2. \A k \in Rec!Keys : rows'[k] \in Rec!Row \cup {None}
    BY <1>1, <1>2
  <2> QED BY <2>1, <2>2
<1>4. \A k \in Rec!Keys : rows'[k] # None => rows'[k] = rows[k] /\ ~Rec!Duplicate(k)
  BY <1>2
<1>5. Rec!Present' \subseteq Rec!Present
  BY <1>4 DEF Rec!Present
<1>6. IsFiniteSet(Rec!Present') /\ Cardinality(Rec!Present') <= Cardinality(Rec!Present)
  BY <1>1, <1>5, FS_Subset
<1>7. Cardinality(Rec!Present') \in Nat /\ Cardinality(Rec!Present) \in Nat
  BY <1>1, <1>6, FS_CardinalityType
<1>8. WorkInv'
  BY <1>1, <1>4 DEF QueueInv, WorkInv
<1>9. \A k \in Rec!Keys : ~Rec!Duplicate(k)'
  BY <1>4, <1>5 DEF Rec!Duplicate
<1>10. Rec!NoJobTwice'
  BY <1>9 DEF Rec!NoJobTwice
<1> QED BY <1>1, <1>3, <1>4, <1>5, <1>6, <1>7, <1>8, <1>10

\* Duplicates are deleted in between.
LEMMA DedupeBranchKeepsQueue ==
  ASSUME QueueInv, NEW l \in Loads, Rec!DedupeBranch(l)
  PROVE  QueueInv'
<1>1. PICK y : y = load[l]
  OBVIOUS
<1>2. /\ y \in QueueLoad /\ StageInv(y) /\ WakeInv(y) /\ (~overlapped => MeterInv(y))
      /\ y.before \in Nat /\ used \in Nat /\ metered \in Nat
  BY <1>1, LoadIsRight
<1>3. /\ y.branch["dedupe"] = "run" /\ load' = [load EXCEPT ![l].branch["dedupe"] = "done"]
      /\ UNCHANGED <<used, overlapped, metered>>
  BY <1>1 DEF Rec!DedupeBranch, Rec!Branch
<1>4. /\ rows' \in [Rec!Keys -> Rec!Row \cup {None}]
      /\ \A k \in Rec!Keys : rows'[k] # None => rows'[k] = rows[k]
      /\ IsFiniteSet(Rec!Present')
      /\ Cardinality(Rec!Present') <= Cardinality(Rec!Present)
      /\ Cardinality(Rec!Present') \in Nat /\ Cardinality(Rec!Present) \in Nat
      /\ WorkInv' /\ Rec!NoJobTwice' /\ dirty' = FALSE
  BY DedupeClears DEF Rec!DedupeBranch
<1> DEFINE f == [y.branch EXCEPT !["dedupe"] = "done"]
           x == [y EXCEPT !.branch = f]
<1>5. load' = [load EXCEPT ![l] = x]
  BY <1>1, <1>3
<1>6. /\ f \in [Rec!Branches -> {"off", "run", "insert", "done", "failed"}]
      /\ f["dedupe"] = "done" /\ \A c \in Rec!Branches \ {"dedupe"} : f[c] = y.branch[c]
      /\ Rec!Types \cup {"wake"} \subseteq Rec!Branches \ {"dedupe"}
  BY <1>2, BatchesAreFinite DEF QueueLoad, Rec!Branches
<1> HIDE DEF f
<1>7. /\ x \in QueueLoad /\ x.pc = y.pc /\ x.branch = f /\ x.before = y.before /\ x.due = y.due
  BY <1>2, <1>6 DEF QueueLoad
<1> HIDE DEF x
<1>8. StageInv(x)
  BY <1>2, <1>6, <1>7 DEF StageInv
<1>9. WakeInv(x)'
  <2>1. x.due \subseteq Rec!Keys
    BY <1>7 DEF QueueLoad
  <2> QED BY <1>2, <1>4, <1>6, <1>7, <2>1 DEF WakeInv, Woke
<1>10. y.pc = "maintain"
  BY <1>2, <1>3 DEF StageInv
<1>11. ~overlapped => MeterInv(x)' /\ used' <= metered'
  <2>1. ~overlapped => Cardinality(Rec!Present) <= y.before /\ used <= metered
    BY <1>2, <1>10 DEF MeterInv, QueueInv, LoneInv
  <2> QED BY <1>2, <1>3, <1>4, <1>7, <1>10, <2>1 DEF MeterInv
<1>12. used' \in Nat /\ metered' \in Nat /\ dirty' \in BOOLEAN /\ overlapped' = overlapped
  BY <1>2, <1>3, <1>4
<1>13. load[l].pc # "idle"
  BY <1>1, <1>10
<1>14. \A k \in Rec!Keys : rows'[k] # None /\ rows'[k].status = "snoozed" => rows[k] = rows'[k]
  BY <1>4
<1> QED BY <1>4, <1>5, <1>7, <1>8, <1>9, <1>11, <1>12, <1>13, <1>14, WriteKeepsQueue

\* Duplicates are deleted once a load has generated.
LEMMA DedupeBatchKeepsQueue ==
  ASSUME QueueInv, NEW l \in Loads, Rec!DedupeBatch(l)
  PROVE  QueueInv'
<1>1. PICK y : y = load[l]
  OBVIOUS
<1>2. /\ y \in QueueLoad /\ StageInv(y) /\ WakeInv(y) /\ (~overlapped => MeterInv(y))
      /\ y.before \in Nat /\ used \in Nat /\ metered \in Nat
  BY <1>1, LoadIsRight
<1>3. y.pc = "generate" /\ UNCHANGED <<used, overlapped, metered>>
  BY <1>1 DEF Rec!DedupeBatch
<1>4. /\ rows' \in [Rec!Keys -> Rec!Row \cup {None}]
      /\ \A k \in Rec!Keys : rows'[k] # None => rows'[k] = rows[k]
      /\ IsFiniteSet(Rec!Present')
      /\ Cardinality(Rec!Present') <= Cardinality(Rec!Present)
      /\ Cardinality(Rec!Present') \in Nat /\ Cardinality(Rec!Present) \in Nat
      /\ WorkInv' /\ Rec!NoJobTwice' /\ dirty' = FALSE
  BY DedupeClears DEF Rec!DedupeBatch
<1>5. used' \in Nat /\ metered' \in Nat /\ dirty' \in BOOLEAN /\ overlapped' = overlapped
  BY <1>2, <1>3, <1>4
<1>6. load[l].pc # "idle"
  BY <1>1, <1>3
<1>7. \A k \in Rec!Keys : rows'[k] # None /\ rows'[k].status = "snoozed" => rows[k] = rows'[k]
  BY <1>4
<1>8. ~overlapped => used <= metered
  BY DEF QueueInv, LoneInv
<1>9. CASE y.before = 0
  <2> DEFINE x == Rec!NoLoad
  <2>1. load' = [load EXCEPT ![l] = x]
    BY <1>1, <1>9 DEF Rec!DedupeBatch, Rec!EndLoad
  <2>2. x \in QueueLoad /\ x.pc = "idle" /\ x.due = {} /\ StageInv(x)
    BY NoLoadIsRight
  <2> HIDE DEF x
  <2>3. WakeInv(x)' /\ MeterInv(x)'
    BY <2>2, IdleMeter DEF WakeInv
  <2>4. ~overlapped => MeterInv(x)' /\ used' <= metered'
    BY <1>3, <1>8, <2>3
  <2> QED BY <1>4, <1>5, <1>6, <1>7, <2>1, <2>2, <2>3, <2>4, WriteKeepsQueue
<1>10. CASE y.before # 0
  <2>1. PICK f : f = Rec!Running({})
    OBVIOUS
  <2>2. /\ f \in [Rec!Branches -> {"off", "run", "insert", "done", "failed"}]
        /\ \A b \in Rec!Branches : f[b] = "off"
    BY <2>1, Started
  <2> DEFINE x == [y EXCEPT !.pc = "count", !.branch = f]
  <2>3. load' = [load EXCEPT ![l] = x]
    BY <1>1, <1>10, <2>1 DEF Rec!DedupeBatch, Rec!Go
  <2>4. /\ x \in QueueLoad /\ x.pc = "count" /\ x.branch = f /\ x.before = y.before /\ x.due = y.due
    BY <1>2, <2>2 DEF QueueLoad, Rec!Stages
  <2> HIDE DEF x
  <2>5. StageInv(x)
    BY <2>2, <2>4 DEF StageInv, Rec!Branches
  <2>6. WakeInv(x)'
    <3>1. x.due \subseteq Rec!Keys
      BY <2>4 DEF QueueLoad
    <3> QED BY <1>2, <1>3, <1>4, <2>4, <3>1 DEF WakeInv, Woke
  <2>7. ~overlapped => MeterInv(x)' /\ used' <= metered'
    <3>1. ~overlapped => y.before > 0 /\ used + Cardinality(Rec!Present) <= metered + y.before
      BY <1>2, <1>3, <1>10 DEF MeterInv
    <3> QED BY <1>2, <1>3, <1>4, <1>8, <2>4, <3>1 DEF MeterInv
  <2> QED BY <1>4, <1>5, <1>6, <1>7, <2>3, <2>4, <2>5, <2>6, <2>7, WriteKeepsQueue
<1> QED BY <1>9, <1>10

\* What was made is charged for.
LEMMA RecordKeepsQueue ==
  ASSUME QueueInv, NEW l \in Loads, Rec!RecordUsage(l)
  PROVE  QueueInv'
<1>1. PICK y : y = load[l]
  OBVIOUS
<1>2. /\ y \in QueueLoad /\ (~overlapped => MeterInv(y))
      /\ y.before \in Nat /\ used \in Nat /\ metered \in Nat
  BY <1>1, LoadIsRight
<1> DEFINE x == Rec!NoLoad
<1>3. /\ y.pc = "record" /\ used' = used + y.before /\ load' = [load EXCEPT ![l] = x]
      /\ UNCHANGED <<rows, touched, dirty, overlapped, metered>>
  BY <1>1 DEF Rec!RecordUsage, Rec!EndLoad
<1>4. x \in QueueLoad /\ x.pc = "idle" /\ x.due = {} /\ StageInv(x)
  BY NoLoadIsRight
<1> HIDE DEF x
<1>5. WakeInv(x)' /\ MeterInv(x)'
  BY <1>4, IdleMeter DEF WakeInv
<1>6. ~overlapped => MeterInv(x)' /\ used' <= metered'
  BY <1>2, <1>3, <1>5 DEF MeterInv
<1>7. /\ rows' \in [Rec!Keys -> Rec!Row \cup {None}] /\ IsFiniteSet(Rec!Present')
      /\ Rec!Present' = Rec!Present
      /\ used' \in Nat /\ metered' \in Nat /\ dirty' \in BOOLEAN /\ overlapped' = overlapped
  BY <1>2, <1>3 DEF QueueInv, QueueTypes, Rec!Present
<1>8. \A k \in Rec!Keys : rows'[k] # None /\ rows'[k].status = "snoozed" => rows[k] = rows'[k]
  BY <1>3
<1>9. WorkInv'
  BY <1>3 DEF QueueInv, WorkInv
<1>10. Rec!NoJobTwice'
  <2>1. \A k : Rec!Duplicate(k)' = Rec!Duplicate(k)
    BY <1>3, <1>7 DEF Rec!Duplicate
  <2> SUFFICES ASSUME NEW k \in Rec!Keys \ touched, Rec!Duplicate(k), ~dirty'
               PROVE  \E m \in Loads : load'[m].pc = "generate"
    BY <1>3, <2>1 DEF Rec!NoJobTwice
  <2>2. PICK m \in Loads : load[m].pc = "generate"
    BY <1>3 DEF QueueInv, Rec!NoJobTwice
  <2> QED BY <1>1, <1>3, <2>2 DEF QueueInv, QueueTypes
<1>11. load[l].pc # "idle"
  BY <1>1, <1>3
<1> QED BY <1>3, <1>4, <1>5, <1>6, <1>7, <1>8, <1>9, <1>10, <1>11, WriteKeepsQueue

\* What a batch adds is no more than the batch.
LEMMA BatchIsCounted ==
  ASSUME QueueInv, NEW l \in Loads, NEW t \in Rec!Types, Rec!InsertBatch(l, t)
  PROVE  /\ \A k \in Rec!Keys : rows'[k] = rows[k] \/ rows'[k] = Rec!Fresh
         /\ rows' \in [Rec!Keys -> Rec!Row \cup {None}]
         /\ IsFiniteSet(Rec!Present')
         /\ Cardinality(Batch[t]) \in Nat /\ Cardinality(Rec!Present) \in Nat
         /\ Cardinality(Rec!Present') \in Nat
         /\ Cardinality(Rec!Present') <= Cardinality(Rec!Present) + Cardinality(Batch[t])
<1> DEFINE B == Batch[t]
           copy == [n \in B |-> Rec!Min(Rec!FreeCopies(t, n) \cup {MaxCopies + 1})]
           key == [n \in B |-> <<t, n, copy[n]>>]
           made == {key[n] : n \in B}
<1>1. IsFiniteSet(B) /\ IsFiniteSet(Rec!Present) /\ rows \in [Rec!Keys -> Rec!Row \cup {None}]
  BY BatchesAreFinite DEF QueueInv, QueueTypes
<1>2. \A k \in Rec!Keys :
        rows'[k] = IF k[1] = t /\ k[2] \in B /\ k[3] = copy[k[2]] THEN Rec!Fresh ELSE rows[k]
  BY DEF Rec!InsertBatch
<1>3. rows' = [k \in Rec!Keys |-> rows'[k]]
  BY DEF Rec!InsertBatch
<1> HIDE DEF B, copy
<1>4. Rec!Fresh \in Rec!Row
  BY DEF Rec!Fresh, Rec!Row
<1>5. rows' \in [Rec!Keys -> Rec!Row \cup {None}]
  <2>1. \A k \in Rec!Keys : rows'[k] \in Rec!Row \cup {None}
    BY <1>1, <1>2, <1>4
  <2> QED BY <1>3, <2>1
<1>6. Rec!Present' \subseteq Rec!Present \cup made
  <2> SUFFICES ASSUME NEW k \in Rec!Keys, rows'[k] # None, rows[k] = None
               PROVE  k \in made
    BY DEF Rec!Present
  <2>1. k[1] = t /\ k[2] \in B /\ k[3] = copy[k[2]]
    BY <1>2
  <2>2. k = <<k[1], k[2], k[3]>>
    BY DEF Rec!Keys
  <2>3. k = key[k[2]]
    BY <2>1, <2>2
  <2> QED BY <2>1, <2>3
<1>7. key \in Surjection(B, made)
  BY DEF Surjection
<1> HIDE DEF key, made
<1>8. IsFiniteSet(made) /\ Cardinality(made) <= Cardinality(B)
  BY <1>1, <1>7, FS_Surjection
<1>9. /\ IsFiniteSet(Rec!Present \cup made)
      /\ Cardinality(Rec!Present \cup made)
           = Cardinality(Rec!Present) + Cardinality(made) - Cardinality(Rec!Present \cap made)
  BY <1>1, <1>8, FS_Union
<1>10. IsFiniteSet(Rec!Present') /\ Cardinality(Rec!Present') <= Cardinality(Rec!Present \cup made)
  BY <1>6, <1>9, FS_Subset
<1>11. IsFiniteSet(Rec!Present \cap made)
  BY <1>1, FS_Subset
<1>12. /\ Cardinality(B) \in Nat /\ Cardinality(made) \in Nat /\ Cardinality(Rec!Present) \in Nat
       /\ Cardinality(Rec!Present \cap made) \in Nat /\ Cardinality(Rec!Present') \in Nat
       /\ Cardinality(Rec!Present \cup made) \in Nat
  BY <1>1, <1>8, <1>9, <1>10, <1>11, FS_CardinalityType
<1>13. Cardinality(Rec!Present') <= Cardinality(Rec!Present) + Cardinality(B)
  BY <1>8, <1>9, <1>10, <1>12
<1>14. \A k \in Rec!Keys : rows'[k] = rows[k] \/ rows'[k] = Rec!Fresh
  BY <1>2
<1> QED BY <1>5, <1>10, <1>12, <1>13, <1>14 DEF B

\* A generator inserts its batch.
LEMMA InsertKeepsQueue ==
  ASSUME QueueInv, NEW l \in Loads, NEW t \in Rec!Types, Rec!InsertBatch(l, t)
  PROVE  QueueInv'
<1>1. PICK y : y = load[l]
  OBVIOUS
<1>2. /\ y \in QueueLoad /\ StageInv(y) /\ WakeInv(y) /\ (~overlapped => MeterInv(y))
      /\ y.before \in Nat /\ used \in Nat /\ metered \in Nat
  BY <1>1, LoadIsRight
<1>3. /\ y.branch[t] = "insert" /\ load' = [load EXCEPT ![l].branch[t] = "done"]
      /\ UNCHANGED <<used, touched, dirty, overlapped>>
  BY <1>1 DEF Rec!InsertBatch, Rec!Branch
<1>4. PICK n : n = Cardinality(Batch[t])
  OBVIOUS
<1>5. /\ \A k \in Rec!Keys : rows'[k] = rows[k] \/ rows'[k] = Rec!Fresh
      /\ rows' \in [Rec!Keys -> Rec!Row \cup {None}]
      /\ IsFiniteSet(Rec!Present')
      /\ n \in Nat /\ Cardinality(Rec!Present) \in Nat /\ Cardinality(Rec!Present') \in Nat
      /\ Cardinality(Rec!Present') <= Cardinality(Rec!Present) + n
  BY <1>4, BatchIsCounted
<1>6. metered' = IF y.before > 0 THEN metered + n ELSE metered
  BY <1>1, <1>4, RecCounts DEF Rec!InsertBatch
<1>7. metered' \in Nat /\ metered <= metered' /\ (y.before > 0 => metered' = metered + n)
  BY <1>2, <1>5, <1>6
<1> DEFINE f == [y.branch EXCEPT ![t] = "done"]
           x == [y EXCEPT !.branch = f]
<1>8. load' = [load EXCEPT ![l] = x]
  BY <1>1, <1>3
<1>9. /\ f \in [Rec!Branches -> {"off", "run", "insert", "done", "failed"}]
      /\ f[t] = "done" /\ \A c \in Rec!Branches \ {t} : f[c] = y.branch[c]
      /\ Rec!Types \subseteq Rec!Branches /\ {"wake", "dedupe"} \subseteq Rec!Branches \ {t}
  BY <1>2, BatchesAreFinite DEF QueueLoad, Rec!Branches
<1> HIDE DEF f
<1>10. /\ x \in QueueLoad /\ x.pc = y.pc /\ x.branch = f /\ x.before = y.before /\ x.due = y.due
  BY <1>2, <1>9 DEF QueueLoad
<1> HIDE DEF x
<1>11. StageInv(x)
  BY <1>2, <1>9, <1>10 DEF StageInv
<1>12. y.pc = "generate"
  BY <1>2, <1>3 DEF StageInv
<1>13. Rec!Fresh # None /\ Rec!Fresh.status = "pending" /\ ~Rec!Fresh.assigned
  <2>1. Rec!Fresh \in Rec!Row /\ Rec!Fresh.status = "pending" /\ ~Rec!Fresh.assigned
    BY DEF Rec!Fresh, Rec!Row
  <2> QED BY <2>1, BatchesAreFinite
<1>14. \A k \in Rec!Keys : rows'[k] # None /\ rows'[k].status = "snoozed" => rows[k] = rows'[k]
  BY <1>5, <1>13
<1>15. WakeInv(x)'
  <2>1. x.due \subseteq Rec!Keys
    BY <1>10 DEF QueueLoad
  <2>2. Woke(x) => Woke(y)
    BY <1>12 DEF Woke
  <2> QED BY <1>2, <1>10, <1>14, <2>1, <2>2 DEF WakeInv
<1>16. ~overlapped => MeterInv(x)' /\ used' <= metered'
  <2>1. ~overlapped => used <= metered
    BY DEF QueueInv, LoneInv
  <2>2. ~overlapped => used' <= metered'
    BY <1>2, <1>3, <1>7, <2>1
  <2>3. ~overlapped /\ y.before > 0 => used + Cardinality(Rec!Present) <= metered + y.before
    BY <1>2, <1>12 DEF MeterInv
  <2>4. ~overlapped /\ y.before > 0 => used + Cardinality(Rec!Present') <= metered' + y.before
    BY <1>2, <1>5, <1>7, <2>3
  <2>5. ~overlapped => MeterInv(x)'
    BY <1>3, <1>10, <1>12, <2>4 DEF MeterInv
  <2> QED BY <2>2, <2>5
<1>17. WorkInv'
  BY <1>3, <1>5, <1>13 DEF QueueInv, WorkInv
<1>18. load'[l].pc = "generate" /\ load[l].pc # "idle"
  BY <1>1, <1>8, <1>10, <1>12 DEF QueueInv, QueueTypes
<1>19. Rec!NoJobTwice'
  BY <1>18 DEF Rec!NoJobTwice
<1>20. used' \in Nat /\ dirty' \in BOOLEAN /\ overlapped' = overlapped
  BY <1>2, <1>3 DEF QueueInv, QueueTypes
<1> QED BY <1>5, <1>7, <1>8, <1>10, <1>11, <1>14, <1>15, <1>16, <1>17, <1>18, <1>19, <1>20, WriteKeepsQueue


\* A manager acts on a row: no load has it to wake any more.
LEMMA TouchKeepsQueue ==
  ASSUME QueueInv, NEW k \in Rec!Present, NEW r \in Rec!Row, rows' = [rows EXCEPT ![k] = r],
         load' = [l \in Loads |-> [load[l] EXCEPT !.due = @ \ {k}]],
         touched \subseteq touched', k \in touched' \/ (r.status = "pending" /\ ~r.assigned),
         UNCHANGED <<used, dirty, overlapped, metered>>
  PROVE  QueueInv'
<1>1. /\ k \in Rec!Keys /\ rows \in [Rec!Keys -> Rec!Row \cup {None}] /\ rows[k] # None
      /\ rows' \in [Rec!Keys -> Rec!Row \cup {None}] /\ rows'[k] = r /\ r # None
      /\ \A j \in Rec!Keys \ {k} : rows'[j] = rows[j]
  BY BatchesAreFinite DEF Rec!Present, QueueInv, QueueTypes
<1>2. Rec!Present' = Rec!Present
  BY <1>1 DEF Rec!Present
<1>3. \A m \in Loads :
        /\ load[m] \in QueueLoad /\ load'[m] \in QueueLoad
        /\ load'[m].pc = load[m].pc /\ load'[m].branch = load[m].branch
        /\ load'[m].before = load[m].before /\ load'[m].due = load[m].due \ {k}
  <2> TAKE m \in Loads
  <2>1. load[m] \in QueueLoad /\ load'[m] = [load[m] EXCEPT !.due = load[m].due \ {k}]
    BY DEF QueueInv, QueueTypes
  <2> QED BY <2>1 DEF QueueLoad
<1>4. QueueTypes'
  <2>1. load' \in [Loads -> QueueLoad]
    <3>1. load' = [m \in Loads |-> load'[m]]
      OBVIOUS
    <3>2. \A m \in Loads : load'[m] \in QueueLoad
      BY <1>3
    <3> QED BY <3>1, <3>2
  <2> QED BY <1>1, <1>2, <2>1 DEF QueueInv, QueueTypes
<1>5. LoadsAreRight'
  <2> SUFFICES ASSUME NEW m \in Loads, NEW x \in QueueLoad, load'[m] = x
               PROVE  StageInv(x) /\ WakeInv(x)' /\ (~overlapped => MeterInv(x)')
    BY DEF LoadsAreRight, StageInv
  <2>1. PICK y : y = load[m]
    OBVIOUS
  <2>2. /\ y \in QueueLoad /\ x.pc = y.pc /\ x.branch = y.branch
        /\ x.before = y.before /\ x.due = y.due \ {k}
    BY <1>3, <2>1
  <2>3. StageInv(y) /\ WakeInv(y) /\ (~overlapped => MeterInv(y))
    BY <2>1, LoadIsRight
  <2>4. StageInv(x)
    BY <2>2, <2>3 DEF StageInv
  <2>5. WakeInv(x)'
    <3>1. y.due \subseteq Rec!Keys
      BY <2>2 DEF QueueLoad
    <3> QED BY <1>1, <2>2, <2>3, <3>1 DEF WakeInv, Woke
  <2>6. ~overlapped => MeterInv(x)'
    BY <1>2, <2>2, <2>3 DEF MeterInv
  <2> QED BY <2>4, <2>5, <2>6
<1>6. WorkInv'
  BY <1>1 DEF QueueInv, WorkInv
<1>7. LoneInv'
  BY <1>3 DEF QueueInv, LoneInv
<1>8. Rec!NoJobTwice'
  <2> SUFFICES ASSUME NEW j \in Rec!Keys, j \notin touched', Rec!Duplicate(j)'
               PROVE  dirty \/ \E m \in Loads : load'[m].pc = "generate"
    BY DEF Rec!NoJobTwice
  <2>1. j \notin touched
    OBVIOUS
  <2>2. rows[j] # None => rows[j].status = "pending" /\ ~rows[j].assigned
    BY <2>1 DEF QueueInv, WorkInv
  <2>3. Rec!Duplicate(j)
    BY <1>1, <1>2, <2>2 DEF Rec!Duplicate
  <2>4. dirty \/ \E m \in Loads : load[m].pc = "generate"
    BY <2>1, <2>3 DEF QueueInv, Rec!NoJobTwice
  <2> QED BY <1>3, <2>4
<1> QED BY <1>4, <1>5, <1>6, <1>7, <1>8 DEF QueueInv

\* updateRecommendationStatus and assignRecommendation.
LEMMA ManagersKeepQueue ==
  ASSUME QueueInv, NEW k \in Rec!Present,
         \/ \E s \in {"pending", "acted", "dismissed"} : Rec!SetStatus(k, s, "null")
         \/ \E u \in {"null", "future"} : Rec!SetStatus(k, "snoozed", u)
         \/ \E to \in BOOLEAN : Rec!Assign(k, to)
  PROVE  QueueInv'
<1>1. k \in Rec!Keys /\ rows \in [Rec!Keys -> Rec!Row \cup {None}] /\ rows[k] \in Rec!Row
  BY DEF Rec!Present, QueueInv, QueueTypes
<1>2. k \notin touched => rows[k].status = "pending" /\ ~rows[k].assigned
  BY <1>1 DEF QueueInv, WorkInv, Rec!Present
<1>3. ASSUME NEW s \in {"pending", "acted", "dismissed", "snoozed"}, NEW u \in {"null", "future"},
             Rec!SetStatus(k, s, u)
      PROVE  QueueInv'
  <2> DEFINE r == [rows[k] EXCEPT !.status = s, !.until = IF s = "snoozed" THEN u ELSE rows[k].until]
  <2>1. rows' = [rows EXCEPT ![k] = r]
    BY <1>3 DEF Rec!SetStatus
  <2>2. r \in Rec!Row /\ r.status = s /\ r.assigned = rows[k].assigned
    BY <1>1 DEF Rec!Row
  <2> HIDE DEF r
  <2>3. /\ load' = [l \in Loads |-> [load[l] EXCEPT !.due = @ \ {k}]]
        /\ touched' = IF s # "pending" THEN touched \cup {k} ELSE touched
        /\ UNCHANGED <<used, dirty, overlapped, metered>>
    BY <1>3 DEF Rec!SetStatus, Rec!Touch
  <2>4. touched \subseteq touched' /\ (k \in touched' \/ (r.status = "pending" /\ ~r.assigned))
    BY <1>2, <2>2, <2>3
  <2> QED BY <2>1, <2>2, <2>3, <2>4, TouchKeepsQueue
<1>4. ASSUME NEW to \in BOOLEAN, Rec!Assign(k, to)
      PROVE  QueueInv'
  <2> DEFINE r == [rows[k] EXCEPT !.assigned = to]
  <2>1. rows' = [rows EXCEPT ![k] = r] /\ rows[k].assigned # to
    BY <1>4 DEF Rec!Assign
  <2>2. r \in Rec!Row /\ r.status = rows[k].status /\ r.assigned = to
    BY <1>1 DEF Rec!Row
  <2> HIDE DEF r
  <2>3. /\ load' = [l \in Loads |-> [load[l] EXCEPT !.due = @ \ {k}]]
        /\ touched' = IF to THEN touched \cup {k} ELSE touched
        /\ UNCHANGED <<used, dirty, overlapped, metered>>
    BY <1>4 DEF Rec!Assign, Rec!Touch
  <2>4. touched \subseteq touched' /\ (to => k \in touched')
    BY <2>3
  <2>5. ~to => k \in touched
    <3>1. rows[k].assigned \in BOOLEAN
      BY <1>1 DEF Rec!Row
    <3> QED BY <1>2, <2>1, <3>1
  <2>6. k \in touched' \/ (r.status = "pending" /\ ~r.assigned)
    BY <2>4, <2>5
  <2> QED BY <2>1, <2>2, <2>3, <2>4, <2>6, TouchKeepsQueue
<1> QED BY <1>3, <1>4

\* Time passes: a snooze runs out, a week ends.
LEMMA TimeKeepsQueue ==
  ASSUME QueueInv, (\E k \in Rec!Present : Rec!DatePasses(k)) \/ Rec!NewWeek
  PROVE  QueueInv'
<1>1. UNCHANGED <<load, touched, dirty, overlapped, metered>>
  BY DEF Rec!DatePasses, Rec!NewWeek
<1>2. CASE \E k \in Rec!Present : Rec!DatePasses(k)
  <2>1. PICK k \in Rec!Present : Rec!DatePasses(k)
    BY <1>2
  <2>2. k \in Rec!Keys /\ rows \in [Rec!Keys -> Rec!Row \cup {None}] /\ rows[k] \in Rec!Row
    BY DEF Rec!Present, QueueInv, QueueTypes
  <2> DEFINE r == [rows[k] EXCEPT !.until = "past"]
  <2>3. rows' = [rows EXCEPT ![k] = r] /\ rows[k].until = "future" /\ used' = used
    BY <2>1 DEF Rec!DatePasses
  <2>4. /\ r \in Rec!Row /\ r.status = rows[k].status /\ r.assigned = rows[k].assigned
    BY <2>2 DEF Rec!Row
  <2> HIDE DEF r
  <2>5. /\ rows' \in [Rec!Keys -> Rec!Row \cup {None}] /\ rows'[k] = r /\ r # None /\ rows[k] # None
        /\ \A j \in Rec!Keys \ {k} : rows'[j] = rows[j]
    BY <2>2, <2>3, <2>4, BatchesAreFinite
  <2>6. Rec!Present' = Rec!Present
    BY <2>5 DEF Rec!Present
  <2>7. QueueTypes'
    BY <1>1, <2>3, <2>5, <2>6 DEF QueueInv, QueueTypes
  <2>8. LoadsAreRight'
    <3> SUFFICES ASSUME NEW m \in Loads, NEW x \in QueueLoad, load[m] = x
                 PROVE  StageInv(x) /\ WakeInv(x)' /\ (~overlapped => MeterInv(x)')
      BY <1>1 DEF LoadsAreRight, StageInv
    <3>1. StageInv(x) /\ WakeInv(x) /\ (~overlapped => MeterInv(x))
      BY LoadIsRight
    <3>2. WakeInv(x)'
      <4>1. x.due \subseteq Rec!Keys
        BY DEF QueueLoad
      <4> QED BY <2>3, <2>4, <2>5, <3>1, <4>1 DEF WakeInv, Woke
    <3>3. ~overlapped => MeterInv(x)'
      BY <1>1, <2>3, <2>6, <3>1 DEF MeterInv
    <3> QED BY <3>1, <3>2, <3>3
  <2>9. WorkInv'
    BY <1>1, <2>4, <2>5 DEF QueueInv, WorkInv
  <2>10. LoneInv'
    BY <1>1, <2>3 DEF QueueInv, LoneInv
  <2>11. \A j \in Rec!Keys : Rec!Duplicate(j)' <=> Rec!Duplicate(j)
    BY <2>4, <2>5, <2>6 DEF Rec!Duplicate
  <2>12. Rec!NoJobTwice'
    BY <1>1, <2>11 DEF QueueInv, Rec!NoJobTwice
  <2> QED BY <2>7, <2>8, <2>9, <2>10, <2>12 DEF QueueInv
<1>3. CASE Rec!NewWeek
  <2>1. used' = 0 /\ used \in Nat /\ metered \in Nat /\ rows' = rows
    BY <1>3 DEF Rec!NewWeek, QueueInv, QueueTypes
  <2>2. Rec!Present' = Rec!Present /\ \A j : Rec!Duplicate(j)' = Rec!Duplicate(j)
    BY <2>1 DEF Rec!Present, Rec!Duplicate
  <2>3. QueueTypes'
    BY <1>1, <2>1, <2>2 DEF QueueInv, QueueTypes
  <2>4. LoadsAreRight'
    <3> SUFFICES ASSUME NEW m \in Loads, NEW x \in QueueLoad, load[m] = x
                 PROVE  StageInv(x) /\ WakeInv(x)' /\ (~overlapped => MeterInv(x)')
      BY <1>1 DEF LoadsAreRight, StageInv
    <3>1. /\ StageInv(x) /\ WakeInv(x) /\ (~overlapped => MeterInv(x))
          /\ Cardinality(Rec!Present) \in Nat /\ x.before \in Nat
      BY LoadIsRight
    <3>2. WakeInv(x)'
      BY <2>1, <3>1 DEF WakeInv, Woke
    <3>3. ~overlapped => MeterInv(x)'
      BY <1>1, <2>1, <2>2, <3>1 DEF MeterInv
    <3> QED BY <3>1, <3>2, <3>3
  <2>5. WorkInv' /\ LoneInv'
    BY <1>1, <2>1 DEF QueueInv, WorkInv, LoneInv
  <2>6. Rec!NoJobTwice'
    BY <1>1, <2>2 DEF QueueInv, Rec!NoJobTwice
  <2> QED BY <2>3, <2>4, <2>5, <2>6 DEF QueueInv
<1> QED BY <1>2, <1>3

\* The invariant of the queue: it relates what loads have read to what the
\* rows are now, however loads overlap.
THEOREM QueueInvariant == Rec!Spec => []QueueInv
<1>1. Rec!Init => QueueInv
  <2> SUFFICES ASSUME Rec!Init PROVE QueueInv
    OBVIOUS
  <2>1. /\ rows = [k \in Rec!Keys |-> None] /\ used = 0 /\ metered = 0
        /\ load = [l \in Loads |-> Rec!NoLoad] /\ dirty = FALSE /\ overlapped = FALSE
    BY DEF Rec!Init
  <2>2. Rec!Present = {} /\ \A k \in Rec!Keys : rows[k] = None
    BY <2>1 DEF Rec!Present
  <2>3. QueueTypes
    BY <2>1, <2>2, NoLoadIsRight, FS_EmptySet DEF QueueTypes
  <2>4. LoadsAreRight
    <3> SUFFICES ASSUME NEW x \in QueueLoad, x = Rec!NoLoad
                 PROVE  StageInv(x) /\ WakeInv(x) /\ MeterInv(x)
      BY <2>1 DEF LoadsAreRight
    <3>1. x.pc = "idle" /\ x.due = {} /\ StageInv(x)
      BY NoLoadIsRight
    <3> QED BY <3>1, IdleMeter DEF WakeInv
  <2>5. WorkInv /\ Rec!NoJobTwice
    BY <2>2 DEF WorkInv, Rec!NoJobTwice, Rec!Duplicate
  <2>6. LoneInv
    BY <2>1, NoLoadIsRight DEF LoneInv
  <2> QED BY <2>3, <2>4, <2>5, <2>6 DEF QueueInv
<1>2. QueueInv /\ [Rec!Next]_(Rec!vars) => QueueInv'
  <2> SUFFICES ASSUME QueueInv, [Rec!Next]_(Rec!vars) PROVE QueueInv'
    OBVIOUS
  <2>1. ASSUME NEW l \in Loads, Rec!LoadStep(l)
        PROVE  QueueInv'
    <3>1. CASE Rec!EndFailed(l)
      <4>1. /\ Rec!EndLoad(l) /\ UNCHANGED <<rows, used, touched, metered, overlapped>>
            /\ dirty' = (dirty \/ load[l].pc = "generate")
        BY <3>1 DEF Rec!EndFailed
      <4>2. dirty' \in BOOLEAN /\ (dirty => dirty') /\ (load[l].pc = "generate" => dirty')
        BY <4>1 DEF QueueInv, QueueTypes
      <4> QED BY <4>1, <4>2, EndKeepsQueue
    <3>2. CASE \E t \in Rec!Types : Rec!CheckType(l, t) \/ Rec!InsertBatch(l, t)
      BY <3>2, BranchKeepsQueue, InsertKeepsQueue
    <3> QED BY <2>1, <3>1, <3>2, StartKeepsQueue, WakeKeepsQueue, DedupeBranchKeepsQueue,
               ChainKeepsQueue, DedupeBatchKeepsQueue, RecordKeepsQueue DEF Rec!LoadStep
  <2>2. ASSUME NEW l \in Loads, Rec!LoadDies(l)
        PROVE  QueueInv'
    <3>1. /\ Rec!EndLoad(l) /\ UNCHANGED <<rows, used, touched, metered, overlapped>>
          /\ dirty' = (dirty \/ load[l].pc = "generate")
      BY <2>2 DEF Rec!LoadDies
    <3>2. dirty' \in BOOLEAN /\ (dirty => dirty') /\ (load[l].pc = "generate" => dirty')
      BY <3>1 DEF QueueInv, QueueTypes
    <3> QED BY <3>1, <3>2, EndKeepsQueue
  <2>3. ASSUME NEW l \in Loads, NEW b \in Rec!Branches, Rec!BranchFails(l, b)
        PROVE  QueueInv'
    BY <2>3, BranchKeepsQueue
  <2>4. CASE (\E k \in Rec!Present : Rec!DatePasses(k)) \/ Rec!NewWeek
    BY <2>4, TimeKeepsQueue
  <2>5. ASSUME NEW k \in Rec!Present,
               \/ \E s \in {"pending", "acted", "dismissed"} : Rec!SetStatus(k, s, "null")
               \/ \E u \in {"null", "future"} : Rec!SetStatus(k, "snoozed", u)
               \/ \E to \in BOOLEAN : Rec!Assign(k, to)
        PROVE  QueueInv'
    BY <2>5, ManagersKeepQueue
  <2>6. CASE UNCHANGED Rec!vars
    <3>1. UNCHANGED <<rows, used, load, touched, dirty, overlapped, metered>>
      BY <2>6 DEF Rec!vars
    <3>2. Rec!Present' = Rec!Present /\ \A j : Rec!Duplicate(j)' = Rec!Duplicate(j)
      BY <3>1 DEF Rec!Present, Rec!Duplicate
    <3>3. QueueTypes' /\ WorkInv' /\ LoneInv'
      BY <3>1, <3>2 DEF QueueInv, QueueTypes, WorkInv, LoneInv
    <3>4. LoadsAreRight'
      BY <3>1, <3>2 DEF QueueInv, LoadsAreRight, StageInv, WakeInv, Woke, MeterInv
    <3>5. Rec!NoJobTwice'
      BY <3>1, <3>2 DEF QueueInv, Rec!NoJobTwice
    <3> QED BY <3>3, <3>4, <3>5 DEF QueueInv
  <2> QED BY <2>1, <2>2, <2>3, <2>4, <2>5, <2>6 DEF Rec!Next
<1> QED BY <1>1, <1>2, PTL DEF Rec!Spec

\* NoJobTwice, LoadWakes, NeverOvercharged: no job is listed twice for good, a
\* load wakes what had run out, and no more is charged than was made.
THEOREM RecommendationsQueue ==
  Rec!Spec => [](Rec!NoJobTwice /\ Rec!LoadWakes /\ Rec!NeverOvercharged)
<1>1. QueueInv => Rec!NoJobTwice /\ Rec!LoadWakes /\ Rec!NeverOvercharged
  <2> SUFFICES ASSUME QueueInv
               PROVE  Rec!LoadWakes /\ Rec!NeverOvercharged
    BY DEF QueueInv
  <2>1. ASSUME NEW l \in Loads, load[l].pc \in {"allowance", "generate", "count", "record"},
               NEW k \in load[l].due
        PROVE  rows[k] = None \/ ~Rec!Overdue(k)
    BY <2>1, LoadIsRight DEF WakeInv, Woke, Rec!Overdue
  <2> QED BY <2>1 DEF Rec!LoadWakes, Rec!NeverOvercharged, QueueInv, LoneInv
<1> QED BY <1>1, QueueInvariant, PTL

-----------------------------------------------------------------------------
(* The workspace: what holds of a component holds while it runs.            *)

\* While it is the experiments that runs, a behaviour of the workspace is one of
\* the component's.
LEMMA ExperimentsRun ==
  WorkspaceSpec /\ part = "experiments" => Exp!Spec
<1>1. part = "experiments" /\ WorkspaceInit => Exp!Init
  BY DEF WorkspaceInit
<1>2. part = "experiments" /\ [WorkspaceNext]_allVars => (part = "experiments")'
  BY DEF WorkspaceNext, allVars
<1>3. part = "experiments" /\ [WorkspaceNext]_allVars => [Exp!Next]_(Exp!vars)
  <2>1. CASE UNCHANGED allVars
    BY <2>1 DEF allVars, expOwn, Exp!vars
  <2>2. CASE WorkspaceNext
    BY <2>2 DEF WorkspaceNext, ComponentNext
  <2> QED BY <2>1, <2>2
<1> QED BY <1>1, <1>2, <1>3, PTL DEF WorkspaceSpec, Exp!Spec

\* While another runs, it does not.
LEMMA ExperimentsRest ==
  WorkspaceSpec /\ part # "experiments" => [](part # "experiments")
<1>1. part # "experiments" /\ [WorkspaceNext]_allVars => (part # "experiments")'
  BY DEF WorkspaceNext, allVars
<1> QED BY <1>1, PTL DEF WorkspaceSpec

\* While it is the driver that runs, a behaviour of the workspace is one of
\* the component's.
LEMMA FetchRuns ==
  WorkspaceSpec /\ part = "fetch" => Ret!Spec
<1>1. part = "fetch" /\ WorkspaceInit => Ret!Init
  BY DEF WorkspaceInit
<1>2. part = "fetch" /\ [WorkspaceNext]_allVars => (part = "fetch")'
  BY DEF WorkspaceNext, allVars
<1>3. part = "fetch" /\ [WorkspaceNext]_allVars => [Ret!Next]_(Ret!vars)
  <2>1. CASE UNCHANGED allVars
    BY <2>1 DEF allVars, retOwn, Ret!vars
  <2>2. CASE WorkspaceNext
    BY <2>2 DEF WorkspaceNext, ComponentNext
  <2> QED BY <2>1, <2>2
<1> QED BY <1>1, <1>2, <1>3, PTL DEF WorkspaceSpec, Ret!Spec

\* While another runs, it does not.
LEMMA FetchRests ==
  WorkspaceSpec /\ part # "fetch" => [](part # "fetch")
<1>1. part # "fetch" /\ [WorkspaceNext]_allVars => (part # "fetch")'
  BY DEF WorkspaceNext, allVars
<1> QED BY <1>1, PTL DEF WorkspaceSpec

\* While it is the connections that runs, a behaviour of the workspace is one of
\* the component's.
LEMMA ConnectionsRun ==
  WorkspaceSpec /\ part = "connections" => Con!Spec
<1>1. part = "connections" /\ WorkspaceInit => Con!Init
  BY DEF WorkspaceInit
<1>2. part = "connections" /\ [WorkspaceNext]_allVars => (part = "connections")'
  BY DEF WorkspaceNext, allVars
<1>3. part = "connections" /\ [WorkspaceNext]_allVars => [Con!Next]_(Con!vars)
  <2>1. CASE UNCHANGED allVars
    BY <2>1 DEF allVars, conOwn, Con!vars, Con!tables, Con!consents
  <2>2. CASE WorkspaceNext
    BY <2>2 DEF WorkspaceNext, ComponentNext
  <2> QED BY <2>1, <2>2
<1> QED BY <1>1, <1>2, <1>3, PTL DEF WorkspaceSpec, Con!Spec

\* While another runs, it does not.
LEMMA ConnectionsRest ==
  WorkspaceSpec /\ part # "connections" => [](part # "connections")
<1>1. part # "connections" /\ [WorkspaceNext]_allVars => (part # "connections")'
  BY DEF WorkspaceNext, allVars
<1> QED BY <1>1, PTL DEF WorkspaceSpec

\* While it is the editor that runs, a behaviour of the workspace is one of
\* the component's.
LEMMA EditorRuns ==
  WorkspaceSpec /\ part = "editor" => Edi!Spec
<1>1. part = "editor" /\ WorkspaceInit => Edi!Init
  BY DEF WorkspaceInit
<1>2. part = "editor" /\ [WorkspaceNext]_allVars => (part = "editor")'
  BY DEF WorkspaceNext, allVars
<1>3. part = "editor" /\ [WorkspaceNext]_allVars => [Edi!Next]_(Edi!vars)
  <2>1. CASE UNCHANGED allVars
    BY <2>1 DEF allVars, ediOwn, Edi!vars
  <2>2. CASE WorkspaceNext
    BY <2>2 DEF WorkspaceNext, ComponentNext
  <2> QED BY <2>1, <2>2
<1> QED BY <1>1, <1>2, <1>3, PTL DEF WorkspaceSpec, Edi!Spec

\* While another runs, it does not.
LEMMA EditorRests ==
  WorkspaceSpec /\ part # "editor" => [](part # "editor")
<1>1. part # "editor" /\ [WorkspaceNext]_allVars => (part # "editor")'
  BY DEF WorkspaceNext, allVars
<1> QED BY <1>1, PTL DEF WorkspaceSpec

\* While it is the bus that runs, a behaviour of the workspace is one of
\* the component's.
LEMMA BusRuns ==
  WorkspaceSpec /\ part = "bus" => Bus!Spec
<1>1. part = "bus" /\ WorkspaceInit => Bus!Init
  BY DEF WorkspaceInit
<1>2. part = "bus" /\ [WorkspaceNext]_allVars => (part = "bus")'
  BY DEF WorkspaceNext, allVars
<1>3. part = "bus" /\ [WorkspaceNext]_allVars => [Bus!Next]_(Bus!vars)
  <2>1. CASE UNCHANGED allVars
    BY <2>1 DEF allVars, busOwn, Bus!vars
  <2>2. CASE WorkspaceNext
    BY <2>2 DEF WorkspaceNext, ComponentNext
  <2> QED BY <2>1, <2>2
<1> QED BY <1>1, <1>2, <1>3, PTL DEF WorkspaceSpec, Bus!Spec

\* While another runs, it does not.
LEMMA BusRests ==
  WorkspaceSpec /\ part # "bus" => [](part # "bus")
<1>1. part # "bus" /\ [WorkspaceNext]_allVars => (part # "bus")'
  BY DEF WorkspaceNext, allVars
<1> QED BY <1>1, PTL DEF WorkspaceSpec

\* While it is the screen that runs, a behaviour of the workspace is one of
\* the component's.
LEMMA ScreenRuns ==
  WorkspaceSpec /\ part = "screen" => Scr!Spec
<1>1. part = "screen" /\ WorkspaceInit => Scr!Init
  BY DEF WorkspaceInit
<1>2. part = "screen" /\ [WorkspaceNext]_allVars => (part = "screen")'
  BY DEF WorkspaceNext, allVars
<1>3. part = "screen" /\ [WorkspaceNext]_allVars => [Scr!Next]_(Scr!vars)
  <2>1. CASE UNCHANGED allVars
    BY <2>1 DEF allVars, scrOwn, Scr!vars, Scr!elsewhere
  <2>2. CASE WorkspaceNext
    BY <2>2 DEF WorkspaceNext, ComponentNext
  <2> QED BY <2>1, <2>2
<1> QED BY <1>1, <1>2, <1>3, PTL DEF WorkspaceSpec, Scr!Spec

\* While another runs, it does not.
LEMMA ScreenRests ==
  WorkspaceSpec /\ part # "screen" => [](part # "screen")
<1>1. part # "screen" /\ [WorkspaceNext]_allVars => (part # "screen")'
  BY DEF WorkspaceNext, allVars
<1> QED BY <1>1, PTL DEF WorkspaceSpec

\* While it is the blog that runs, a behaviour of the workspace is one of
\* the component's.
LEMMA PostsRuns ==
  WorkspaceSpec /\ part = "posts" => Pos!Spec
<1>1. part = "posts" /\ WorkspaceInit => Pos!Init
  BY DEF WorkspaceInit
<1>2. part = "posts" /\ [WorkspaceNext]_allVars => (part = "posts")'
  BY DEF WorkspaceNext, allVars
<1>3. part = "posts" /\ [WorkspaceNext]_allVars => [Pos!Next]_(Pos!vars)
  <2>1. CASE UNCHANGED allVars
    BY <2>1 DEF allVars, posOwn, Pos!vars
  <2>2. CASE WorkspaceNext
    BY <2>2 DEF WorkspaceNext, ComponentNext
  <2> QED BY <2>1, <2>2
<1> QED BY <1>1, <1>2, <1>3, PTL DEF WorkspaceSpec, Pos!Spec

\* While another runs, it does not.
LEMMA PostsRests ==
  WorkspaceSpec /\ part # "posts" => [](part # "posts")
<1>1. part # "posts" /\ [WorkspaceNext]_allVars => (part # "posts")'
  BY DEF WorkspaceNext, allVars
<1> QED BY <1>1, PTL DEF WorkspaceSpec

\* While it is the queue that runs, a behaviour of the workspace is one of
\* the component's.
LEMMA QueueRuns ==
  WorkspaceSpec /\ part = "recommendations" => Rec!Spec
<1>1. part = "recommendations" /\ WorkspaceInit => Rec!Init
  BY DEF WorkspaceInit
<1>2. part = "recommendations" /\ [WorkspaceNext]_allVars => (part = "recommendations")'
  BY DEF WorkspaceNext, allVars
<1>3. part = "recommendations" /\ [WorkspaceNext]_allVars => [Rec!Next]_(Rec!vars)
  <2>1. CASE UNCHANGED allVars
    BY <2>1 DEF allVars, recOwn, Rec!vars
  <2>2. CASE WorkspaceNext
    BY <2>2 DEF WorkspaceNext, ComponentNext
  <2> QED BY <2>1, <2>2
<1> QED BY <1>1, <1>2, <1>3, PTL DEF WorkspaceSpec, Rec!Spec

\* While another runs, it does not.
LEMMA QueueRests ==
  WorkspaceSpec /\ part # "recommendations" => [](part # "recommendations")
<1>1. part # "recommendations" /\ [WorkspaceNext]_allVars => (part # "recommendations")'
  BY DEF WorkspaceNext, allVars
<1> QED BY <1>1, PTL DEF WorkspaceSpec

\* WrittenOnce: a write takes effect at most once, and its caller is told so.
THEOREM WorkspaceWrittenOnce ==
  WorkspaceSpec => []WrittenOnce
<1>1. WorkspaceSpec /\ part = "fetch" => Ret!Spec
  BY FetchRuns
<1>2. Ret!Spec => []Ret!WrittenOnce
  BY FetchWrittenOnce, PTL
<1>3. WorkspaceSpec /\ part # "fetch" => [](part # "fetch")
  BY FetchRests
<1>4. Ret!WrittenOnce => WrittenOnce
  BY DEF WrittenOnce
<1>5. part # "fetch" => WrittenOnce
  BY DEF WrittenOnce
<1>6. part = "fetch" \/ part # "fetch"
  OBVIOUS
<1> QED BY <1>1, <1>2, <1>3, <1>4, <1>5, <1>6, PTL

\* RefreshTokenIsNewest: the refresh token stored is the newest that was, but
\* for accounts with two callbacks at once, until one alone stores a newer.
THEOREM WorkspaceRefreshTokenIsNewest ==
  WorkspaceSpec => []RefreshTokenIsNewest
<1>1. WorkspaceSpec /\ part = "connections" => Con!Spec
  BY ConnectionsRun
<1>2. Con!Spec => []Con!RefreshTokenIsNewest
  BY ConnectionsRefreshToken, PTL
<1>3. WorkspaceSpec /\ part # "connections" => [](part # "connections")
  BY ConnectionsRest
<1>4. Con!RefreshTokenIsNewest => RefreshTokenIsNewest
  BY DEF RefreshTokenIsNewest
<1>5. part # "connections" => RefreshTokenIsNewest
  BY DEF RefreshTokenIsNewest
<1>6. part = "connections" \/ part # "connections"
  OBVIOUS
<1> QED BY <1>1, <1>2, <1>3, <1>4, <1>5, <1>6, PTL

\* SnapshotIsWhole: a snapshot that is not whole says so, but for syncs that
\* overlapped, died or were never started.
THEOREM WorkspaceSnapshotIsWhole ==
  WorkspaceSpec => []SnapshotIsWhole
<1>1. WorkspaceSpec /\ part = "connections" => Con!Spec
  BY ConnectionsRun
<1>2. Con!Spec => []Con!SnapshotIsWhole
  BY ConnectionsSnapshotIsWhole, PTL
<1>3. WorkspaceSpec /\ part # "connections" => [](part # "connections")
  BY ConnectionsRest
<1>4. Con!SnapshotIsWhole => SnapshotIsWhole
  BY DEF SnapshotIsWhole
<1>5. part # "connections" => SnapshotIsWhole
  BY DEF SnapshotIsWhole
<1>6. part = "connections" \/ part # "connections"
  OBVIOUS
<1> QED BY <1>1, <1>2, <1>3, <1>4, <1>5, <1>6, PTL

\* CalmIsStored: what the editor calls saved is stored, if nobody hurried it.
THEOREM WorkspaceCalmIsStored ==
  WorkspaceSpec => []CalmIsStored
<1>1. WorkspaceSpec /\ part = "editor" => Edi!Spec
  BY EditorRuns
<1>2. Edi!Spec => []Edi!CalmIsStored
  BY EditorCalmIsStored, PTL
<1>3. WorkspaceSpec /\ part # "editor" => [](part # "editor")
  BY EditorRests
<1>4. Edi!CalmIsStored => CalmIsStored
  BY DEF CalmIsStored
<1>5. part # "editor" => CalmIsStored
  BY DEF CalmIsStored
<1>6. part = "editor" \/ part # "editor"
  OBVIOUS
<1> QED BY <1>1, <1>2, <1>3, <1>4, <1>5, <1>6, PTL

\* BroadcastsAreRight: an event reaches whom it was broadcast to, and once for
\* every time it was.
THEOREM WorkspaceBroadcastsAreRight ==
  WorkspaceSpec => []BroadcastsAreRight
<1>1. WorkspaceSpec /\ part = "bus" => Bus!Spec
  BY BusRuns
<1>2. Bus!Spec => []Bus!BroadcastsRight
  BY BusBroadcastsAreRight, PTL
<1>3. WorkspaceSpec /\ part # "bus" => [](part # "bus")
  BY BusRests
<1>4. Bus!BroadcastsRight => BroadcastsAreRight
  BY DEF BroadcastsAreRight
<1>5. part # "bus" => BroadcastsAreRight
  BY DEF BroadcastsAreRight
<1>6. part = "bus" \/ part # "bus"
  OBVIOUS
<1> QED BY <1>1, <1>2, <1>3, <1>4, <1>5, <1>6, PTL

\* ScreenAgrees: a screen at rest shows the table, but for requests that took
\* effect late and rows changed elsewhere since the list was read.
THEOREM WorkspaceScreenAgrees ==
  WorkspaceSpec => []ScreenAgrees
<1>1. WorkspaceSpec /\ part = "screen" => Scr!Spec
  BY ScreenRuns
<1>2. Scr!Spec => []Scr!ScreenAgrees
  BY ScreenShowsTable, PTL
<1>3. WorkspaceSpec /\ part # "screen" => [](part # "screen")
  BY ScreenRests
<1>4. Scr!ScreenAgrees => ScreenAgrees
  BY DEF ScreenAgrees
<1>5. part # "screen" => ScreenAgrees
  BY DEF ScreenAgrees
<1>6. part = "screen" \/ part # "screen"
  OBVIOUS
<1> QED BY <1>1, <1>2, <1>3, <1>4, <1>5, <1>6, PTL

\* BlogIsKept: the public pages are told, the pin stays, and what is published
\* is not deleted, but for requests cut short between two of their writes or
\* before their hint, and deletions that a publication overtook.
THEOREM WorkspaceBlogIsKept ==
  WorkspaceSpec => []BlogIsKept
<1>1. WorkspaceSpec /\ part = "posts" => Pos!Spec
  BY PostsRuns
<1>2. Pos!Spec => []Pos!BlogIsKept
  BY PostsBlogIsKept, PTL
<1>3. WorkspaceSpec /\ part # "posts" => [](part # "posts")
  BY PostsRests
<1>4. Pos!BlogIsKept => BlogIsKept
  BY DEF BlogIsKept
<1>5. part # "posts" => BlogIsKept
  BY DEF BlogIsKept
<1>6. part = "posts" \/ part # "posts"
  OBVIOUS
<1> QED BY <1>1, <1>2, <1>3, <1>4, <1>5, <1>6, PTL

\* QueueIsKept: no job is listed twice for good, a load wakes every snooze that
\* had run out, and no more is charged than metered loads have made.
THEOREM WorkspaceQueueIsKept ==
  WorkspaceSpec => []QueueIsKept
<1>1. WorkspaceSpec /\ part = "recommendations" => Rec!Spec
  BY QueueRuns
<1>2. Rec!Spec => [](Rec!NoJobTwice /\ Rec!LoadWakes /\ Rec!NeverOvercharged)
  BY RecommendationsQueue, PTL
<1>3. WorkspaceSpec /\ part # "recommendations" => [](part # "recommendations")
  BY QueueRests
<1>4. Rec!NoJobTwice /\ Rec!LoadWakes /\ Rec!NeverOvercharged => QueueIsKept
  BY DEF QueueIsKept
<1>5. part # "recommendations" => QueueIsKept
  BY DEF QueueIsKept
<1>6. part = "recommendations" \/ part # "recommendations"
  OBVIOUS
<1> QED BY <1>1, <1>2, <1>3, <1>4, <1>5, <1>6, PTL

\* HistoryIsKept: what is concluded, and when a test began, stays.
THEOREM WorkspaceHistoryIsKept ==
  WorkspaceSpec => HistoryIsKept
<1>1. WorkspaceSpec /\ part = "experiments" => Exp!Spec
  BY ExperimentsRun
<1>2. Exp!Spec => [][Exp!KeepsHistory]_(Exp!vars)
  BY ExperimentsHistoryIsKept DEF Exp!HistoryIsKept
<1>3. WorkspaceSpec /\ part # "experiments" => [](part # "experiments")
  BY ExperimentsRest
<1>4. [Exp!KeepsHistory]_(Exp!vars) => [part = "experiments" => Exp!KeepsHistory]_allVars
  BY DEF Exp!KeepsHistory, Exp!vars, allVars
<1>5. part # "experiments" => [part = "experiments" => Exp!KeepsHistory]_allVars
  OBVIOUS
<1>6. part = "experiments" \/ part # "experiments"
  OBVIOUS
<1> QED BY <1>1, <1>2, <1>3, <1>4, <1>5, <1>6, PTL DEF HistoryIsKept

=============================================================================
