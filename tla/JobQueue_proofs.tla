--------------------------- MODULE JobQueue_proofs ---------------------------
(* Proofs about JobQueue: for any jobs, workers, faults and resent commands, *)
(* the workers duplicate and lose no envelope, and removing one ends its job. *)
EXTENDS JobQueue, SequenceTheorems, WellFoundedInduction, TLAPS

-----------------------------------------------------------------------------
\* What the Redis commands do to a list in which no envelope is twice.

\* LPUSH.
LEMMA PushedList ==
  ASSUME NEW S, NEW s \in Seq(S), NEW e \in S, IsInjective(s), e \notin Range(s)
  PROVE  /\ <<e>> \o s \in Seq(S)
         /\ IsInjective(<<e>> \o s)
         /\ Range(<<e>> \o s) = Range(s) \cup {e}
<1> DEFINE t == <<e>> \o s
<1>1. /\ t \in Seq(S) /\ Len(t) = Len(s) + 1
      /\ \A i \in 1..Len(s) + 1 : t[i] = IF i = 1 THEN e ELSE s[i - 1]
  BY ConcatProperties, LenProperties
<1>2. /\ Len(s) \in Nat /\ DOMAIN s = 1..Len(s) /\ DOMAIN t = 1..Len(s) + 1
  BY <1>1, LenProperties
<1>3. IsInjective(t)
  BY <1>1, <1>2 DEF IsInjective, Range
<1>4. Range(t) = Range(s) \cup {e}
  <2>1. Range(t) \subseteq Range(s) \cup {e}
    BY <1>1, <1>2 DEF Range
  <2>2. e \in Range(t)
    BY <1>1, <1>2 DEF Range
  <2>3. ASSUME NEW i \in 1..Len(s) PROVE s[i] \in Range(t)
    <3>1. i + 1 \in 1..Len(s) + 1 /\ t[i + 1] = s[i]
      BY <1>1, <1>2
    <3> HIDE DEF t
    <3> QED BY <1>2, <3>1 DEF Range
  <2> QED BY <1>2, <2>1, <2>2, <2>3 DEF Range
<1> QED BY <1>1, <1>3, <1>4

\* What RPOPLPUSH and BLMOVE leave of the list they take from.
LEMMA PoppedList ==
  ASSUME NEW S, NEW s \in Seq(S), IsInjective(s), s # <<>>
  PROVE  /\ Front(s) \in Seq(S)
         /\ IsInjective(Front(s))
         /\ Last(s) \in Range(s) /\ Last(s) \in S
         /\ Range(Front(s)) = Range(s) \ {Last(s)}
<1> DEFINE n == Len(s)
           t == Front(s)
<1>1. n \in Nat \ {0} /\ DOMAIN s = 1..n /\ \A i \in 1..n : s[i] \in S
  BY LenProperties, EmptySeq, ElementOfSeq
<1>2. /\ t \in Seq(S) /\ Len(t) = n - 1
      /\ \A i \in 1..n - 1 : t[i] = s[i]
  BY <1>1, SubSeqProperties DEF Front
<1>3. DOMAIN t = 1..n - 1
  BY <1>2, LenProperties
<1>4. IsInjective(t)
  BY <1>1, <1>2, <1>3 DEF IsInjective
<1>5. Last(s) \in Range(s) /\ Last(s) \in S
  BY <1>1 DEF Last, Range
<1>6. Range(t) = Range(s) \ {Last(s)}
  BY <1>1, <1>2, <1>3 DEF Range, Last, IsInjective
<1> QED BY <1>2, <1>4, <1>5, <1>6

\* A list without its k-th envelope.
LEMMA ShortenedList ==
  ASSUME NEW S, NEW s \in Seq(S), NEW k \in 1..Len(s)
  PROVE  /\ RemoveAt(s, k) \in Seq(S)
         /\ DOMAIN RemoveAt(s, k) = 1..Len(s) - 1
         /\ \A i \in 1..Len(s) - 1 : RemoveAt(s, k)[i] = IF i < k THEN s[i] ELSE s[i + 1]
<1> DEFINE n == Len(s)
           l == SubSeq(s, 1, k - 1)
           r == SubSeq(s, k + 1, n)
<1>1. n \in Nat /\ k \in Int /\ \A i \in 1..n : s[i] \in S
  BY LenProperties, ElementOfSeq
<1>2. /\ l \in Seq(S) /\ Len(l) = k - 1
      /\ \A i \in 1..k - 1 : l[i] = s[i]
  BY <1>1, SubSeqProperties
<1>3. /\ r \in Seq(S)
      /\ Len(r) = IF k + 1 <= n THEN n - (k + 1) + 1 ELSE 0
      /\ \A i \in 1..n - (k + 1) + 1 : r[i] = s[k + 1 + i - 1]
  <2>1. k + 1 \in 1..n + 1 /\ n \in Nat /\ n = Len(s)
    BY <1>1
  <2>2. \A i \in k + 1..n : s[i] \in S
    BY <1>1
  <2>3. k + 1 \in Int /\ Len(s) \in Int /\ \A i \in k + 1..Len(s) : s[i] \in S
    BY <2>1, <2>2
  <2> QED BY ONLY <2>3, SubSeqProperties
<1> HIDE DEF l, r
<1>4. Len(r) = n - k /\ \A i \in 1..n - k : r[i] = s[k + i]
  BY <1>1, <1>3
<1>5. l \o r \in Seq(S) /\ Len(l \o r) = n - 1
  <2>1. l \o r \in Seq(S) /\ Len(l \o r) = Len(l) + Len(r)
    BY <1>2, <1>3, ConcatProperties
  <2> QED BY <1>1, <1>2, <1>4, <2>1
<1>6. ASSUME NEW i \in 1..n - 1
      PROVE  (l \o r)[i] = IF i < k THEN s[i] ELSE s[i + 1]
  <2>1. (l \o r)[i] = IF i <= Len(l) THEN l[i] ELSE r[i - Len(l)]
    BY <1>1, <1>2, <1>3, <1>4, ConcatProperties
  <2> QED BY <1>1, <1>2, <1>4, <2>1
<1> QED BY <1>5, <1>6, LenProperties DEF RemoveAt, l, r

\* A non-empty set of numbers has a least one.
LEMMA SmallestOf ==
  ASSUME NEW I, I \subseteq Nat, I # {}
  PROVE  \E x \in I : \A y \in I : x <= y
<1>1. PICK x \in I : \A y \in I : <<y, x>> \notin OpToRel(<, Nat)
  BY NatLessThanWellFounded, WFMin, Zenon
<1>2. \A y \in I : ~ (y < x)
  BY <1>1, Zenon DEF OpToRel
<1> QED BY <1>2

\* LREM of one copy of a job's envelope.
LEMMA RemovedList ==
  ASSUME NEW S, NEW s \in Seq(S), NEW j, IsInjective(s)
  PROVE  /\ LRem(s, j) \in Seq(S)
         /\ IsInjective(LRem(s, j))
         /\ \/ (\A x \in Range(s) : x[1] # j) /\ LRem(s, j) = s
            \/ \E e \in Range(s) : e[1] = j /\ Range(LRem(s, j)) = Range(s) \ {e}
<1> DEFINE n == Len(s)
           I == {i \in 1..n : s[i][1] = j}
<1>1. n \in Nat /\ DOMAIN s = 1..n /\ \A i \in 1..n : s[i] \in S
  BY LenProperties, ElementOfSeq
<1>2. CASE I = {}
  <2>1. LRem(s, j) = s
    BY <1>2 DEF LRem, RemoveFirstMatch
  <2>2. \A x \in Range(s) : x[1] # j
    BY <1>1, <1>2 DEF Range
  <2> QED BY <2>1, <2>2
<1>3. CASE I # {}
  <2> DEFINE k == CHOOSE x \in I : \A y \in I : x <= y
             t == RemoveAt(s, k)
  <2>1. k \in I
    <3>1. I \subseteq Nat
      BY <1>1
    <3>2. \E x \in I : \A y \in I : x <= y
      BY <1>3, <3>1, SmallestOf
    <3> HIDE DEF I
    <3> QED BY <3>2
  <2>2. LRem(s, j) = t
    <3>1. Min(I) = k
      BY DEF Min
    <3>2. \E i \in 1..n : s[i][1] = j
      BY <1>3
    <3>3. SelectInSeq(s, LAMBDA e : e[1] = j) = Min(I)
      BY <1>3 DEF SelectInSeq
    <3> QED BY <3>1, <3>2, <3>3 DEF LRem, RemoveFirstMatch
  <2> HIDE DEF k
  <2>3. k \in 1..n /\ s[k][1] = j
    BY <2>1
  <2>4. /\ t \in Seq(S) /\ DOMAIN t = 1..n - 1
        /\ \A i \in 1..n - 1 : t[i] = IF i < k THEN s[i] ELSE s[i + 1]
    BY <2>3, ShortenedList
  <2> HIDE DEF t
  <2>5. \A i, l \in 1..n : s[i] = s[l] => i = l
    BY <1>1 DEF IsInjective
  <2>6. /\ IsInjective(t)
        /\ Range(t) \subseteq Range(s) \ {s[k]}
    <3>1. ASSUME NEW i \in 1..n - 1
          PROVE  \E u \in 1..n : u # k /\ t[i] = s[u] /\ u = IF i < k THEN i ELSE i + 1
      BY <1>1, <2>3, <2>4
    <3>2. IsInjective(t)
      BY <1>1, <2>3, <2>4, <2>5, <3>1 DEF IsInjective
    <3>3. ASSUME NEW i \in 1..n - 1 PROVE t[i] \in Range(s) \ {s[k]}
      <4>1. PICK u \in 1..n : u # k /\ t[i] = s[u]
        BY <3>1, <3>3
      <4>2. s[u] # s[k]
        BY <2>3, <2>5, <4>1
      <4> QED BY <1>1, <4>1, <4>2 DEF Range
    <3>4. Range(t) \subseteq Range(s) \ {s[k]}
      BY <2>4, <3>3 DEF Range
    <3> QED BY <3>2, <3>4
  <2>7. ASSUME NEW i \in 1..n, i # k PROVE s[i] \in Range(t)
    <3>1. CASE i < k
      BY <1>1, <2>3, <2>4, <3>1 DEF Range
    <3>2. CASE i > k
      <4>1. i - 1 \in 1..n - 1 /\ t[i - 1] = s[i]
        BY <1>1, <2>3, <2>4, <3>2
      <4> QED BY <2>4, <4>1 DEF Range
    <3> QED BY <1>1, <2>3, <2>7, <3>1, <3>2
  <2>8. Range(t) = Range(s) \ {s[k]} /\ s[k] \in Range(s)
    BY <1>1, <2>3, <2>6, <2>7 DEF Range
  <2> QED BY <2>2, <2>3, <2>4, <2>6, <2>8
<1> QED BY <1>2, <1>3

-----------------------------------------------------------------------------
(* What each step that moves envelopes does to the two lists.               *)

\* The copies of envelopes.
Copies == Jobs \X Nat

\* LPUSH puts a copy into the queue that is not in either list yet.
LEMMA PushLists ==
  ASSUME TypeOK, OneEnvelope, NEW j \in Jobs, LPush(j)
  PROVE  LET e == <<j, pushed[j] + 1>>
         IN /\ e \in Copies
            /\ queue' \in Seq(Copies) /\ inflight' \in Seq(Copies)
            /\ Range(queue') = Range(queue) \cup {e}
            /\ Range(inflight') = Range(inflight)
            /\ pushed' \in [Jobs -> Nat] /\ pushed' = [pushed EXCEPT ![j] = @ + 1]
            /\ OneEnvelope'
<1> DEFINE e == <<j, pushed[j] + 1>>
<1>1. /\ queue \in Seq(Copies) /\ inflight \in Seq(Copies)
      /\ IsInjective(queue) /\ IsInjective(inflight)
      /\ Range(queue) \cap Range(inflight) = {}
      /\ \A x \in Range(queue) \cup Range(inflight) : x[2] \in 1..pushed[x[1]]
      /\ pushed \in [Jobs -> Nat]
  BY DEF TypeOK, OneEnvelope, Envelopes, Copies
<1>2. /\ e \in Copies /\ queue' = <<e>> \o queue /\ inflight' = inflight
      /\ pushed' = [pushed EXCEPT ![j] = @ + 1] /\ pushed' \in [Jobs -> Nat]
  BY <1>1 DEF LPush, Copies
<1>3. e \notin Range(queue) \cup Range(inflight) /\ e[1] = j /\ e[2] = pushed[j] + 1
  BY <1>1
<1> HIDE DEF e
<1>4. /\ queue' \in Seq(Copies) /\ IsInjective(queue')
      /\ Range(queue') = Range(queue) \cup {e}
  BY <1>1, <1>2, <1>3, PushedList
<1>5. /\ \A x \in Range(queue) \cup Range(inflight) : x[1] \in Jobs /\ x[2] \in Nat
  BY <1>1, RangeOfSeq DEF Copies
<1>6. \A x \in Envelopes' : x[2] \in 1..pushed'[x[1]]
  <2>1. Envelopes' = Range(queue) \cup Range(inflight) \cup {e}
    BY <1>2, <1>4 DEF Envelopes
  <2>2. \A x \in Range(queue) \cup Range(inflight) : x[2] \in 1..pushed'[x[1]]
    BY <1>1, <1>2, <1>5
  <2>3. e[2] \in 1..pushed'[e[1]]
    BY <1>1, <1>2, <1>3
  <2> QED BY <2>1, <2>2, <2>3
<1>7. OneEnvelope'
  BY <1>1, <1>2, <1>3, <1>4, <1>6 DEF OneEnvelope
<1> QED BY <1>1, <1>2, <1>4, <1>7 DEF e

(* Reclaiming moves the oldest envelope from inflight to the queue.          *)
LEMMA ReclaimLists ==
  ASSUME TypeOK, OneEnvelope, NEW w \in Workers, Reclaim(w)
  PROVE  LET e == Last(inflight)
         IN /\ queue' \in Seq(Copies) /\ inflight' \in Seq(Copies)
            /\ e \in Copies /\ e \in Range(inflight)
            /\ Range(queue') = Range(queue) \cup {e}
            /\ Range(inflight') = Range(inflight) \ {e}
            /\ OneEnvelope'
<1> DEFINE e == Last(inflight)
<1>1. /\ queue \in Seq(Copies) /\ inflight \in Seq(Copies) /\ inflight # <<>>
      /\ IsInjective(queue) /\ IsInjective(inflight)
      /\ Range(queue) \cap Range(inflight) = {}
      /\ \A x \in Range(queue) \cup Range(inflight) : x[2] \in 1..pushed[x[1]]
  BY DEF TypeOK, OneEnvelope, Envelopes, Reclaim, Copies
<1>2. inflight' = Front(inflight) /\ queue' = <<e>> \o queue /\ pushed' = pushed
  BY DEF Reclaim
<1>3. /\ inflight' \in Seq(Copies) /\ IsInjective(inflight')
      /\ e \in Range(inflight) /\ e \in Copies
      /\ Range(inflight') = Range(inflight) \ {e}
  BY <1>1, <1>2, PoppedList
<1> HIDE DEF e
<1>4. e \notin Range(queue)
  BY <1>1, <1>3
<1>5. /\ queue' \in Seq(Copies) /\ IsInjective(queue')
      /\ Range(queue') = Range(queue) \cup {e}
  BY <1>1, <1>2, <1>3, <1>4, PushedList
<1>6. OneEnvelope'
  BY <1>1, <1>2, <1>3, <1>5 DEF OneEnvelope, Envelopes
<1> QED BY <1>3, <1>5, <1>6 DEF e

(* Taking moves the oldest envelope from the queue to inflight.              *)
LEMMA TakeLists ==
  ASSUME TypeOK, OneEnvelope, NEW w \in Workers, Take(w)
  PROVE  LET e == Last(queue)
         IN /\ queue' \in Seq(Copies) /\ inflight' \in Seq(Copies)
            /\ e \in Copies /\ e \in Range(queue)
            /\ Range(queue') = Range(queue) \ {e}
            /\ Range(inflight') = Range(inflight) \cup {e}
            /\ OneEnvelope'
<1> DEFINE e == Last(queue)
<1>1. /\ queue \in Seq(Copies) /\ inflight \in Seq(Copies) /\ queue # <<>>
      /\ IsInjective(queue) /\ IsInjective(inflight)
      /\ Range(queue) \cap Range(inflight) = {}
      /\ \A x \in Range(queue) \cup Range(inflight) : x[2] \in 1..pushed[x[1]]
  BY DEF TypeOK, OneEnvelope, Envelopes, Take, Copies
<1>2. queue' = Front(queue) /\ inflight' = <<e>> \o inflight /\ pushed' = pushed
  BY DEF Take
<1>3. /\ queue' \in Seq(Copies) /\ IsInjective(queue')
      /\ e \in Range(queue) /\ e \in Copies
      /\ Range(queue') = Range(queue) \ {e}
  BY <1>1, <1>2, PoppedList
<1> HIDE DEF e
<1>4. e \notin Range(inflight)
  BY <1>1, <1>3
<1>5. /\ inflight' \in Seq(Copies) /\ IsInjective(inflight')
      /\ Range(inflight') = Range(inflight) \cup {e}
  BY <1>1, <1>2, <1>3, <1>4, PushedList
<1>6. OneEnvelope'
  BY <1>1, <1>2, <1>3, <1>5 DEF OneEnvelope, Envelopes
<1> QED BY <1>3, <1>5, <1>6 DEF e

(* Acknowledging removes at most one copy of the job's envelope from         *)
(* inflight, and one if there is one.                                        *)
LEMMA AckLists ==
  ASSUME TypeOK, OneEnvelope, NEW w \in Workers, Ack(w)
  PROVE  /\ queue' \in Seq(Copies) /\ inflight' \in Seq(Copies)
         /\ Range(queue') = Range(queue)
         /\ \/ /\ \A x \in Range(inflight) : x[1] # job[w]
               /\ Range(inflight') = Range(inflight)
            \/ \E e \in Range(inflight) :
                 e[1] = job[w] /\ Range(inflight') = Range(inflight) \ {e}
         /\ OneEnvelope'
<1>1. /\ queue' = queue /\ pushed' = pushed
      /\ inflight' = LRem(inflight, job[w])
  BY DEF Ack
<1>2. inflight \in Seq(Copies) /\ IsInjective(inflight)
  BY DEF TypeOK, OneEnvelope, Copies
<1>3. /\ inflight' \in Seq(Copies) /\ IsInjective(inflight')
      /\ \/ /\ \A x \in Range(inflight) : x[1] # job[w]
            /\ inflight' = inflight
         \/ \E e \in Range(inflight) :
              e[1] = job[w] /\ Range(inflight') = Range(inflight) \ {e}
  <2> DEFINE j == job[w]
  <2> HIDE DEF j
  <2>1. inflight' = LRem(inflight, j)
    BY <1>1 DEF j
  <2>2. /\ LRem(inflight, j) \in Seq(Copies) /\ IsInjective(LRem(inflight, j))
        /\ \/ (\A x \in Range(inflight) : x[1] # j) /\ LRem(inflight, j) = inflight
           \/ \E e \in Range(inflight) :
                e[1] = j /\ Range(LRem(inflight, j)) = Range(inflight) \ {e}
    BY <1>2, RemovedList
  <2> QED BY <2>1, <2>2 DEF j
<1>4. Range(inflight') \subseteq Range(inflight)
  BY <1>3
<1>5. OneEnvelope'
  BY <1>1, <1>3, <1>4 DEF OneEnvelope, Envelopes
<1> QED BY <1>1, <1>3, <1>5 DEF TypeOK, Copies

\* A step that leaves both lists alone keeps what is said of them.
LEMMA SameLists ==
  ASSUME OneEnvelope, UNCHANGED redis
  PROVE  /\ OneEnvelope'
         /\ Envelopes' = Envelopes /\ JobsQueued' = JobsQueued
         /\ Range(inflight') = Range(inflight)
         /\ pushed' = pushed /\ queue' = queue /\ inflight' = inflight
         /\ Resent' = Resent
BY DEF redis, OneEnvelope, Envelopes, JobsQueued, Resent

\* A worker nobody has stolen from, of a job pushed once, has the one copy of
\* its envelope.
LEMMA OnlyCopy ==
  ASSUME TypeOK, OneEnvelope, NEW e \in Envelopes, e[1] \notin Resent
  PROVE  e \in Copies /\ e = <<e[1], 1>>
<1>1. queue \in Seq(Copies) /\ inflight \in Seq(Copies)
  BY DEF TypeOK, Copies
<1>2. e \in Copies
  BY <1>1, RangeOfSeq DEF Envelopes
<1>3. e = <<e[1], e[2]>> /\ e[1] \in Jobs /\ e[2] \in Nat
  BY <1>2 DEF Copies
<1>4. e[2] \in 1..pushed[e[1]] /\ pushed[e[1]] \in Nat
  BY <1>3 DEF OneEnvelope, TypeOK
<1>5. e[2] = 1
  BY <1>3, <1>4 DEF Resent
<1> QED BY <1>2, <1>3, <1>5

-----------------------------------------------------------------------------
(* Each step keeps the invariant.                                           *)

LEMMA InitQueueInv == Init => QueueInv
<1> SUFFICES ASSUME Init PROVE QueueInv
  OBVIOUS
<1> USE JobQueueAssumption DEF Init
<1>1. TypeOK
  BY EmptySeq DEF TypeOK, Busy
<1>2. Range(queue) = {} /\ Range(inflight) = {}
  BY DEF Range
<1>3. OneEnvelope
  BY <1>2 DEF OneEnvelope, Envelopes, IsInjective
<1>4. WorkIsKept /\ AckedIsSettled
  BY DEF WorkIsKept, AckedIsSettled
<1>5. HandsOff /\ AckIsDue /\ AckedIsGone /\ RowFirst /\ HandledIsSettled
  BY DEF HandsOff, AckIsDue, AckedIsGone, RowFirst, HandledIsSettled
<1> QED BY <1>1, <1>3, <1>4, <1>5 DEF QueueInv

\* The API inserts a row, time passes: no worker sees the difference.
LEMMA InsertRowKeeps ==
  ASSUME QueueInv, NEW j \in Jobs, InsertRow(j) \/ GrowOld(j)
  PROVE  QueueInv'
<1> USE DEF QueueInv, InFlight, Terminal
<1>1. /\ UNCHANGED <<redis, pc, job, faults, history>>
      /\ row' \in [Jobs -> {"none", "queued", "processing", "complete", "failed"}]
      /\ \A i \in Jobs : row[i] # "none" => row'[i] = row[i]
      /\ old' \subseteq Jobs
  BY DEF InsertRow, GrowOld, TypeOK
<1>2. /\ OneEnvelope' /\ JobsQueued' = JobsQueued /\ Range(inflight') = Range(inflight)
      /\ Resent' = Resent /\ UNCHANGED <<pushed, queue, inflight>>
  BY <1>1, SameLists
<1>3. TypeOK'
  BY <1>1, <1>2 DEF TypeOK, history
<1>4. WorkIsKept'
  BY <1>1, <1>2 DEF WorkIsKept, history
<1>5. AckedIsSettled'
  BY <1>1, <1>2 DEF AckedIsSettled, BeingRun, TypeOK, history
<1>6. HandsOff'
  BY <1>1, <1>2 DEF HandsOff, history
<1>7. AckIsDue'
  BY <1>1, <1>2 DEF AckIsDue, TypeOK, Busy, history
<1>8. AckedIsGone'
  BY <1>1, <1>2 DEF AckedIsGone, history
<1>9. RowFirst'
  BY <1>1, <1>2 DEF RowFirst, TypeOK, history
<1>10. HandledIsSettled'
  BY <1>1 DEF HandledIsSettled, BeingRun, TypeOK, history
<1> QED BY <1>2, <1>3, <1>4, <1>5, <1>6, <1>7, <1>8, <1>9, <1>10

\* LPUSH, of a job nobody has in hand, or once more.
LEMMA PushKeeps ==
  ASSUME QueueInv, NEW j \in Jobs, PushEnvelope(j) \/ ResendEnvelope(j)
  PROVE  QueueInv'
<1> USE DEF QueueInv
<1>1. /\ row[j] # "none" /\ LPush(j) /\ faults' \in 0..MaxFaults
      /\ UNCHANGED <<row, old, pc, job, told, handled, acked, stolen, dropped, escaped>>
      /\ pushed[j] = 0 \/ j \in Resent'
  <2>1. CASE PushEnvelope(j)
    BY <2>1 DEF PushEnvelope, db, history, TypeOK
  <2>2. CASE ResendEnvelope(j)
    BY <2>2, JobQueueAssumption
       DEF ResendEnvelope, LPush, Resent, RowFirst, db, history, TypeOK
  <2> QED BY <2>1, <2>2
<1> DEFINE e == <<j, pushed[j] + 1>>
<1>2. /\ queue' \in Seq(Copies) /\ inflight' \in Seq(Copies)
      /\ Range(queue') = Range(queue) \cup {e}
      /\ Range(inflight') = Range(inflight)
      /\ pushed' \in [Jobs -> Nat] /\ pushed' = [pushed EXCEPT ![j] = @ + 1]
      /\ OneEnvelope'
  BY <1>1, PushLists
<1>3. /\ JobsQueued' = JobsQueued \cup {j}
      /\ Resent \subseteq Resent' /\ Resent' \subseteq Resent \cup {j}
      /\ pushed \in [Jobs -> Nat] /\ pushed'[j] > 0
  <2>1. Envelopes' = Envelopes \cup {e} /\ e[1] = j
    BY <1>2 DEF Envelopes
  <2> HIDE DEF e
  <2>2. JobsQueued' = JobsQueued \cup {j}
    BY <2>1 DEF JobsQueued
  <2> QED BY <1>2, <2>2 DEF Resent, TypeOK
<1> HIDE DEF e
<1>4. TypeOK'
  BY <1>1, <1>2 DEF TypeOK, Copies
<1>5. WorkIsKept'
  BY <1>1, <1>2, <1>3 DEF WorkIsKept
<1>6. AckedIsSettled' /\ HandledIsSettled'
  BY <1>1, <1>3 DEF AckedIsSettled, HandledIsSettled, BeingRun
<1>7. HandsOff' /\ AckIsDue'
  BY <1>1, <1>2, <1>3 DEF HandsOff, AckIsDue
<1>8. AckedIsGone'
  BY <1>1, <1>3 DEF AckedIsGone, RowFirst
<1>9. RowFirst'
  BY <1>1, <1>2, <1>3 DEF RowFirst, TypeOK
<1> QED BY <1>2, <1>4, <1>5, <1>6, <1>7, <1>8, <1>9

\* The reaper writes "failed", a terminal status.
LEMMA ReapKeeps ==
  ASSUME QueueInv, Reap
  PROVE  QueueInv'
<1> USE DEF QueueInv, InFlight, Terminal
<1>1. /\ UNCHANGED <<old, redis, pc, job, faults, handled, acked, stolen, dropped, escaped>>
      /\ row' = [i \in Jobs |-> IF i \in Stuck THEN "failed" ELSE row[i]]
      /\ told' \subseteq Jobs
  BY DEF Reap, Stuck, TypeOK
<1>2. /\ OneEnvelope' /\ JobsQueued' = JobsQueued /\ Range(inflight') = Range(inflight)
      /\ Resent' = Resent /\ UNCHANGED <<pushed, queue, inflight>>
  BY <1>1, SameLists
<1>3. TypeOK'
  BY <1>1, <1>2 DEF TypeOK
<1>4. WorkIsKept'
  BY <1>1, <1>2 DEF WorkIsKept
<1>5. AckedIsSettled'
  BY <1>1, <1>2 DEF AckedIsSettled, BeingRun, TypeOK
<1>6. HandsOff'
  BY <1>1, <1>2 DEF HandsOff
<1>7. AckIsDue'
  BY <1>1, <1>2 DEF AckIsDue, TypeOK, Busy
<1>8. AckedIsGone'
  BY <1>1, <1>2 DEF AckedIsGone
<1>9. RowFirst'
  BY <1>1, <1>2 DEF RowFirst, TypeOK
<1>10. HandledIsSettled'
  BY <1>1 DEF HandledIsSettled, BeingRun, TypeOK
<1> QED BY <1>2, <1>3, <1>4, <1>5, <1>6, <1>7, <1>8, <1>9, <1>10

\* A worker boots, finishes reclaiming, stops or dies.
LEMMA LoopKeeps ==
  ASSUME QueueInv, NEW w \in Workers,
         Boot(w) \/ Reclaimed(w) \/ RedisError(w) \/ Crash(w)
  PROVE  QueueInv'
<1> USE DEF QueueInv, Goto
<1>1. /\ UNCHANGED <<db, redis, told, handled, acked, stolen, escaped>>
      /\ faults' \in 0..MaxFaults
      /\ \E s \in {"down", "reclaim", "ready", "stopped"} : pc' = [pc EXCEPT ![w] = s]
      /\ job' = [job EXCEPT ![w] = None]
      /\ dropped' = dropped \cup ({job[w]} \ {None})
  <2>1. CASE Boot(w) \/ Reclaimed(w)
    <3>1. job[w] = None
      BY <2>1 DEF Boot, Reclaimed, TypeOK, Busy
    <3> QED BY <2>1, <3>1 DEF Boot, Reclaimed, TypeOK, history
  <2>2. CASE RedisError(w) \/ Crash(w)
    BY <2>2, JobQueueAssumption DEF RedisError, Crash, Drop, TypeOK
  <2> QED BY <2>1, <2>2
<1>2. /\ OneEnvelope' /\ JobsQueued' = JobsQueued /\ Range(inflight') = Range(inflight)
      /\ Resent' = Resent /\ UNCHANGED <<pushed, queue, inflight>>
  BY <1>1, SameLists
<1>3. TypeOK'
  BY <1>1, <1>2, JobQueueAssumption DEF TypeOK, db, Busy
<1>4. WorkIsKept'
  BY <1>1, <1>2 DEF WorkIsKept
<1>5. ASSUME NEW j \in Jobs, BeingRun(j)
      PROVE  BeingRun(j)' \/ j \in dropped'
  BY <1>1, <1>5, JobQueueAssumption DEF BeingRun, TypeOK
<1>6. AckedIsSettled' /\ HandledIsSettled'
  BY <1>1, <1>2, <1>5 DEF AckedIsSettled, HandledIsSettled, db, TypeOK
<1>7. HandsOff'
  BY <1>1, <1>2, JobQueueAssumption DEF HandsOff, TypeOK
<1>8. AckIsDue'
  BY <1>1, <1>2 DEF AckIsDue, TypeOK, db
<1>9. AckedIsGone'
  BY <1>1, <1>2, JobQueueAssumption DEF AckedIsGone, TypeOK
<1>10. RowFirst'
  BY <1>1, <1>2, JobQueueAssumption DEF RowFirst, TypeOK, db
<1> QED BY <1>2, <1>3, <1>4, <1>6, <1>7, <1>8, <1>9, <1>10

\* What a worker writes to the row of its job: a job whose envelope is gone is
\* in nobody's hands, and nobody else acknowledges a job that was not stolen.
LEMMA MarkProcessingKeeps ==
  ASSUME QueueInv, NEW w \in Workers, MarkProcessing(w)
  PROVE  QueueInv'
<1> USE DEF QueueInv, Goto
<1>1. /\ UNCHANGED <<redis, job, faults, history>>
      /\ pc[w] = "taken" /\ pc' = [pc EXCEPT ![w] = "running"]
      /\ row' = [row EXCEPT ![job[w]] = "processing"]
      /\ old' = old \ {job[w]}
      /\ job[w] \in Jobs
  BY DEF MarkProcessing, TypeOK, Busy
<1>2. /\ OneEnvelope' /\ JobsQueued' = JobsQueued /\ Range(inflight') = Range(inflight)
      /\ Resent' = Resent /\ UNCHANGED <<pushed, queue, inflight>>
  BY <1>1, SameLists
<1>3. TypeOK'
  BY <1>1, <1>2 DEF TypeOK, history, Busy, InFlight
<1>4. WorkIsKept'
  BY <1>1, <1>2 DEF WorkIsKept, history
<1>5. /\ \A j \in Jobs : BeingRun(j) => BeingRun(j)'
      /\ BeingRun(job[w])'
      /\ \A j \in Jobs : j = job[w] \/ row'[j] = row[j]
  BY <1>1 DEF BeingRun, TypeOK
<1>11. AckedIsSettled'
  <2>1. job[w] \in acked \ escaped => job[w] \in stolen \cup Resent
    BY DEF AckedIsGone
  <2> QED BY <1>1, <1>2, <1>5, <2>1 DEF AckedIsSettled, TypeOK, history
<1>10. HandledIsSettled'
  BY <1>1, <1>5 DEF HandledIsSettled, TypeOK, history
<1>6. HandsOff'
  BY <1>1, <1>2 DEF HandsOff, history
<1>7. AckIsDue'
  BY <1>1, <1>2 DEF AckIsDue, HandsOff, TypeOK, history, Busy
<1>8. AckedIsGone'
  BY <1>1, <1>2 DEF AckedIsGone, history
<1>9. RowFirst'
  BY <1>1, <1>2 DEF RowFirst, TypeOK, history
<1> QED BY <1>2, <1>3, <1>4, <1>5, <1>6, <1>7, <1>8, <1>9, <1>10, <1>11

(* Recording an outcome keeps the invariant.                                 *)
LEMMA RecordKeeps ==
  ASSUME QueueInv, NEW w \in Workers, MarkComplete(w) \/ MarkFailed(w)
  PROVE  QueueInv'
<1> USE DEF QueueInv, Goto, Terminal
<1>1. PICK outcome \in Terminal : Record(w, outcome)
  BY DEF MarkComplete, MarkFailed
<1>2. /\ UNCHANGED <<old, redis, job, faults, acked, stolen, dropped, escaped>>
      /\ pc[w] = "running" /\ pc' = [pc EXCEPT ![w] = "acking"]
      /\ row' = [row EXCEPT ![job[w]] = outcome]
      /\ told' \subseteq Jobs
      /\ handled' = handled \cup {job[w]}
      /\ job[w] \in Jobs
  BY <1>1 DEF Record, TypeOK, Busy
<1>3. /\ OneEnvelope' /\ JobsQueued' = JobsQueued /\ Range(inflight') = Range(inflight)
      /\ Resent' = Resent /\ UNCHANGED <<pushed, queue, inflight>>
  BY <1>2, SameLists
<1>4. TypeOK'
  BY <1>2, <1>3 DEF TypeOK, Busy
<1>5. WorkIsKept'
  BY <1>2, <1>3 DEF WorkIsKept
<1>11. \A j \in Jobs \ {job[w]} : BeingRun(j) => BeingRun(j)'
  BY <1>2 DEF BeingRun, TypeOK
<1>12. HandledIsSettled'
  BY <1>2, <1>11 DEF HandledIsSettled, TypeOK
<1>6. AckedIsSettled'
  BY <1>2, <1>3, <1>11 DEF AckedIsSettled, TypeOK
<1>7. HandsOff'
  BY <1>2, <1>3 DEF HandsOff
<1>8. AckIsDue'
  BY <1>2, <1>3 DEF AckIsDue, TypeOK, Busy
<1>9. AckedIsGone'
  BY <1>2, <1>3 DEF AckedIsGone
<1>10. RowFirst'
  BY <1>2, <1>3 DEF RowFirst, TypeOK
<1> QED BY <1>3, <1>4, <1>5, <1>6, <1>7, <1>8, <1>9, <1>10, <1>12

(* A database error keeps the invariant.                                     *)
LEMMA DbErrorKeeps ==
  ASSUME QueueInv, NEW w \in Workers, DbError(w)
  PROVE  QueueInv'
<1> USE DEF QueueInv
<1>1. /\ UNCHANGED <<db, redis, job, told, handled, acked, stolen, dropped>>
      /\ pc' = [pc EXCEPT ![w] = "escaping"]
      /\ escaped' = escaped \cup {job[w]}
      /\ faults' \in 0..MaxFaults
      /\ job[w] \in Jobs
  BY JobQueueAssumption DEF DbError, TypeOK, Busy
<1>2. /\ OneEnvelope' /\ JobsQueued' = JobsQueued /\ Range(inflight') = Range(inflight)
      /\ Resent' = Resent /\ UNCHANGED <<pushed, queue, inflight>>
  BY <1>1, SameLists
<1>3. TypeOK'
  BY <1>1, <1>2 DEF TypeOK, db, Busy
<1>4. WorkIsKept'
  BY <1>1, <1>2 DEF WorkIsKept
<1>8. \A j \in Jobs \ {job[w]} : BeingRun(j) => BeingRun(j)'
  BY <1>1 DEF BeingRun, TypeOK
<1>9. AckedIsSettled' /\ HandledIsSettled'
  BY <1>1, <1>2, <1>8 DEF AckedIsSettled, HandledIsSettled, db, TypeOK
<1>5. HandsOff'
  BY <1>1, <1>2 DEF HandsOff
<1>6. AckIsDue'
  BY <1>1, <1>2 DEF AckIsDue, TypeOK, db
<1>7. AckedIsGone' /\ RowFirst'
  BY <1>1, <1>2 DEF AckedIsGone, RowFirst, db
<1> QED BY <1>2, <1>3, <1>4, <1>5, <1>6, <1>7, <1>9

\* RPOPLPUSH at boot: whoever has the job in hand is stolen from.
LEMMA ReclaimKeeps ==
  ASSUME QueueInv, NEW w \in Workers, Reclaim(w)
  PROVE  QueueInv'
<1> DEFINE e == Last(inflight)
<1> USE DEF QueueInv
<1>1. /\ UNCHANGED <<row, old, pushed, pc, job, faults, told, handled, acked, dropped, escaped>>
      /\ stolen' = IF \E v \in Workers : job[v] = e[1] THEN stolen \cup {e[1]} ELSE stolen
  BY DEF Reclaim, db
<1>2. /\ queue' \in Seq(Copies) /\ inflight' \in Seq(Copies)
      /\ e \in Copies /\ e \in Range(inflight)
      /\ Range(queue') = Range(queue) \cup {e}
      /\ Range(inflight') = Range(inflight) \ {e}
      /\ OneEnvelope'
  BY ReclaimLists
<1> HIDE DEF e
<1>3. Envelopes' = Envelopes /\ JobsQueued' = JobsQueued /\ Resent' = Resent
  BY <1>1, <1>2 DEF Envelopes, JobsQueued, Resent
<1>4. e[1] \in Jobs /\ stolen \subseteq stolen' /\ stolen' \subseteq stolen \cup {e[1]}
  BY <1>1, <1>2 DEF Copies
<1>5. TypeOK'
  BY <1>1, <1>2, <1>4 DEF TypeOK, Copies
<1>6. WorkIsKept'
  BY <1>1, <1>3 DEF WorkIsKept
<1>7. AckedIsSettled' /\ HandledIsSettled'
  BY <1>1, <1>3, <1>4 DEF AckedIsSettled, HandledIsSettled, BeingRun
<1>8. HandsOff'
  <2>1. ASSUME NEW v \in Workers, job[v] \in Jobs \ (stolen' \cup Resent)
        PROVE  <<job[v], 1>> \in Range(inflight')
    <3>1. <<job[v], 1>> \in Range(inflight)
      BY <1>4, <2>1 DEF HandsOff
    <3>2. <<job[v], 1>> # e
      BY <1>1, <2>1
    <3> QED BY <1>2, <3>1, <3>2
  <2> QED BY <1>1, <1>3, <1>4, <2>1 DEF HandsOff
<1>9. AckIsDue'
  BY <1>1, <1>3, <1>4 DEF AckIsDue
<1>10. AckedIsGone' /\ RowFirst'
  BY <1>1, <1>3, <1>4 DEF AckedIsGone, RowFirst
<1> QED BY <1>2, <1>5, <1>6, <1>7, <1>8, <1>9, <1>10

\* BLMOVE: what is in the queue is in no hands but a thief's.
LEMMA TakeKeeps ==
  ASSUME QueueInv, NEW w \in Workers, Take(w)
  PROVE  QueueInv'
<1> DEFINE e == Last(queue)
<1> USE DEF QueueInv
<1>1. /\ UNCHANGED <<row, old, pushed, faults, told, handled, acked, stolen, dropped, escaped>>
      /\ pc[w] = "ready" /\ pc' = [pc EXCEPT ![w] = "taken"]
      /\ job' = [job EXCEPT ![w] = e[1]]
  BY DEF Take, Goto, db, history
<1>2. /\ queue' \in Seq(Copies) /\ inflight' \in Seq(Copies)
      /\ e \in Copies /\ e \in Range(queue)
      /\ Range(queue') = Range(queue) \ {e}
      /\ Range(inflight') = Range(inflight) \cup {e}
      /\ OneEnvelope'
  BY TakeLists
<1> HIDE DEF e
<1>3. /\ Envelopes' = Envelopes /\ JobsQueued' = JobsQueued /\ Resent' = Resent
      /\ e \in Envelopes /\ e \notin Range(inflight) /\ e[1] \in Jobs
      /\ e[1] \in JobsQueued /\ pushed[e[1]] > 0
  <2>1. Envelopes' = Envelopes /\ e \in Envelopes /\ e \notin Range(inflight) /\ e[1] \in Jobs
    BY <1>2 DEF Envelopes, OneEnvelope, Copies
  <2>2. pushed[e[1]] \in Nat /\ e[2] \in 1..pushed[e[1]]
    BY <2>1 DEF TypeOK, OneEnvelope
  <2> QED BY <1>1, <2>1, <2>2 DEF JobsQueued, Resent
<1>4. TypeOK'
  BY <1>1, <1>2, <1>3 DEF TypeOK, Busy, Copies
<1>5. WorkIsKept'
  BY <1>1, <1>3 DEF WorkIsKept
<1>6. \A j \in Jobs : BeingRun(j) => BeingRun(j)'
  <2>1. \A v \in Workers : pc[v] = "running" => v # w /\ job'[v] = job[v] /\ pc'[v] = pc[v]
    BY <1>1 DEF TypeOK
  <2> QED BY <2>1 DEF BeingRun
<1>7. AckedIsSettled' /\ HandledIsSettled'
  BY <1>1, <1>3, <1>6 DEF AckedIsSettled, HandledIsSettled, TypeOK
<1>8. HandsOff'
  <2>1. e[1] \notin Resent => e = <<e[1], 1>>
    BY <1>3, OnlyCopy
  <2>2. e[1] \notin stolen \cup Resent => \A v \in Workers : job[v] # e[1]
    BY <1>3, <2>1 DEF HandsOff
  <2>3. \A v \in Workers : job'[v] = IF v = w THEN e[1] ELSE job[v]
    BY <1>1 DEF TypeOK
  <2>4. ASSUME NEW v \in Workers, job'[v] \in Jobs \ (stolen \cup Resent)
        PROVE  /\ <<job'[v], 1>> \in Range(inflight')
               /\ \A u \in Workers : job'[u] = job'[v] => u = v
    BY <1>2, <2>1, <2>2, <2>3, <2>4 DEF HandsOff
  <2> QED BY <1>1, <1>3, <2>4 DEF HandsOff
<1>9. AckIsDue'
  BY <1>1, <1>3 DEF AckIsDue, TypeOK
<1>10. AckedIsGone' /\ RowFirst'
  BY <1>1, <1>3 DEF AckedIsGone, RowFirst, TypeOK
<1> QED BY <1>2, <1>4, <1>5, <1>7, <1>8, <1>9, <1>10

\* LREM: the job's outcome is recorded, or its UPDATE failed.
LEMMA AckKeeps ==
  ASSUME QueueInv, NEW w \in Workers, Ack(w)
  PROVE  QueueInv'
<1> USE DEF QueueInv
<1>1. /\ UNCHANGED <<row, old, pushed, faults, told, handled, stolen, dropped, escaped>>
      /\ pc[w] \in {"acking", "escaping"}
      /\ \E s \in {"ready", "stopped"} : pc' = [pc EXCEPT ![w] = s]
      /\ acked' = acked \cup {job[w]}
      /\ job' = [job EXCEPT ![w] = None]
      /\ job[w] \in Jobs
  BY DEF Ack, Goto, TypeOK, Busy, db
<1>2. /\ queue' \in Seq(Copies) /\ inflight' \in Seq(Copies)
      /\ Range(queue') = Range(queue)
      /\ \/ /\ \A x \in Range(inflight) : x[1] # job[w]
            /\ Range(inflight') = Range(inflight)
         \/ \E e \in Range(inflight) :
              e[1] = job[w] /\ Range(inflight') = Range(inflight) \ {e}
      /\ OneEnvelope'
  BY AckLists
<1>3. /\ Envelopes' \subseteq Envelopes /\ JobsQueued' \subseteq JobsQueued
      /\ JobsQueued \ {job[w]} \subseteq JobsQueued'
      /\ \A x \in Range(inflight) : x[1] # job[w] => x \in Range(inflight')
      /\ Resent' = Resent
  BY <1>1, <1>2 DEF Envelopes, JobsQueued, Resent
<1>4. job[w] \in handled \cup escaped /\ (pc[w] = "acking" => job[w] \in handled)
  BY <1>1 DEF AckIsDue
<1>5. TypeOK'
  BY <1>1, <1>2, JobQueueAssumption DEF TypeOK, Busy, Copies
<1>6. WorkIsKept'
  BY <1>1, <1>3, <1>4 DEF WorkIsKept
<1>7. \A v \in Workers : job'[v] = IF v = w THEN None ELSE job[v]
  BY <1>1 DEF TypeOK
<1>8. \A j \in Jobs : BeingRun(j) => BeingRun(j)'
  <2>1. \A v \in Workers : pc[v] = "running" => v # w /\ pc'[v] = pc[v]
    BY <1>1 DEF TypeOK
  <2> QED BY <1>7, <2>1 DEF BeingRun
<1>9. HandledIsSettled'
  BY <1>1, <1>8 DEF HandledIsSettled, TypeOK
<1>10. AckedIsSettled'
  <2>1. job[w] \notin stolen \cup Resent \cup escaped => row[job[w]] \in Terminal
    BY <1>1 DEF AckIsDue
  <2>2. job[w] \notin escaped =>
          row[job[w]] \in Terminal \/ BeingRun(job[w]) \/ job[w] \in dropped
    BY <1>4 DEF HandledIsSettled
  <2>3. \A j \in acked' : j \in acked \/ j = job[w]
    BY <1>1
  <2> QED BY <1>1, <1>3, <1>8, <2>1, <2>2, <2>3 DEF AckedIsSettled, TypeOK
<1>11. HandsOff'
  <2>1. ASSUME NEW v \in Workers, job'[v] \in Jobs \ (stolen \cup Resent)
        PROVE  /\ <<job'[v], 1>> \in Range(inflight')
               /\ \A u \in Workers : job'[u] = job'[v] => u = v
    <3>1. v # w /\ job'[v] = job[v]
      BY <1>7, <2>1, JobQueueAssumption
    <3>2. /\ <<job[v], 1>> \in Range(inflight)
          /\ \A u \in Workers : job[u] = job[v] => u = v
      BY <2>1, <3>1 DEF HandsOff
    <3>3. job[v] # job[w]
      BY <3>1, <3>2
    <3> QED BY <1>3, <1>7, <2>1, <3>1, <3>2, <3>3, JobQueueAssumption
  <2> QED BY <1>1, <1>3, <2>1 DEF HandsOff
<1>12. AckIsDue'
  BY <1>1, <1>3 DEF AckIsDue, TypeOK
<1>13. AckedIsGone'
  <2>1. ASSUME job[w] \notin stolen \cup Resent
        PROVE  job[w] \notin JobsQueued'
    <3>1. <<job[w], 1>> \in Range(inflight)
      BY <1>1, <2>1 DEF HandsOff
    <3>2. PICK e \in Range(inflight) :
            e[1] = job[w] /\ Range(inflight') = Range(inflight) \ {e}
      BY <1>2, <3>1
    <3>3. e \in Envelopes /\ e = <<job[w], 1>>
      BY <2>1, <3>2, OnlyCopy DEF Envelopes
    <3>4. ASSUME NEW x \in Envelopes', x[1] = job[w]
          PROVE  FALSE
      <4>1. x \in Envelopes /\ x = <<job[w], 1>>
        BY <1>3, <2>1, <3>4, OnlyCopy
      <4>2. x \notin Range(inflight') /\ x \notin Range(queue')
        BY <1>2, <3>2, <3>3, <4>1 DEF OneEnvelope
      <4> QED BY <4>2 DEF Envelopes
    <3> QED BY <3>4 DEF JobsQueued
  <2>2. job[w] \notin stolen \cup Resent => \A v \in Workers : job'[v] # job[w]
    BY <1>1, <1>7, JobQueueAssumption DEF HandsOff
  <2> QED BY <1>1, <1>3, <1>7, <2>1, <2>2, JobQueueAssumption DEF AckedIsGone, TypeOK
<1>14. RowFirst'
  BY <1>1, <1>4, <1>7, JobQueueAssumption DEF RowFirst, TypeOK
<1> QED BY <1>2, <1>5, <1>6, <1>9, <1>10, <1>11, <1>12, <1>13, <1>14

-----------------------------------------------------------------------------
(* The theorems.                                                            *)

LEMMA NextKeepsQueueInv == QueueInv /\ [Next]_vars => QueueInv'
<1> SUFFICES ASSUME QueueInv, [Next]_vars PROVE QueueInv'
  OBVIOUS
<1>1. CASE \E j \in Jobs : InsertRow(j) \/ PushEnvelope(j) \/ ResendEnvelope(j) \/ GrowOld(j)
  BY <1>1, InsertRowKeeps, PushKeeps
<1>2. CASE Reap
  BY <1>2, ReapKeeps
<1>3. ASSUME NEW w \in Workers, WorkerStep(w) \/ DbError(w) \/ RedisError(w) \/ Crash(w)
      PROVE  QueueInv'
  <2>1. CASE Boot(w) \/ Reclaimed(w) \/ RedisError(w) \/ Crash(w)
    BY <2>1, LoopKeeps
  <2>2. CASE MarkProcessing(w)
    BY <2>2, MarkProcessingKeeps
  <2>3. CASE MarkComplete(w) \/ MarkFailed(w)
    BY <2>3, RecordKeeps
  <2>4. CASE DbError(w)
    BY <2>4, DbErrorKeeps
  <2>5. CASE Reclaim(w)
    BY <2>5, ReclaimKeeps
  <2>6. CASE Take(w)
    BY <2>6, TakeKeeps
  <2>7. CASE Ack(w)
    BY <2>7, AckKeeps
  <2> QED BY <1>3, <2>1, <2>2, <2>3, <2>4, <2>5, <2>6, <2>7 DEF WorkerStep
<1>4. CASE UNCHANGED vars
  BY <1>4 DEF vars, db, redis, history, QueueInv, TypeOK, OneEnvelope, Envelopes,
     JobsQueued, Resent, BeingRun, WorkIsKept, AckedIsSettled, HandledIsSettled, HandsOff,
     AckIsDue, AckedIsGone, RowFirst
<1> QED BY <1>1, <1>2, <1>3, <1>4 DEF Next

\* The invariant the four results below rest on.
THEOREM QueueInvariant == Spec => []QueueInv
<1>1. Init => QueueInv
  BY InitQueueInv
<1>2. QueueInv /\ [Next]_vars => QueueInv'
  BY NextKeepsQueueInv
<1> QED BY <1>1, <1>2, PTL DEF Spec

\* Every variable of the queue keeps to its type.
THEOREM QueueTypeOK == Spec => []TypeOK
<1>1. QueueInv => TypeOK
  BY DEF QueueInv
<1> QED BY <1>1, QueueInvariant, PTL

\* No BLMOVE, RPOPLPUSH or LREM of consumer.py ever makes an envelope two,
\* whatever the workers do to each other: there are never more of a job than
\* LPUSHes of it that landed.
THEOREM QueueOneEnvelope == Spec => []OneEnvelope
<1>1. QueueInv => OneEnvelope
  BY DEF QueueInv
<1> QED BY <1>1, QueueInvariant, PTL

\* A pushed job without an outcome is in a list, whatever crashes.
THEOREM QueueWorkIsKept == Spec => []WorkIsKept
<1>1. QueueInv => WorkIsKept
  BY DEF QueueInv
<1> QED BY <1>1, QueueInvariant, PTL

\* Removing an envelope ends the job.  One that is handled again, re-queued
\* under a live worker's hands or pushed twice, leaves its terminal status only
\* while a worker runs it, or for good when that worker is cut off; and a failed
\* UPDATE leaves the row as it is.
THEOREM QueueAckedIsSettled == Spec => []AckedIsSettled
<1>1. QueueInv => AckedIsSettled
  BY DEF QueueInv
<1> QED BY <1>1, QueueInvariant, PTL

=============================================================================
