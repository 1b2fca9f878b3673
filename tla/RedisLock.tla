----------------------------- MODULE RedisLock -----------------------------
(***************************************************************************)
(* withRedisLock (apps/api/src/scheduler/lock.ts) around one scheduled     *)
(* task (apps/api/src/scheduler.ts), for one lock key.                     *)
(*                                                                         *)
(* A caller is one invocation of the task by cron, in any API process.  It *)
(* sends SET key '1' PX ttl NX and waits for the reply or for a timeout;   *)
(* when the reply is OK it runs the body and then sends DEL without        *)
(* waiting for it.  The key carries no owner, so a DEL removes whatever    *)
(* key is there when it lands.  A command that has been sent may land much *)
(* later (the client queues commands while Redis is unreachable), land     *)
(* after its caller has given up or died, land again (the client sends it  *)
(* anew when the connection was lost before the answer), or never land.    *)
(*                                                                         *)
(* Time passes in units by Tick.  Two upper bounds are assumed of it: the  *)
(* acquire timer fires on time, and a body ends within MaxRun ("set ttlMs  *)
(* comfortably above a tick's worst-case duration").                       *)
(***************************************************************************)
EXTENDS Naturals, FiniteSets

CONSTANTS
  Callers,          \* invocations of the task, over all API processes
  Ttl,              \* ttlMs
  AcquireTimeout,   \* ACQUIRE_TIMEOUT_MS
  MaxRun,           \* longest time the body takes
  MaxTick           \* bound: cron fires ticks 1..MaxTick

ASSUME BoundsAreNaturals ==
  /\ Ttl \in Nat /\ AcquireTimeout \in Nat /\ MaxRun \in Nat
  /\ MaxTick \in Nat

\* The documented condition on ttlMs, with the delay the comment leaves out:
\* waiting for the SET's reply.  It is a hypothesis of the theorems and holds
\* of the constants of the passing run; nothing in the code enforces it.
TtlCoversRun == AcquireTimeout + MaxRun < Ttl

VARIABLES
  pc,       \* what each caller is doing
  reply,    \* its SET: not sent, sent, or answered
  orphans,  \* SETs of its calls that were given up, still on their way
  del,      \* whether the DEL of its last run is on its way to that run's key
  strays,   \* whether DELs are on their way whose key is gone
  age,      \* time since the call, or the run, began
  ttl,      \* remaining life of the key; 0 when there is no key
  next,     \* the next cron tick this caller fires
  ran,      \* history: the callers that ran the body for each tick
  robbed    \* history: callers whose key a stray DEL removed while they relied on it

redis == <<orphans, del, strays, ttl>>
vars == <<pc, reply, redis, age, next, ran, robbed>>

TypeOK ==
  /\ pc \in [Callers -> {"idle", "acquiring", "running", "down"}]
  /\ reply \in [Callers -> {"none", "sent", "OK", "nil"}]
  /\ orphans \in [Callers -> Nat]
  /\ del \in [Callers -> BOOLEAN] /\ strays \in BOOLEAN
  /\ age \in [Callers -> 0..(AcquireTimeout + MaxRun)]
  /\ ttl \in 0..Ttl
  /\ next \in [Callers -> 1..(MaxTick + 1)]
  /\ ran \in [1..MaxTick -> SUBSET Callers]
  /\ robbed \subseteq Callers

Init ==
  /\ pc = [c \in Callers |-> "idle"]
  /\ reply = [c \in Callers |-> "none"]
  /\ orphans = [c \in Callers |-> 0]
  /\ del = [c \in Callers |-> FALSE] /\ strays = FALSE
  /\ age = [c \in Callers |-> 0]
  /\ ttl = 0
  /\ next = [c \in Callers |-> 1]
  /\ ran = [t \in 1..MaxTick |-> {}]
  /\ robbed = {}

\* The callers that rely on the key: the answer OK is on its way, or the body
\* runs.
Granted(c) == pc[c] = "acquiring" /\ reply[c] = "OK"
Running(c) == pc[c] = "running"
Reliant == {c \in Callers : Granted(c) \/ Running(c)}

-----------------------------------------------------------------------------
(* The Redis side: SET ... NX PX, DEL and expiry.                          *)

\* The effect of SET ... PX ttl NX on the key, and its answer.
SetNX(t) == IF t = 0 THEN Ttl ELSE t
SetNXReply(t) == IF t = 0 THEN "OK" ELSE "nil"

\* The key's life one unit of time later.
NeverExpires(t) == t
Expire(t) == IF t > 0 THEN t - 1 ELSE 0

\* The SET a caller is waiting for lands, and its answer is on its way back.
LandSet(c) ==
  /\ pc[c] = "acquiring" /\ reply[c] = "sent"
  /\ reply' = [reply EXCEPT ![c] = SetNXReply(ttl)]
  /\ ttl' = SetNX(ttl)
  /\ UNCHANGED <<pc, orphans, del, strays, age, next, ran, robbed>>

\* It lands, but the connection is lost before the answer: it is sent again.
RepeatSet(c) ==
  /\ pc[c] = "acquiring" /\ reply[c] = "sent"
  /\ ttl' = SetNX(ttl)
  /\ UNCHANGED <<pc, reply, orphans, del, strays, age, next, ran, robbed>>

\* A SET nobody waits for any more lands, for the last time or not: a key
\* without a holder.
LandOrphan(c) ==
  /\ orphans[c] > 0
  /\ orphans' \in {orphans, [orphans EXCEPT ![c] = @ - 1]}
  /\ ttl' = SetNX(ttl)
  /\ UNCHANGED <<pc, reply, del, strays, age, next, ran, robbed>>

\* A DEL lands that is the first to find the key it was sent for.  If its
\* answer is lost it is sent again.
LandDel(c) ==
  /\ del[c]
  /\ del' = [del EXCEPT ![c] = FALSE]
  /\ ttl' = 0
  /\ strays' \in {strays, TRUE}
  /\ UNCHANGED <<pc, reply, orphans, age, next, ran, robbed>>

\* A DEL lands whose key had been removed or had expired: it removes whatever
\* key there is, under whoever relies on it.
LandStray ==
  /\ strays
  /\ strays' \in {(\E c \in Callers : del[c]), TRUE}
  /\ del' = [c \in Callers |-> FALSE]
  /\ ttl' = 0
  /\ robbed' = robbed \cup Reliant
  /\ UNCHANGED <<pc, reply, orphans, age, next, ran>>

\* A command is lost with its connection or its process; its rejection is
\* swallowed.
LoseDel(c) ==
  /\ del[c]
  /\ del' = [del EXCEPT ![c] = FALSE]
  /\ UNCHANGED <<pc, reply, orphans, strays, age, ttl, next, ran, robbed>>

LoseOrphan(c) ==
  /\ orphans[c] > 0
  /\ orphans' = [orphans EXCEPT ![c] = @ - 1]
  /\ UNCHANGED <<pc, reply, del, strays, age, ttl, next, ran, robbed>>

-----------------------------------------------------------------------------
(* The caller's side: withRedisLock.                                       *)

\* The call is over.
End(c) ==
  /\ reply' = [reply EXCEPT ![c] = "none"]
  /\ robbed' = robbed \ {c}
  /\ UNCHANGED <<age, ttl, next, ran>>

\* Cron fires the task and the SET is issued.
Call(c) ==
  /\ pc[c] = "idle" /\ next[c] <= MaxTick
  /\ pc' = [pc EXCEPT ![c] = "acquiring"]
  /\ reply' = [reply EXCEPT ![c] = "sent"]
  /\ age' = [age EXCEPT ![c] = 0]
  /\ next' = [next EXCEPT ![c] = @ + 1]
  /\ UNCHANGED <<redis, ran, robbed>>

\* The answer is OK before the timeout: the body starts.
Start(c) ==
  /\ Granted(c)
  /\ pc' = [pc EXCEPT ![c] = "running"]
  /\ reply' = [reply EXCEPT ![c] = "none"]
  /\ age' = [age EXCEPT ![c] = 0]
  /\ ran' = [ran EXCEPT ![next[c] - 1] = @ \cup {c}]
  /\ UNCHANGED <<redis, next, robbed>>

\* The answer is null: another holder has it, the tick is skipped.
SkipAndRelease(c) ==
  /\ pc[c] = "acquiring" /\ reply[c] = "nil"
  /\ pc' = [pc EXCEPT ![c] = "idle"]
  /\ del' = [del EXCEPT ![c] = TRUE]
  /\ End(c)
  /\ UNCHANGED <<orphans, strays>>
Skip(c) ==
  /\ pc[c] = "acquiring" /\ reply[c] = "nil"
  /\ pc' = [pc EXCEPT ![c] = "idle"]
  /\ End(c)
  /\ UNCHANGED <<orphans, del, strays>>

\* The command is rejected or the timer wins the race: not acquired, even if
\* the SET has taken effect or will still take effect.
NeverGiveUp(c) == FALSE /\ UNCHANGED vars
GiveUpAndRelease(c) ==
  /\ pc[c] = "acquiring"
  /\ pc' = [pc EXCEPT ![c] = "idle"]
  /\ del' = [del EXCEPT ![c] = TRUE]
  /\ End(c)
  /\ UNCHANGED <<orphans, strays>>
Abandon(c) == orphans' = [orphans EXCEPT ![c] = IF reply[c] = "sent" THEN @ + 1 ELSE @]
GiveUp(c) ==
  /\ pc[c] = "acquiring"
  /\ pc' = [pc EXCEPT ![c] = "idle"]
  /\ Abandon(c) /\ End(c)
  /\ UNCHANGED <<del, strays>>

\* The body returns or throws; either way DEL is sent and not awaited.
Finish(c) ==
  /\ Running(c)
  /\ pc' = [pc EXCEPT ![c] = "idle"]
  /\ IF c \in robbed
     THEN strays' = TRUE /\ del' = del
     ELSE strays' = strays /\ del' = [del EXCEPT ![c] = TRUE]
  /\ End(c)
  /\ UNCHANGED orphans

\* The caller's process dies; what it has sent may still land.
Crash(c) ==
  /\ pc[c] # "down"
  /\ pc' = [pc EXCEPT ![c] = "down"]
  /\ Abandon(c) /\ End(c)
  /\ UNCHANGED <<del, strays>>

Restart(c) ==
  /\ pc[c] = "down"
  /\ pc' = [pc EXCEPT ![c] = "idle"]
  /\ UNCHANGED <<reply, redis, age, next, ran, robbed>>

-----------------------------------------------------------------------------
(* Time.  Tick waits for what must happen before the bounds are passed.    *)

AgeLimit(c) == IF pc[c] = "running" THEN MaxRun ELSE AcquireTimeout

Timed(c) == pc[c] \in {"acquiring", "running"}

\* A DEL still on its way when its key expires has become a stray.
Tick ==
  /\ \A c \in Callers : Timed(c) => age[c] < AgeLimit(c)
  /\ ttl' = Expire(ttl)
  /\ age' = [c \in Callers |-> IF Timed(c) THEN age[c] + 1 ELSE age[c]]
  /\ IF ttl' = 0
     THEN /\ strays' = (strays \/ \E c \in Callers : del[c])
          /\ del' = [c \in Callers |-> FALSE]
     ELSE UNCHANGED <<strays, del>>
  /\ UNCHANGED <<pc, reply, orphans, next, ran, robbed>>

Next ==
  \/ Tick \/ LandStray
  \/ \E c \in Callers :
       \/ Call(c) \/ Start(c) \/ Skip(c) \/ GiveUp(c) \/ Finish(c)
       \/ Crash(c) \/ Restart(c)
       \/ LandSet(c) \/ RepeatSet(c) \/ LandOrphan(c) \/ LandDel(c)
       \/ LoseDel(c) \/ LoseOrphan(c)

Spec == Init /\ [][Next]_vars

\* Time passes; an awaited command is answered, rejected or timed out; a body
\* ends.  Nothing is assumed of Redis answering, nor of a DEL landing.
Fairness ==
  /\ WF_vars(Tick)
  /\ \A c \in Callers : /\ WF_vars(Start(c) \/ Skip(c) \/ GiveUp(c))
                        /\ WF_vars(Finish(c))

FairSpec == Spec /\ Fairness

-----------------------------------------------------------------------------
(* Properties.                                                             *)

\* The callers whose key is there: it was granted to them and nobody has
\* removed it, or their DEL is on its way to it.
Holds(c) == c \in Reliant \ robbed \/ del[c]

\* A key outlives every use made of it: for each of the two stages, what is
\* left of the key's life plus the time already spent since its SET.
LeaseCovers(c) ==
  /\ Granted(c) /\ c \notin robbed => ttl + age[c] >= Ttl
  /\ Running(c) /\ c \notin robbed => ttl + age[c] + AcquireTimeout >= Ttl
  /\ del[c] => ttl > 0

LeaseCoversUse == \A c \in Callers : LeaseCovers(c)

\* One key, one holder: nobody else's key is there, and no caller holds one by
\* its new call while its DEL is on its way to the one before.
OneHolder ==
  /\ \A c, d \in Callers : Holds(c) /\ Holds(d) => c = d
  /\ \A c \in Reliant \ robbed : ~del[c]

\* The inductive invariant: types, the timers within their limits, and the
\* two parts above.
TimersInBounds ==
  \A c \in Callers : /\ Timed(c) => age[c] <= AgeLimit(c)
                     /\ pc[c] # "acquiring" => reply[c] = "none"

LockInv ==
  TypeOK /\ TimersInBounds /\ robbed \subseteq Reliant /\ LeaseCoversUse /\ OneHolder

\* scheduler.ts: "an unguarded run across several instances double-sends
\* customer email".  Two callers are inside the body together only after a
\* DEL whose key was gone has landed and removed the key of one of them:
\* expiry, crashes, late and repeated SETs, and DELs in time bring nobody in.
MutualExclusion ==
  \A c, d \in Callers \ robbed : Running(c) /\ Running(d) => c = d

\* lock.ts: "so with N API instances exactly one runs": the same without the
\* exception.
NeverTogether ==
  \A c, d \in Callers : Running(c) /\ Running(d) => c = d

\* The lock implements the scheduler's abstract mutual exclusion among those
\* that still hold it: being robbed is leaving.
Mutex == INSTANCE TaskMutex WITH runners <- {c \in Callers \ robbed : Running(c)}
RefinesTaskMutex == Mutex!Spec

\* lock.ts: a command queued for an unreachable Redis "would wedge the
\* scheduled task for the life of the process".  No call waits forever.
NeverWedged ==
  \A c \in Callers : pc[c] = "acquiring" ~> pc[c] # "acquiring"

\* lock.ts: "the lock auto-expires after ttlMs (crash safety)".  Whoever set
\* the key, holder, dead process or abandoned call, it goes away.
EveryLeaseEnds == ttl > 0 ~> ttl = 0

\* lock.ts: "with N API instances exactly one runs a given tick".
OneRunPerTick == \A t \in 1..MaxTick : Cardinality(ran[t]) <= 1
=============================================================================
