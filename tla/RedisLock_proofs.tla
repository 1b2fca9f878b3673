-------------------------- MODULE RedisLock_proofs --------------------------
(***************************************************************************)
(* The lock's safety for any set of callers and any bounds that satisfy    *)
(* TtlCoversRun, however late a DEL lands and however often.               *)
(* MutualExclusion alone is not inductive: a caller inside the body that   *)
(* was not robbed is safe only because its key has not expired             *)
(* (LeaseCoversUse) and because no DEL but a stray one is about to remove  *)
(* it (OneHolder).                                                         *)
(***************************************************************************)
EXTENDS RedisLock, TLAPS

\* The initial state has the types.
LEMMA InitTypeOK == Init => TypeOK
<1> SUFFICES ASSUME Init PROVE TypeOK
  OBVIOUS
<1>1. ran \in [1..MaxTick -> SUBSET Callers]
  BY Zenon DEF Init
<1>2. age \in [Callers -> 0..(AcquireTimeout + MaxRun)] /\ ttl \in 0..Ttl
  BY BoundsAreNaturals DEF Init
<1>3. next \in [Callers -> 1..(MaxTick + 1)]
  BY BoundsAreNaturals DEF Init
<1>4. QED BY <1>1, <1>2, <1>3 DEF Init, TypeOK

\* The initial state satisfies the invariant.
LEMMA InitLockInv ==
  ASSUME TtlCoversRun
  PROVE  Init => LockInv
<1> SUFFICES ASSUME Init PROVE LockInv
  OBVIOUS
<1>1. TypeOK
  BY InitTypeOK
<1>2. Reliant = {}
  BY DEF Init, Reliant, Granted, Running
<1>3. TimersInBounds
  BY DEF Init, TimersInBounds, Timed
<1>4. LeaseCoversUse
  BY DEF Init, LeaseCoversUse, LeaseCovers, Granted, Running
<1>5. OneHolder
  BY <1>2 DEF Init, OneHolder, Holds
<1>6. robbed \subseteq Reliant
  BY DEF Init
<1>7. QED BY <1>1, <1>3, <1>4, <1>5, <1>6 DEF LockInv

\* In a state of the invariant, whoever holds the key finds it alive.
LEMMA HeldKeyIsAlive ==
  ASSUME TtlCoversRun, LockInv, NEW c \in Callers, Holds(c)
  PROVE  ttl > 0
BY BoundsAreNaturals
   DEF TtlCoversRun, LockInv, TypeOK, TimersInBounds, LeaseCoversUse,
       LeaseCovers, Holds, Reliant, Granted, Running, Timed, AgeLimit

\* The steps of a caller, and those of Redis on a caller's behalf.
CallerStep(c) ==
  \/ Call(c) \/ Start(c) \/ Skip(c) \/ GiveUp(c) \/ Finish(c)
  \/ Crash(c) \/ Restart(c)
RedisStep(c) ==
  \/ LandSet(c) \/ RepeatSet(c) \/ LandOrphan(c) \/ LandDel(c)
  \/ LoseDel(c) \/ LoseOrphan(c)

\* These and the two others are all there are.
LEMMA NextIsAStep ==
  Next <=> Tick \/ LandStray \/ \E c \in Callers : CallerStep(c) \/ RedisStep(c)
BY DEF Next, CallerStep, RedisStep

\* Every action of a caller or of Redis keeps the types.
LEMMA NextTypeOK ==
  ASSUME TypeOK, TimersInBounds, Next
  PROVE  TypeOK'
<1> USE BoundsAreNaturals DEF TypeOK, redis
<1>1. CASE Tick
  <2>1. age' \in [Callers -> 0..(AcquireTimeout + MaxRun)]
    BY <1>1 DEF Tick, TimersInBounds, Timed, AgeLimit
  <2>2. ttl' \in 0..Ttl
    BY <1>1 DEF Tick, Expire
  <2>3. del' \in [Callers -> BOOLEAN] /\ strays' \in BOOLEAN
    BY <1>1 DEF Tick
  <2>4. QED BY <1>1, <2>1, <2>2, <2>3 DEF Tick
<1>2. CASE LandStray
  <2>1. strays' \in BOOLEAN
    BY <1>2 DEF LandStray
  <2>2. robbed' \subseteq Callers
    BY <1>2 DEF LandStray, Reliant
  <2>3. QED BY <1>2, <2>1, <2>2 DEF LandStray
<1>3. ASSUME NEW c \in Callers, CallerStep(c)
      PROVE  TypeOK'
  <2> USE DEF End, Abandon
  <2>1. CASE Call(c)    BY <2>1 DEF Call
  <2>2. CASE Start(c)
    <3>1. ran' \in [1..MaxTick -> SUBSET Callers]
      <4>1. \A t \in 1..MaxTick : ran'[t] \in SUBSET Callers
        BY <2>2 DEF Start
      <4>2. ran' = [t \in 1..MaxTick |-> ran'[t]]
        BY <2>2 DEF Start
      <4>3. QED BY <4>1, <4>2, Zenon
    <3>2. QED BY <2>2, <3>1 DEF Start
  <2>3. CASE Skip(c)    BY <2>3 DEF Skip
  <2>4. CASE GiveUp(c)  BY <2>4 DEF GiveUp
  <2>5. CASE Finish(c)  BY <2>5 DEF Finish
  <2>6. CASE Crash(c)   BY <2>6 DEF Crash
  <2>7. CASE Restart(c) BY <2>7 DEF Restart
  <2>8. QED BY <1>3, <2>1, <2>2, <2>3, <2>4, <2>5, <2>6, <2>7 DEF CallerStep
<1>4. ASSUME NEW c \in Callers, RedisStep(c)
      PROVE  TypeOK'
  <2>1. CASE LandSet(c)    BY <2>1 DEF LandSet, SetNX, SetNXReply
  <2>2. CASE RepeatSet(c)  BY <2>2 DEF RepeatSet, SetNX
  <2>3. CASE LandOrphan(c)
    <3>1. orphans' \in [Callers -> Nat]
      BY <2>3 DEF LandOrphan
    <3>2. QED BY <2>3, <3>1 DEF LandOrphan, SetNX
  <2>4. CASE LandDel(c)
    <3>1. strays' \in BOOLEAN
      BY <2>4 DEF LandDel
    <3>2. QED BY <2>4, <3>1 DEF LandDel
  <2>5. CASE LoseDel(c)    BY <2>5 DEF LoseDel
  <2>6. CASE LoseOrphan(c) BY <2>6 DEF LoseOrphan
  <2>7. QED BY <1>4, <2>1, <2>2, <2>3, <2>4, <2>5, <2>6 DEF RedisStep
<1>5. QED BY <1>1, <1>2, <1>3, <1>4, NextIsAStep

\* Nothing is left in flight on behalf of a caller that is not waiting, and
\* no timer passes its limit.
LEMMA NextTimersInBounds ==
  ASSUME TypeOK, TimersInBounds, Next
  PROVE  TimersInBounds'
<1> USE BoundsAreNaturals DEF TypeOK, TimersInBounds, Timed, AgeLimit
<1>1. CASE Tick
  BY <1>1 DEF Tick
<1>2. CASE LandStray
  BY <1>2 DEF LandStray
<1>3. ASSUME NEW c \in Callers, CallerStep(c)
      PROVE  TimersInBounds'
  <2> USE DEF End, Granted, Running
  <2>1. CASE Call(c)
    BY <2>1 DEF Call
  <2>2. CASE Start(c)
    <3>1. /\ pc' = [pc EXCEPT ![c] = "running"]
          /\ reply' = [reply EXCEPT ![c] = "none"]
          /\ age' = [age EXCEPT ![c] = 0]
      BY <2>2 DEF Start
    <3>2. QED BY <3>1
  <2>3. CASE Skip(c) \/ GiveUp(c)
    BY <2>3 DEF Skip, GiveUp
  <2>4. CASE Finish(c) \/ Crash(c) \/ Restart(c)
    BY <2>4 DEF Finish, Crash, Restart
  <2>5. QED BY <1>3, <2>1, <2>2, <2>3, <2>4 DEF CallerStep
<1>4. ASSUME NEW c \in Callers, RedisStep(c)
      PROVE  TimersInBounds'
  BY <1>4 DEF RedisStep, LandSet, RepeatSet, LandOrphan, LandDel, LoseDel, LoseOrphan,
              SetNXReply
<1>5. QED BY <1>1, <1>2, <1>3, <1>4, NextIsAStep

\* Who is robbed relies on the key, until its call is over.
LEMMA NextRobbed ==
  ASSUME TypeOK, robbed \subseteq Reliant, Next
  PROVE  robbed' \subseteq Reliant'
<1> USE DEF TypeOK, Reliant, Granted, Running
<1>1. CASE Tick
  BY <1>1 DEF Tick
<1>2. CASE LandStray
  BY <1>2 DEF LandStray
<1>3. ASSUME NEW c \in Callers, CallerStep(c)
      PROVE  robbed' \subseteq Reliant'
  BY <1>3 DEF CallerStep, Call, Start, Skip, GiveUp, Finish, Crash, Restart, End
<1>4. ASSUME NEW c \in Callers, RedisStep(c)
      PROVE  robbed' \subseteq Reliant'
  BY <1>4 DEF RedisStep, LandSet, RepeatSet, LandOrphan, LandDel, LoseDel, LoseOrphan
<1>5. QED BY <1>1, <1>2, <1>3, <1>4, NextIsAStep

\* The key outlives its use: time eats the lease and the timers alike, a SET on
\* a live key changes nothing, a DEL in time finds only its sender's key, and
\* whoever a stray DEL finds is robbed.
LEMMA NextLeaseCoversUse ==
  ASSUME TtlCoversRun, LockInv, Next
  PROVE  LeaseCoversUse'
<1> SUFFICES ASSUME NEW d \in Callers
             PROVE  LeaseCovers(d)'
  BY DEF LeaseCoversUse
<1> USE BoundsAreNaturals DEF LeaseCovers, Granted, Running, redis
<1>1. /\ LeaseCovers(d) /\ ttl \in Nat /\ ttl <= Ttl
      /\ age[d] \in Nat
      /\ pc \in [Callers -> {"idle", "acquiring", "running", "down"}]
      /\ reply \in [Callers -> {"none", "sent", "OK", "nil"}]
      /\ age \in [Callers -> Nat] /\ del \in [Callers -> BOOLEAN]
  BY DEF LockInv, LeaseCoversUse, TypeOK
<1>2. Running(d) => age[d] <= MaxRun
  BY DEF LockInv, TimersInBounds, Timed, AgeLimit
<1>3. Granted(d) => age[d] <= AcquireTimeout
  BY DEF LockInv, TimersInBounds, Timed, AgeLimit
<1>4. CASE Tick
  <2>1. ttl' \in Nat /\ ttl' >= ttl - 1 /\ UNCHANGED <<pc, reply, robbed>>
    BY <1>1, <1>4 DEF Tick, Expire
  <2>2. Granted(d) \/ Running(d) => age'[d] = age[d] + 1
    BY <1>4 DEF Tick, Timed
  <2>3. del'[d] => ttl' > 0
    BY <1>4, <2>1 DEF Tick
  <2>4. QED BY <1>1, <2>1, <2>2, <2>3
<1>5. CASE LandStray
  <2>1. d \in Reliant => d \in robbed'
    BY <1>5 DEF LandStray
  <2>2. UNCHANGED <<pc, reply>> /\ del'[d] = FALSE
    BY <1>5 DEF LandStray
  <2>3. QED BY <2>1, <2>2 DEF Reliant
<1>6. ASSUME NEW c \in Callers, Start(c)
      PROVE  LeaseCovers(d)'
  BY <1>1, <1>3, <1>6 DEF Start
<1>7. ASSUME NEW c \in Callers, Finish(c)
      PROVE  LeaseCovers(d)'
  <2>1. c \notin robbed => ttl > 0
    BY <1>7, HeldKeyIsAlive DEF Holds, Reliant, Finish
  <2>2. QED BY <1>1, <1>7, <2>1 DEF Finish, End
<1>8. ASSUME NEW c \in Callers,
             Call(c) \/ Skip(c) \/ GiveUp(c) \/ Crash(c) \/ Restart(c)
      PROVE  LeaseCovers(d)'
  <2> USE DEF End
  <2>1. CASE Call(c)   BY <1>1, <2>1 DEF Call
  <2>2. CASE Skip(c)   BY <1>1, <2>2 DEF Skip
  <2>3. CASE GiveUp(c) BY <1>1, <2>3 DEF GiveUp
  <2>4. CASE Crash(c)  BY <1>1, <2>4 DEF Crash
  <2>5. CASE Restart(c) BY <1>1, <2>5 DEF Restart
  <2>6. QED BY <1>8, <2>1, <2>2, <2>3, <2>4, <2>5
<1>9. ASSUME NEW c \in Callers, LandSet(c) \/ RepeatSet(c) \/ LandOrphan(c)
      PROVE  LeaseCovers(d)'
  <2>1. ttl' \in Nat /\ ttl' >= ttl
    BY <1>1, <1>9 DEF LandSet, RepeatSet, LandOrphan, SetNX
  <2>2. Granted(d)' => Granted(d) \/ ttl' = Ttl
    BY <1>1, <1>9 DEF LandSet, RepeatSet, LandOrphan, SetNX, SetNXReply
  <2>3. UNCHANGED <<pc, del, age, robbed>>
    BY <1>9 DEF LandSet, RepeatSet, LandOrphan
  <2>4. QED BY <1>1, <2>1, <2>2, <2>3
<1>10. ASSUME NEW c \in Callers, LandDel(c)
       PROVE  LeaseCovers(d)'
  <2>1. Holds(d) => d = c
    BY <1>10 DEF LockInv, OneHolder, Holds, LandDel
  <2>2. c \notin Reliant \ robbed
    BY <1>10 DEF LockInv, OneHolder, LandDel
  <2>3. UNCHANGED <<pc, reply, robbed>> /\ del' = [del EXCEPT ![c] = FALSE]
    BY <1>10 DEF LandDel
  <2>4. QED BY <1>1, <2>1, <2>2, <2>3 DEF Holds, Reliant
<1>11. ASSUME NEW c \in Callers, LoseDel(c) \/ LoseOrphan(c)
       PROVE  LeaseCovers(d)'
  BY <1>1, <1>11 DEF LoseDel, LoseOrphan
<1>12. QED
  BY <1>4, <1>5, <1>6, <1>7, <1>8, <1>9, <1>10, <1>11 DEF Next

\* Only a SET that finds no key makes a new holder, and while there is a holder
\* there is a key.
LEMMA NextOneHolder ==
  ASSUME TtlCoversRun, LockInv, Next
  PROVE  OneHolder'
<1> USE BoundsAreNaturals DEF OneHolder, Holds, Reliant, Granted, Running, redis
<1>1. CASE Tick
  BY <1>1 DEF LockInv, Tick
<1>2. CASE LandStray
  BY <1>2 DEF LockInv, LandStray
<1>3. ASSUME NEW c \in Callers, CallerStep(c)
      PROVE  OneHolder'
  <2> USE DEF End
  <2>1. CASE Start(c)
    BY <2>1 DEF LockInv, TypeOK, Start
  <2>2. CASE Finish(c)
    BY <2>2 DEF LockInv, TypeOK, Finish
  <2>3. CASE Call(c)
    BY <2>3 DEF LockInv, TypeOK, Call
  <2>4. CASE Skip(c)    BY <2>4 DEF LockInv, TypeOK, Skip
  <2>5. CASE GiveUp(c)  BY <2>5 DEF LockInv, TypeOK, GiveUp
  <2>6. CASE Crash(c)   BY <2>6 DEF LockInv, TypeOK, Crash
  <2>7. CASE Restart(c) BY <2>7 DEF LockInv, TypeOK, Restart
  <2>8. QED BY <1>3, <2>1, <2>2, <2>3, <2>4, <2>5, <2>6, <2>7 DEF CallerStep
<1>4. ASSUME NEW c \in Callers, LandSet(c)
      PROVE  OneHolder'
  <2>1. CASE ttl = 0
    <3>1. \A d \in Callers : ~Holds(d)
      BY <2>1, HeldKeyIsAlive DEF LockInv, TypeOK
    <3>2. QED BY <1>4, <3>1 DEF LockInv, TypeOK, LandSet
  <2>2. CASE ttl # 0
    BY <1>4, <2>2 DEF LockInv, TypeOK, LandSet, SetNXReply
  <2>3. QED BY <2>1, <2>2
<1>5. ASSUME NEW c \in Callers,
             RepeatSet(c) \/ LandOrphan(c) \/ LandDel(c) \/ LoseDel(c) \/ LoseOrphan(c)
      PROVE  OneHolder'
  BY <1>5 DEF LockInv, TypeOK, RepeatSet, LandOrphan, LandDel, LoseDel, LoseOrphan
<1>6. QED BY <1>1, <1>2, <1>3, <1>4, <1>5, NextIsAStep DEF RedisStep

\* The inductive invariant holds in every reachable state, however late and
\* however often DELs land.
THEOREM LockInvariant ==
  ASSUME TtlCoversRun
  PROVE  Spec => []LockInv
<1>1. Init => LockInv
  BY InitLockInv
<1>2. LockInv /\ [Next]_vars => LockInv'
  <2>1. ASSUME LockInv, Next
        PROVE  LockInv'
    BY <2>1, NextTypeOK, NextTimersInBounds, NextRobbed, NextLeaseCoversUse,
       NextOneHolder DEF LockInv
  <2>2. ASSUME LockInv, UNCHANGED vars
        PROVE  LockInv'
    BY <2>2 DEF vars, redis, LockInv, TypeOK, TimersInBounds, LeaseCoversUse, LeaseCovers,
                OneHolder, Holds, Reliant, Granted, Running, Timed, AgeLimit
  <2>3. QED BY <2>1, <2>2
<1>3. QED BY <1>1, <1>2, PTL DEF Spec

\* Type correctness, and every timer within its limit, for every set of
\* callers and all bounds: this much does not depend on TtlCoversRun.
THEOREM LockTypeOK == Spec => [](TypeOK /\ TimersInBounds)
<1>1. Init => TypeOK /\ TimersInBounds
  BY InitTypeOK DEF Init, TimersInBounds, Timed
<1>2. TypeOK /\ TimersInBounds /\ [Next]_vars => (TypeOK /\ TimersInBounds)'
  <2>1. ASSUME TypeOK, TimersInBounds, Next
        PROVE  (TypeOK /\ TimersInBounds)'
    BY <2>1, NextTypeOK, NextTimersInBounds
  <2>2. ASSUME TypeOK, TimersInBounds, UNCHANGED vars
        PROVE  (TypeOK /\ TimersInBounds)'
    BY <2>2 DEF vars, redis, TypeOK, TimersInBounds, Timed, AgeLimit
  <2>3. QED BY <2>1, <2>2
<1>3. QED BY <1>1, <1>2, PTL DEF Spec

\* At most one invocation of the task is inside its body with its key in
\* place, whatever expires, crashes, lands late, twice or never: two are there
\* together only after a stray DEL, one whose own key had gone, has removed a
\* key under one of them.  ttlMs must cover the acquire timeout and the
\* longest run.
THEOREM LockMutualExclusion ==
  ASSUME TtlCoversRun
  PROVE  Spec => []MutualExclusion
<1>1. LockInv => MutualExclusion
  BY DEF LockInv, OneHolder, MutualExclusion, Holds, Reliant
<1>2. QED BY <1>1, LockInvariant, PTL

\* The lock implements the abstract mutual exclusion among the invocations
\* whose key is in place; a robbed one leaves it.
THEOREM LockRefinesTaskMutex ==
  ASSUME TtlCoversRun
  PROVE  Spec => RefinesTaskMutex
<1> DEFINE In == {c \in Callers \ robbed : Running(c)}
<1>1. Init => Mutex!Init
  BY DEF Init, Mutex!Init, Running
<1>2. LockInv /\ [Next]_vars => [Mutex!Next]_In
  <2>1. ASSUME LockInv, NEW c \in Callers, Start(c), c \notin robbed
        PROVE  Mutex!Enter(c)
    <3>1. In = {}
      BY <2>1 DEF LockInv, OneHolder, Holds, Reliant, Granted, Running, Start
    <3>2. In' = {c}
      BY <2>1, <3>1 DEF LockInv, TypeOK, Running, Start
    <3>3. QED BY <3>1, <3>2 DEF Mutex!Enter
  <2>2. ASSUME LockInv, NEW c \in In, Finish(c) \/ Crash(c)
        PROVE  Mutex!Leave(c)
    <3>1. In' = In \ {c}
      BY <2>2 DEF LockInv, TypeOK, Running, Finish, Crash, End
    <3>2. QED BY <3>1 DEF Mutex!Leave
  <2>3. ASSUME LockInv, LandStray, NEW c \in In
        PROVE  Mutex!Leave(c)
    <3>1. In' = {}
      BY <2>3 DEF LandStray, Reliant, Running
    <3>2. In = {c}
      BY <2>3 DEF LockInv, OneHolder, Holds, Reliant
    <3>3. QED BY <3>1, <3>2 DEF Mutex!Leave
  <2>4. ASSUME LockInv, LandStray, In = {}
        PROVE  In' = In
    BY <2>4 DEF LandStray, Running
  <2>5. ASSUME LockInv, NEW c \in Callers,
               \/ Call(c) \/ Skip(c) \/ GiveUp(c) \/ Restart(c) \/ RedisStep(c)
               \/ Start(c) /\ c \in robbed
               \/ (Finish(c) \/ Crash(c)) /\ c \notin In
        PROVE  In' = In
    <3> USE DEF LockInv, TypeOK, Reliant, Granted, Running, End
    <3>1. CASE Call(c) \/ Skip(c) \/ GiveUp(c) \/ Restart(c)
      BY <2>5, <3>1 DEF Call, Skip, GiveUp, Restart
    <3>2. CASE RedisStep(c)
      BY <2>5, <3>2 DEF RedisStep, LandSet, RepeatSet, LandOrphan, LandDel, LoseDel, LoseOrphan
    <3>3. CASE Start(c) /\ c \in robbed
      BY <2>5, <3>3 DEF Start
    <3>4. CASE (Finish(c) \/ Crash(c)) /\ c \notin In
      BY <2>5, <3>4 DEF Finish, Crash
    <3>5. QED BY <2>5, <3>1, <3>2, <3>3, <3>4
  <2>6. ASSUME Tick \/ UNCHANGED vars
        PROVE  In' = In
    BY <2>6 DEF Running, Tick, vars
  <2>7. QED
    BY <2>1, <2>2, <2>3, <2>4, <2>5, <2>6, NextIsAStep DEF CallerStep, Mutex!Next
<1>3. QED
  BY <1>1, <1>2, LockInvariant, PTL DEF Spec, RefinesTaskMutex, Mutex!Spec
=============================================================================
