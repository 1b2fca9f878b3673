----------------------------- MODULE TaskMutex -----------------------------
(***************************************************************************)
(* What the scheduler promises about one of its tasks (scheduler.ts): at   *)
(* any moment at most one invocation of the task is executing its body,    *)
(* in whichever API process it was fired.  RedisLock implements this; the  *)
(* modules of the tasks themselves (the webhook sweep, the stuck-job       *)
(* sweep, the intelligence tick) assume no more of the lock than this.     *)
(* An invocation is inside while it executes the body with its lock in     *)
(* place: one whose lock is taken from it has left.                        *)
(***************************************************************************)
CONSTANT Callers        \* the invocations of the task, in every process

VARIABLE runners        \* the invocations inside the task's body, holding the lock

Init == runners = {}

\* An invocation starts the body only when no other one is inside it.
Enter(c) == runners = {} /\ runners' = {c}

\* The body returns, throws or dies with its process, or the lock is lost.
Leave(c) == c \in runners /\ runners' = runners \ {c}

Next == \E c \in Callers : Enter(c) \/ Leave(c)

Spec == Init /\ [][Next]_runners
=============================================================================
