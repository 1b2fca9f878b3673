--------------------------- MODULE MCRedisLock ---------------------------
(* RedisLock for TLC: two callers of one task, one or two cron ticks, and   *)
(* the smallest ttl that satisfies TtlCoversRun.  The callers are alike;   *)
(* only a run without liveness properties uses their symmetry.             *)
EXTENDS RedisLock, TLC

Symmetry == Permutations(Callers)
=============================================================================
