--------------------------- MODULE Structures_MC ---------------------------
(***************************************************************************)
(* The small structures that requests share (token bucket, usage window,   *)
(* concurrent limiter, sticky cache, round-robin counter) on small         *)
(* instances.  They have no state in common but the clock, so a behaviour  *)
(* exercises one of them, its subject, and leaves the others as they were  *)
(* created: what holds of each alone holds of all of them together.        *)
(***************************************************************************)
EXTENDS TokenBucket, SlidingWindow, ConcurrentLimiter, StickyCache, RoundRobin

CONSTANTS t1, t2, t3
MCWeight == [p \in Pool |-> IF p = t1 THEN 2 ELSE IF p = t2 THEN 1 ELSE 0]

VARIABLE subject

bucketState == <<tokens, lastRefill, granted, resets, promise>>
windowState == <<buckets, head, added>>
cacheState == <<entries, touching, cleaner, sets>>

Init ==
    /\ subject \in {"bucket", "window", "limiter", "cache", "roundRobin"}
    /\ BucketInit /\ WindowInit /\ LimiterInit /\ CacheInit /\ RoundRobinInit

Next ==
    \/ /\ subject = "bucket" /\ BucketNext
       /\ UNCHANGED <<subject, windowState, limiterVars, cacheState, roundRobinVars>>
    \/ /\ subject = "window" /\ WindowNext
       /\ UNCHANGED <<subject, bucketState, limiterVars, cacheState, roundRobinVars>>
    \/ /\ subject = "limiter" /\ LimiterNext
       /\ UNCHANGED <<subject, now, bucketState, windowState, cacheState, roundRobinVars>>
    \/ /\ subject = "cache" /\ CacheNext
       /\ UNCHANGED <<subject, bucketState, windowState, limiterVars, roundRobinVars>>
    \/ /\ subject = "roundRobin" /\ RoundRobinNext
       /\ UNCHANGED <<subject, now, bucketState, windowState, limiterVars, cacheState>>

vars == <<subject, now, bucketState, windowState, limiterVars, cacheState, roundRobinVars>>

Spec == Init /\ [][Next]_vars
=============================================================================
