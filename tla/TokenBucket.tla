----------------------------- MODULE TokenBucket -----------------------------
(***************************************************************************)
(* One token bucket, pkg/limits/ratelimit/token_bucket.go, shared by the   *)
(* requests of one API key.  Every method takes the bucket's mutex and     *)
(* reads the clock inside it, so a method is one step.                     *)
(*                                                                         *)
(* refillRate is RateNum tokens per RateDen clock ticks; a tick stands for *)
(* the resolution of time.Duration.  The int64 conversions of the code     *)
(* truncate, as \div does here; float64 rounding is not modelled.          *)
(***************************************************************************)
EXTENDS Integers, Clock

CONSTANTS
    Capacity,   \* burst size; 0 is possible (NewLimiter: RequestsPerHour / 12)
    RateNum,    \* tokens ...
    RateDen,    \* ... per so many ticks
    Sizes,      \* the n that callers ask for
    BucketHorizon,  \* bound on the clock
    MaxResets   \* bound on calls of Reset

ASSUME BucketAssumption ==
    /\ Capacity \in Nat
    /\ RateNum \in Nat \ {0}
    /\ RateDen \in Nat \ {0}
    /\ Sizes \subseteq Nat \ {0}
    /\ BucketHorizon \in Nat
    /\ MaxResets \in Nat

VARIABLES
    tokens,       \* tb.tokens
    lastRefill,   \* tb.lastRefill
    granted,      \* history: tokens handed out since the start
    resets,       \* history: calls of Reset
    promise       \* history: the outstanding answer of TimeUntilAvailable

bucketVars == <<now, tokens, lastRefill, granted, resets, promise>>

NoPromise == [n |-> 0, at |-> 0]

(* Tokens and times keep their types; the bucket never exceeds its capacity. *)
BucketTypeOK ==
    /\ now \in Nat
    /\ tokens \in 0..Capacity
    /\ lastRefill \in 0..now
    /\ granted \in Nat
    /\ resets \in Nat
    /\ promise \in [n : Nat, at : Nat]

BucketInit ==
    /\ now = 0
    /\ tokens = Capacity
    /\ lastRefill = 0
    /\ granted = 0
    /\ resets = 0
    /\ promise = NoPromise

-----------------------------------------------------------------------------
(* Faulty variants *)

RefillTimeKept == lastRefill

RefillTimeAlways == now

-----------------------------------------------------------------------------
(* refillLocked: what the fields hold after it. *)
TokensToAdd == ((now - lastRefill) * RateNum) \div RateDen

Refilled ==
    IF tokens + TokensToAdd > Capacity THEN Capacity ELSE tokens + TokensToAdd

RefillTime == IF TokensToAdd > 0 THEN now ELSE lastRefill

(* TimeUntilAvailable(n), in ticks, when n tokens are not there. *)
Wait(n) == ((n - Refilled) * RateDen) \div RateNum

(* Take(n) *)
Take(n) ==
    /\ lastRefill' = RefillTime
    /\ IF Refilled >= n
       THEN /\ tokens' = Refilled - n
            /\ granted' = granted + n
            /\ promise' = NoPromise
       ELSE /\ tokens' = Refilled
            /\ UNCHANGED <<granted, promise>>
    /\ UNCHANGED <<now, resets>>

(* TimeUntilAvailable(n), which CheckRequest calls after a failed Take to  *)
(* fill RetryAfter; it refills like every other method.                    *)
TimeUntilAvailable(n) ==
    /\ tokens' = Refilled
    /\ lastRefill' = RefillTime
    /\ promise' = IF Refilled >= n THEN NoPromise
                                   ELSE [n |-> n, at |-> now + Wait(n)]
    /\ UNCHANGED <<now, granted, resets>>

(* Remaining, in spite of its comment, refills as well. *)
Remaining ==
    /\ tokens' = Refilled
    /\ lastRefill' = RefillTime
    /\ UNCHANGED <<now, granted, resets, promise>>

BucketReset ==
    /\ resets < MaxResets
    /\ tokens' = Capacity
    /\ lastRefill' = now
    /\ resets' = resets + 1
    /\ promise' = NoPromise
    /\ UNCHANGED <<now, granted>>

BucketTick ==
    /\ now < BucketHorizon
    /\ now' = now + 1
    /\ UNCHANGED <<tokens, lastRefill, granted, resets, promise>>

BucketNext ==
    \/ \E n \in Sizes : Take(n)
    \/ \E n \in Sizes : TimeUntilAvailable(n)
    \/ Remaining
    \/ BucketReset
    \/ BucketTick

BucketSpec == BucketInit /\ [][BucketNext]_bucketVars

-----------------------------------------------------------------------------
(* Properties *)

(* However Take, Remaining, TimeUntilAvailable and Reset interleave, the   *)
(* tokens handed out never exceed the bursts (one, and one for each Reset) *)
(* plus the refill rate times the time passed.                             *)
RateBound ==
    granted * RateDen <= (1 + resets) * Capacity * RateDen + now * RateNum

(* Waiting for RetryAfter and one tick more is enough for one token, as    *)
(* long as nobody else takes it: polling the bucket in the meantime must   *)
(* not push lastRefill forward without adding a token.                     *)
RetryWithinATick ==
    promise.n = 1 /\ Capacity >= 1 /\ now > promise.at => Refilled >= 1
=============================================================================
