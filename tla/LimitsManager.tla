---------------------------- MODULE LimitsManager ----------------------------
(***************************************************************************)
(* The limits manager (pkg/limits/manager.go) as the limits middleware     *)
(* (pkg/proxy/middleware/limits.go) drives it, for the requests of one     *)
(* identifier: CheckLimits, AcquireConcurrent, the handler, RecordUsage    *)
(* and ReleaseConcurrent.                                                  *)
(*                                                                         *)
(* CheckLimits holds the manager's read lock while it goes through the     *)
(* three request buckets, the token window and the budget tracker, each    *)
(* behind a mutex of its own; RecordUsage needs the write lock.  As in     *)
(* Go's RWMutex, a waiting writer keeps new readers out.                   *)
(*                                                                         *)
(* TokenBucket and SlidingWindow model the counters exactly.  Here time is *)
(* abstracted: a bucket regains tokens and a window forgets usage at       *)
(* arbitrary moments.  persistState writes a state without rate limits and *)
(* budget that nothing ever loads: it is left out, and a restart of the    *)
(* process is Init again.                                                  *)
(***************************************************************************)
EXTENDS Integers, FiniteSets

CONSTANTS
    Requests,        \* goroutines of the HTTP server
    Actions,         \* the values of enforcementConfig.DefaultAction to consider
    HasDowngrade,    \* ModelDowngrades has an entry for the model
    BucketCap,       \* bucket -> capacity, or Unlimited
    TokenLimit,      \* token window -> limit, or Unlimited
    Tokens,          \* tokens a request is estimated to use, and uses
    Budget,          \* window -> limit in USD
    AlertAt,         \* window -> usage at which the alert fires, or Unlimited
    MaxCost,         \* the most a request costs
    MaxConcurrent,   \* limit of the concurrent limiter
    MaxUsed,         \* bound on recorded usage
    Unlimited        \* limit not configured

Buckets == {"second", "minute", "hour"}
TokenWindows == {"perMinute", "perHour"}
Windows == {"hourly", "daily", "monthly"}

ASSUME ManagerAssumption ==
    /\ IsFiniteSet(Requests)
    /\ Actions \subseteq {"allow", "block", "queue", "downgrade", "alert"}
    /\ HasDowngrade \in BOOLEAN
    /\ Unlimited \notin Nat
    /\ BucketCap \in [Buckets -> Nat \cup {Unlimited}]
    /\ TokenLimit \in [TokenWindows -> Nat \cup {Unlimited}]
    /\ Tokens \in Nat
    /\ Budget \in [Windows -> Nat \cup {Unlimited}]
    /\ AlertAt \in [Windows -> Nat \cup {Unlimited}]
    /\ MaxCost \in Nat /\ MaxConcurrent \in Nat \ {0}
    /\ MaxUsed \in Nat

VARIABLES
    action,       \* enforcementConfig.DefaultAction, never changed
    pc,           \* where each request is
    bucket,       \* tokens left in each request bucket
    tokensUsed,   \* token window -> its sum
    used,         \* window -> spending in it
    current       \* counter of the concurrent limiter

vars == <<action, pc, bucket, tokensUsed, used, current>>

States == {"idle", "second", "minute", "hour", "tokens", "budget",
           "admitted", "undo", "handler", "record", "release"}

(* Usage, slots and the program counters keep their types. *)
TypeOK ==
    /\ action \in Actions
    /\ pc \in [Requests -> States]
    /\ bucket \in [Buckets -> Nat \cup {Unlimited}]
    /\ tokensUsed \in [TokenWindows -> Nat]
    /\ used \in [Windows -> Nat]
    /\ current \in Int

(* NewManager, at every start of the process: it never reads storage. *)
Init ==
    /\ action \in Actions
    /\ pc = [r \in Requests |-> "idle"]
    /\ bucket = BucketCap
    /\ tokensUsed = [w \in TokenWindows |-> 0]
    /\ used = [w \in Windows |-> 0]
    /\ current = 0

-----------------------------------------------------------------------------
(* Faulty variants *)

(* a rejected request tries again at once instead of answering 429 *)
UndoRetries(r) ==
    /\ pc[r] = "undo"
    /\ current' = current - 1
    /\ pc' = [pc EXCEPT ![r] = "admitted"]
    /\ UNCHANGED <<bucket, tokensUsed, used, action>>

(* the budget is looked at before the rate limits and not again *)
CheckBudgetSkipped(r) ==
    /\ pc[r] = "budget"
    /\ pc' = [pc EXCEPT ![r] = "admitted"]
    /\ UNCHANGED <<bucket, tokensUsed, used, current, action>>

(* ReleaseConcurrent also for requests that were turned away *)
UndoTwice(r) ==
    /\ pc[r] = "undo"
    /\ current' = current - 1
    /\ pc' = [pc EXCEPT ![r] = "release"]
    /\ UNCHANGED <<bucket, tokensUsed, used, action>>

-----------------------------------------------------------------------------
(* The manager's RWMutex.  Requests inside a step of CheckLimits, or       *)
(* between the two halves of Acquire, hold the read lock.                  *)
Reading(r) == pc[r] \in {"second", "minute", "hour", "tokens", "budget", "undo"}
CanRLock == \A q \in Requests : pc[q] # "record"
CanLock(r) == \A q \in Requests : ~Reading(q)

(* Enforce: does the configured action let a violating request through? *)
EnforceAllows ==
    \/ action \in {"allow", "alert"}
    \/ action = "downgrade" /\ HasDowngrade

AfterViolation == IF EnforceAllows THEN "admitted" ELSE "idle"

(* CheckLimits takes the read lock. *)
Begin(r) ==
    /\ pc[r] = "idle"
    /\ CanRLock
    /\ pc' = [pc EXCEPT ![r] = "second"]
    /\ UNCHANGED <<bucket, tokensUsed, used, current, action>>

(* CheckRequest: the buckets in turn.  A token taken from an earlier       *)
(* bucket is not given back when a later bucket rejects.                   *)
TakeToken(r, b, next) ==
    /\ pc[r] = b
    /\ \/ /\ bucket[b] = Unlimited
          /\ pc' = [pc EXCEPT ![r] = next]
          /\ UNCHANGED bucket
       \/ /\ bucket[b] # Unlimited
          /\ bucket[b] > 0
          /\ pc' = [pc EXCEPT ![r] = next]
          /\ bucket' = [bucket EXCEPT ![b] = @ - 1]
       \/ /\ bucket[b] = 0
          /\ pc' = [pc EXCEPT ![r] = AfterViolation]
          /\ UNCHANGED bucket
    /\ UNCHANGED <<tokensUsed, used, current, action>>

CheckRequest(r) ==
    \/ TakeToken(r, "second", "minute")
    \/ TakeToken(r, "minute", "hour")
    \/ TakeToken(r, "hour", "tokens")

(* CheckTokens compares and takes nothing. *)
TokensExceeded ==
    \E w \in TokenWindows :
       TokenLimit[w] # Unlimited /\ tokensUsed[w] + Tokens > TokenLimit[w]

CheckTokens(r) ==
    /\ pc[r] = "tokens"
    /\ pc' = [pc EXCEPT ![r] = IF TokensExceeded THEN AfterViolation ELSE "budget"]
    /\ UNCHANGED <<bucket, tokensUsed, used, current, action>>

(* Tracker.Check looks at one window after the other and returns at the    *)
(* first that is exceeded or that has reached its alert threshold.         *)
Exceeded(w) == Budget[w] # Unlimited /\ used[w] > Budget[w]
Alerting(w) == Budget[w] # Unlimited /\ AlertAt[w] # Unlimited /\ used[w] >= AlertAt[w]

Shorter == [hourly |-> {}, daily |-> {"hourly"}, monthly |-> {"hourly", "daily"}]

BudgetAllows ==
    ~ \E w \in Windows : /\ Exceeded(w)
                         /\ \A v \in Shorter[w] : ~Exceeded(v) /\ ~Alerting(v)

CheckBudget(r) ==
    /\ pc[r] = "budget"
    /\ pc' = [pc EXCEPT ![r] = IF BudgetAllows THEN "admitted" ELSE AfterViolation]
    /\ UNCHANGED <<bucket, tokensUsed, used, current, action>>

(* AcquireConcurrent: the add of ConcurrentLimiter.Acquire ... *)
Acquire(r) ==
    /\ pc[r] = "admitted"
    /\ CanRLock
    /\ current' = current + 1
    /\ pc' = [pc EXCEPT ![r] = IF current + 1 > MaxConcurrent THEN "undo" ELSE "handler"]
    /\ UNCHANGED <<bucket, tokensUsed, used, action>>

(* ... and its second half when the limit was exceeded: 429. *)
Undo(r) ==
    /\ pc[r] = "undo"
    /\ current' = current - 1
    /\ pc' = [pc EXCEPT ![r] = "idle"]
    /\ UNCHANGED <<bucket, tokensUsed, used, action>>

(* The handler is done.  The package comment asks for RecordUsage after    *)
(* the request; the middleware leaves it to the handler, which records     *)
(* only when the request succeeded, if at all.                             *)
Finish(r) ==
    /\ pc[r] = "handler"
    /\ \/ pc' = [pc EXCEPT ![r] = "release"]
       \/ pc' = [pc EXCEPT ![r] = "record"]
    /\ UNCHANGED <<bucket, tokensUsed, used, current, action>>

(* RecordTokens, up to the bound: a window without a limit is not kept. *)
RecordTokens ==
    [w \in TokenWindows |->
        IF TokenLimit[w] # Unlimited /\ tokensUsed[w] + Tokens <= MaxUsed
        THEN tokensUsed[w] + Tokens ELSE tokensUsed[w]]

(* RecordUsage: one critical section under the write lock.  MaxUsed bounds *)
(* the counters.                                                           *)
RecordUsage(r) ==
    /\ pc[r] = "record"
    /\ CanLock(r)
    /\ \E cost \in 0..MaxCost :
          /\ used["monthly"] + cost <= MaxUsed
          /\ used' = [w \in Windows |-> used[w] + cost]
    /\ tokensUsed' = RecordTokens
    /\ pc' = [pc EXCEPT ![r] = "release"]
    /\ UNCHANGED <<bucket, current, action>>

(* The deferred ReleaseConcurrent. *)
Release(r) ==
    /\ pc[r] = "release"
    /\ CanRLock
    /\ current' = current - 1
    /\ pc' = [pc EXCEPT ![r] = "idle"]
    /\ UNCHANGED <<bucket, tokensUsed, used, action>>

-----------------------------------------------------------------------------
(* Time *)

(* Some bucket regains a token. *)
BucketRefill(b) ==
    /\ bucket[b] # Unlimited
    /\ bucket[b] < BucketCap[b]
    /\ bucket' = [bucket EXCEPT ![b] = @ + 1]
    /\ UNCHANGED <<pc, tokensUsed, used, current, action>>

(* A token window moves on; the hour still covers the last minute. *)
TokensExpire(w) ==
    LET kept == IF w = "perHour" /\ TokenLimit["perMinute"] # Unlimited
                THEN tokensUsed["perMinute"] ELSE 0
    IN  /\ tokensUsed[w] > kept
        /\ tokensUsed' = [tokensUsed EXCEPT ![w] = kept]
        /\ UNCHANGED <<pc, bucket, used, current, action>>

(* A budget window moves on; what the shorter window still covers stays. *)
SpendingExpires(w) ==
    LET kept == CASE w = "hourly" -> 0
                  [] w = "daily" -> used["hourly"]
                  [] w = "monthly" -> used["daily"]
    IN  /\ used[w] > kept
        /\ used' = [used EXCEPT ![w] = kept]
        /\ UNCHANGED <<pc, bucket, tokensUsed, current, action>>

Step(r) ==
    \/ Begin(r) \/ CheckRequest(r) \/ CheckTokens(r) \/ CheckBudget(r)
    \/ Acquire(r) \/ Undo(r) \/ Finish(r) \/ RecordUsage(r) \/ Release(r)

Next ==
    \/ \E r \in Requests : Step(r)
    \/ \E b \in Buckets : BucketRefill(b)
    \/ \E w \in TokenWindows : TokensExpire(w)
    \/ \E w \in Windows : SpendingExpires(w)

Spec == Init /\ [][Next]_vars

(* Handlers return, unlocked goroutines run, and a reader that waits for   *)
(* the lock gets it when a writer leaves (RWMutex hands over to waiting    *)
(* readers): strong fairness for the steps that take the read lock.        *)
Fairness ==
    \A r \in Requests :
       /\ WF_vars(CheckRequest(r) \/ CheckTokens(r) \/ CheckBudget(r))
       /\ WF_vars(Undo(r))
       /\ WF_vars(Finish(r))
       /\ WF_vars(RecordUsage(r))
       /\ SF_vars(Acquire(r))
       /\ SF_vars(Release(r))

FairSpec == Spec /\ Fairness

-----------------------------------------------------------------------------
(* Properties *)

InFlight == {r \in Requests : pc[r] \in {"admitted", "undo", "handler", "record"}}

(* The budget is checked before a request runs and charged after it ran.   *)
(* With blocking enforcement the hourly budget is overrun at most by what  *)
(* the requests that passed the check in the meantime may cost; checks     *)
(* that are stale when the handler starts do not add up over time.         *)
OvershootBounded ==
    action = "block" /\ Budget["hourly"] # Unlimited =>
        used["hourly"] + MaxCost * Cardinality(InFlight)
            <= Budget["hourly"] + MaxCost * Cardinality(Requests)

(* No request is stuck in the middleware: RecordUsage's write lock, the    *)
(* read locks and a full concurrent limiter do not block one another.      *)
RequestsEnd == \A r \in Requests : pc[r] # "idle" ~> pc[r] = "idle"

limiterPc ==
    [r \in Requests |-> CASE pc[r] = "undo" -> "undo"
                          [] pc[r] \in {"handler", "record", "release"} -> "inside"
                          [] OTHER -> "outside"]
Limiter == INSTANCE ConcurrentLimiter WITH pc <- limiterPc, Limit <- MaxConcurrent

(* The middleware uses the concurrent limiter correctly: every slot is     *)
(* released once, whatever path the request takes.                         *)
SlotsAccounted == Limiter!LimiterIsExact

-----------------------------------------------------------------------------
(* What the comments and the guide say and the code does not do *)

(* manager.go:123, "If any limit is exceeded, it returns a                 *)
(* LimitCheckResult with Allowed=false": under blocking enforcement no     *)
(* request passes the budget check while a budget is exceeded.             *)
ExceededBudgetBlocks ==
    [][\A r \in Requests : pc[r] = "budget" /\ pc'[r] = "admitted"
          => \A w \in Windows : ~Exceeded(w)]_vars
=============================================================================
