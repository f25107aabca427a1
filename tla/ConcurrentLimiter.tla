------------------------- MODULE ConcurrentLimiter -------------------------
(***************************************************************************)
(* The lock-free counting semaphore of pkg/limits/ratelimit/concurrent.go  *)
(* and the way the limits middleware uses it: Acquire, run the handler,    *)
(* Release in a defer.                                                     *)
(*                                                                         *)
(* Acquire is two atomic operations: it adds one to the counter first and  *)
(* takes it back when the sum exceeds the limit.  Between the two, the     *)
(* counter is higher than the number of requests in flight.                *)
(***************************************************************************)
EXTENDS Integers, FiniteSets

CONSTANTS
    Requests,   \* goroutines that go through the limiter
    Limit       \* MaxConcurrent

ASSUME LimiterAssumption ==
    /\ IsFiniteSet(Requests)
    /\ Limit \in Nat \ {0}   \* NewLimiter creates no limiter for 0

VARIABLES
    current,    \* cl.current, the atomic counter
    pc          \* where each request is

limiterVars == <<current, pc>>

States == {"outside", "undo", "inside", "rejected"}

(* The state of each request and the counter keep their types. *)
LimiterTypeOK ==
    /\ current \in Int
    /\ pc \in [Requests -> States]

InState(s) == {r \in Requests : pc[r] = s}

LimiterInit ==
    /\ current = 0
    /\ pc = [r \in Requests |-> "outside"]

-----------------------------------------------------------------------------
(* Faulty variants *)

(* load, compare, then add: the check and the increment are not one step *)
AcquireLoadFirst(r) ==
    \/ /\ pc[r] = "outside"
       /\ pc' = [pc EXCEPT ![r] = IF current >= Limit THEN "rejected" ELSE "undo"]
       /\ UNCHANGED current
    \/ /\ pc[r] = "undo"
       /\ pc' = [pc EXCEPT ![r] = "inside"]
       /\ current' = current + 1

(* the rejected request keeps its increment *)
UndoForgotten(r) ==
    /\ pc[r] = "undo"
    /\ pc' = [pc EXCEPT ![r] = "rejected"]
    /\ UNCHANGED current

-----------------------------------------------------------------------------
(* Acquire: the add returns the new value, which is compared locally. *)
Acquire(r) ==
    /\ pc[r] = "outside"
    /\ current' = current + 1
    /\ pc' = [pc EXCEPT ![r] = IF current + 1 > Limit THEN "undo" ELSE "inside"]

(* Acquire after the comparison failed: decrement and return false. *)
Undo(r) ==
    /\ pc[r] = "undo"
    /\ current' = current - 1
    /\ pc' = [pc EXCEPT ![r] = "rejected"]

(* Release, deferred by the middleware: also when the handler panics. *)
Release(r) ==
    /\ pc[r] = "inside"
    /\ current' = current - 1
    /\ pc' = [pc EXCEPT ![r] = "outside"]

(* The client of a rejected request (429) tries again. *)
Retry(r) ==
    /\ pc[r] = "rejected"
    /\ pc' = [pc EXCEPT ![r] = "outside"]
    /\ UNCHANGED current

LimiterNext == \E r \in Requests : Acquire(r) \/ Undo(r) \/ Release(r) \/ Retry(r)

LimiterSpec == LimiterInit /\ [][LimiterNext]_limiterVars

-----------------------------------------------------------------------------
(* Properties *)

(* What the limit means: no more handlers run at once than it says.        *)
AtMostLimitInside == Cardinality(InState("inside")) <= Limit

(* The counter is exactly the requests in flight plus the increments about *)
(* to be taken back: no slot leaks and none is released twice.             *)
CounterIsExact ==
    current = Cardinality(InState("inside")) + Cardinality(InState("undo"))

(* Never more than Limit requests run their handler at once, although the  *)
(* counter itself may exceed the limit, and however Acquire, its undo and  *)
(* Release interleave no slot is lost or given back twice.                 *)
LimiterIsExact == AtMostLimitInside /\ CounterIsExact
=============================================================================
