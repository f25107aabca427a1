---------------------------- MODULE SlidingWindow ----------------------------
(***************************************************************************)
(* The bucketed window counters: SlidingWindow (pkg/limits/ratelimit/      *)
(* sliding_window.go, token limits) and RollingWindow (pkg/limits/budget/  *)
(* window.go, budgets).  They are two copies of one algorithm; the first   *)
(* also remembers the slot it wrote last in head.  Both are instances of   *)
(* the steps here, and WindowIsAccurate says that head changes nothing.    *)
(*                                                                         *)
(* Every method takes the window's mutex and reads the clock inside it.    *)
(***************************************************************************)
EXTENDS Integers, FiniteSets, FiniteSetsExt, Clock

CONSTANTS
    NumBuckets,   \* len(buckets)
    BucketSize,   \* ticks in a bucket
    Values,       \* amounts that callers add
    MaxPerTick,   \* bound on what is added at one instant
    WindowHorizon \* bound on the clock

ASSUME WindowAssumption ==
    /\ NumBuckets \in Nat \ {0}
    /\ BucketSize \in Nat \ {0}
    /\ Values \subseteq Nat
    /\ MaxPerTick \in Nat
    /\ WindowHorizon \in Nat

(* In every window the program creates, the duration is a multiple of the  *)
(* bucket size (NewLimiter, NewTracker).                                   *)
Window == NumBuckets * BucketSize

VARIABLES
    buckets,   \* slot -> [ts, value]
    head,      \* sw.head
    added      \* history: what was added at each instant

windowVars == <<now, buckets, head, added>>

Slots == 0..(NumBuckets - 1)
ZeroTime == -1                                 \* the zero time.Time
EmptyBucket == [ts |-> ZeroTime, value |-> 0]      \* bucket{}

WindowInit ==
    /\ now = 0
    /\ buckets = [i \in Slots |-> EmptyBucket]
    /\ head = 0
    /\ added = [t \in 0..WindowHorizon |-> 0]

-----------------------------------------------------------------------------
(* Faulty variants *)

PrunedNever == buckets

(* the head slot is taken without looking at its timestamp *)
SlidingSlotHeadOnly(bs) == head

(* a full window reuses slot 0 instead of the oldest slot *)
RollingSlotFirst(bs) ==
    LET same  == {i \in Slots : bs[i].ts = now - (now % BucketSize)}
        empty == {i \in Slots : bs[i].ts = ZeroTime}
    IN  IF same # {} THEN Min(same) ELSE IF empty # {} THEN Min(empty) ELSE 0

-----------------------------------------------------------------------------
BucketTime == now - (now % BucketSize)    \* now.Truncate(bucketSize)

(* pruneLocked *)
Pruned ==
    [i \in Slots |-> IF buckets[i].ts # ZeroTime /\ buckets[i].ts < now - Window
                     THEN EmptyBucket ELSE buckets[i]]

(* RollingWindow.findOrCreateBucketLocked: the slot of the current bucket; *)
(* else the first empty slot; else the first of the oldest.                *)
RollingSlot(bs) ==
    LET same   == {i \in Slots : bs[i].ts = BucketTime}
        empty  == {i \in Slots : bs[i].ts = ZeroTime}
        oldest == {i \in Slots : \A j \in Slots : bs[i].ts <= bs[j].ts}
    IN  CASE same # {} -> Min(same)
          [] same = {} /\ empty # {} -> Min(empty)
          [] OTHER -> Min(oldest)

(* SlidingWindow.findOrCreateBucketLocked looks at the head slot first. *)
SlidingSlot(bs) ==
    IF bs[head].ts = BucketTime THEN head ELSE RollingSlot(bs)

(* The sum over buckets already pruned *)
WindowTotal(bs) == MapThenSumSet(LAMBDA i : bs[i].value, Slots)

WindowAdd(v) ==
    LET bs == Pruned
        i  == SlidingSlot(bs)
        b  == IF bs[i].ts = BucketTime THEN bs[i] ELSE [ts |-> BucketTime, value |-> 0]
    IN  /\ buckets' = [bs EXCEPT ![i] = [b EXCEPT !.value = b.value + v]]
        /\ head' = IF bs[i].ts = BucketTime THEN head ELSE i
        /\ added' = [added EXCEPT ![now] = @ + v]
        /\ UNCHANGED now

(* Sum prunes; its result is WindowTotal(Pruned). *)
WindowSum ==
    /\ buckets' = Pruned
    /\ UNCHANGED <<now, head, added>>

WindowReset ==
    /\ buckets' = [i \in Slots |-> EmptyBucket]
    /\ head' = 0
    /\ added' = [t \in 0..WindowHorizon |-> 0]
    /\ UNCHANGED now

WindowTick ==
    /\ now < WindowHorizon
    /\ now' = now + 1
    /\ UNCHANGED <<buckets, head, added>>

WindowNext ==
    \/ \E v \in Values : added[now] + v <= MaxPerTick /\ WindowAdd(v)
    \/ WindowSum
    \/ WindowReset
    \/ WindowTick

WindowSpec == WindowInit /\ [][WindowNext]_windowVars

-----------------------------------------------------------------------------
(* Properties *)

AddedIn(from, to) ==
    MapThenSumSet(LAMBDA t : added[t], {t \in 0..WindowHorizon : from <= t /\ t <= to})

(* What Sum reports was really added within the window: usage that left    *)
(* the window is never charged again, whichever slots were reused.         *)
NeverOvercounts == WindowTotal(Pruned) <= AddedIn(now - Window, now)

(* Nothing younger than the window less one bucket is forgotten, not even  *)
(* when all slots are live and the oldest is overwritten.                  *)
RemembersRecent == WindowTotal(Pruned) >= AddedIn(now - Window + BucketSize, now)

(* The head shortcut of SlidingWindow picks the slot that RollingWindow's  *)
(* search picks: the two copies of the algorithm count alike.              *)
HeadIsOnlyAShortcut == SlidingSlot(Pruned) = RollingSlot(Pruned)

(* Both windows report all usage of the last window but for its oldest      *)
(* bucket and none from before it, although Add and Sum prune lazily and    *)
(* slots are reused; and the head of SlidingWindow changes nothing of it.   *)
WindowIsAccurate == NeverOvercounts /\ RemembersRecent /\ HeadIsOnlyAShortcut
=============================================================================
