----------------------------- MODULE RoundRobin -----------------------------
(***************************************************************************)
(* The round-robin strategy (pkg/routing/strategies/round_robin.go) as     *)
(* concurrent requests use it: an atomic counter, the weighted list, and   *)
(* the reset of the counter by a compare-and-swap at MaxCount.             *)
(*                                                                         *)
(* The list of providers is the same at every call, as the strategy        *)
(* expects.  The selector of the router walks a Go map and passes the list *)
(* in an arbitrary order: there, as module Router has it, the counter does *)
(* not determine the provider.                                             *)
(***************************************************************************)
EXTENDS Integers, Sequences, FiniteSets, SequencesExt

CONSTANTS
    Callers,      \* goroutines in SelectProvider
    Pool,         \* the providers that are available, at least two
    Weight,       \* provider -> weight
    MaxCount,     \* 1_000_000_000 in the code
    MaxPicks      \* bound on the selections

ASSUME RoundRobinAssumption ==
    /\ IsFiniteSet(Pool) /\ Cardinality(Pool) > 1
    /\ Weight \in [Pool -> Nat]
    /\ MaxCount \in Nat /\ MaxPicks \in Nat

VARIABLES
    counter,    \* s.counter
    stage,      \* where each caller is
    count,      \* the local variable count of each caller
    picks,      \* history: provider -> times selected
    wrapped     \* history: selections made with count >= MaxCount

roundRobinVars == <<counter, stage, count, picks, wrapped>>

RoundRobinInit ==
    /\ counter = 0
    /\ stage = [c \in Callers |-> "idle"]
    /\ count = [c \in Callers |-> 0]
    /\ picks = [p \in Pool |-> 0]
    /\ wrapped = 0

-----------------------------------------------------------------------------
(* Faulty: every provider once, the weight forgotten *)
WeightedListFlat(order) == order

-----------------------------------------------------------------------------
(* buildWeightedList: each provider Weight times; when all weights are     *)
(* zero SelectProvider falls back to the plain list.                       *)
WeightedList(order) ==
    LET list == FlattenSeq([i \in DOMAIN order |-> [j \in 1..Weight[order[i]] |-> order[i]]])
    IN  IF list = <<>> THEN order ELSE list

SelectAt(n) ==
    LET list == WeightedList(SetToSeq(Pool))
    IN  picks' = [picks EXCEPT ![list[1 + (n % Len(list))]] = @ + 1]

Total == FoldFunction(LAMBDA a, b : a + b, 0, picks)

(* counter.Add(1), and the selection unless the counter is at its limit *)
CounterAdd(c) ==
    /\ stage[c] = "idle"
    /\ counter' = counter + 1
    /\ IF counter >= MaxCount
       THEN /\ stage' = [stage EXCEPT ![c] = "swap"]
            /\ count' = [count EXCEPT ![c] = counter]
            /\ UNCHANGED picks
       ELSE /\ SelectAt(counter)
            /\ UNCHANGED <<stage, count>>
    /\ UNCHANGED wrapped

(* counter.CompareAndSwap(count+1, 0) and the selection with count = 0 *)
Swap(c) ==
    /\ stage[c] = "swap"
    /\ counter' = IF counter = count[c] + 1 THEN 0 ELSE counter
    /\ SelectAt(0)
    /\ wrapped' = wrapped + 1
    /\ stage' = [stage EXCEPT ![c] = "idle"]
    /\ count' = [count EXCEPT ![c] = 0]

RoundRobinNext == \E c \in Callers :
    \/ Total + Cardinality({d \in Callers : stage[d] = "swap"}) < MaxPicks /\ CounterAdd(c)
    \/ Swap(c)

RoundRobinSpec == RoundRobinInit /\ [][RoundRobinNext]_roundRobinVars

-----------------------------------------------------------------------------
(* Properties *)

AllZero == \A p \in Pool : Weight[p] = 0
Share(p) == IF AllZero THEN 1 ELSE Weight[p]
Round == FoldFunction(LAMBDA a, b : a + b, 0, [p \in Pool |-> Share(p)])

(* "It distributes requests evenly across available providers, with        *)
(* optional weighting" (round_robin.go:12): the selections of a provider   *)
(* differ from its share of all selections by at most its weight, and by   *)
(* one round for each selection made while the counter wraps.              *)
EvenlySpread ==
    \A p \in Pool :
       LET due == Total * Share(p)
           got == picks[p] * Round
           slack == Round * (Share(p) + wrapped * Round)
       IN  due - slack <= got /\ got <= due + slack
=============================================================================
