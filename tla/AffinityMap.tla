---------------------------- MODULE AffinityMap ----------------------------
(***************************************************************************)
(* What the sticky strategy expects of its cache: a map from keys to       *)
(* providers that changes only when an assignment is put, or when          *)
(* assignments are forgotten (expired, evicted, deleted or cleared), and   *)
(* that never holds more than Bound assignments.                           *)
(***************************************************************************)
EXTENDS FiniteSets, Naturals

CONSTANTS Keys, Providers, NoProvider, Bound

VARIABLES
    assigned,   \* key -> provider or NoProvider
    puts        \* calls of Put so far

Held(m) == {k \in Keys : m[k] # NoProvider}

Init ==
    /\ assigned = [k \in Keys |-> NoProvider]
    /\ puts = 0

(* An assignment is put; to make room, another may be forgotten. *)
Put ==
    /\ puts' = puts + 1
    /\ \E k \in Keys, p \in Providers :
          /\ assigned' \in [Keys -> Providers \cup {NoProvider}]
          /\ assigned'[k] = p
          /\ \A j \in Keys \ {k} : assigned'[j] \in {assigned[j], NoProvider}
          /\ Cardinality(Held(assigned) \ (Held(assigned') \cup {k})) <= 1

(* Assignments are forgotten and none is changed. *)
Forget ==
    /\ puts' = puts
    /\ assigned' \in [Keys -> Providers \cup {NoProvider}]
    /\ \A k \in Keys : assigned'[k] \in {assigned[k], NoProvider}

Next ==
    /\ Put \/ Forget
    /\ Cardinality(Held(assigned')) <= Bound

Spec == Init /\ [][Next]_<<assigned, puts>>
=============================================================================
