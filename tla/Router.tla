------------------------------- MODULE Router -------------------------------
(***************************************************************************)
(* The router (pkg/routing/router_impl.go, selector.go, strategies/) with  *)
(* concurrent RouteRequests: the filters, the precedence of policy, manual *)
(* selection and strategy, the four strategies, and the statistics, whose  *)
(* counters are separate atomics.                                          *)
(*                                                                         *)
(* GetAvailableProviders walks a Go map, so the list that reaches the      *)
(* round-robin strategy has an arbitrary order: whatever the counter is,   *)
(* it may pick any provider of positive weight (RoundRobin has the counter *)
(* itself).  The sticky cache is the abstract AffinityMap, which           *)
(* StickyCache implements.  UpdateProviders replaces the map without a     *)
(* lock.  The counters of overrides and of filtered requests are metrics   *)
(* that stand beside the decision, and GetStats only reads: both are left  *)
(* out, and so is config.DefaultProvider, which no code reads.             *)
(***************************************************************************)
EXTENDS Integers, Sequences, FiniteSets, FiniteSetsExt, SequencesExt

CONSTANTS
    Requests,          \* goroutines in RouteRequest
    Providers,         \* all providers there may be
    Pools,             \* the sets of providers that UpdateProviders is called with
    Kinds,             \* the requests that arrive: see Kind
    Keys,              \* sticky keys (user, API key or session)
    Strategies,        \* strategies a router may be created with
    FallbackEnabled,   \* config.Fallback.Enabled
    RequireHealthy,    \* of the health-based strategy
    Excluded,          \* providers of weight zero
    MaxRequests,       \* bound on the requests
    None               \* absent provider or key

(* capable: providers the model is mapped to; target, fallback: the        *)
(* RoutingTarget of the policy decision; preferred: PreferredProvider.     *)
Kind == [capable : SUBSET Providers, key : Keys \cup {None},
         target : Providers \cup {None}, fallback : Seq(Providers),
         preferred : Providers \cup {None}]

ASSUME RouterAssumption ==
    /\ IsFiniteSet(Requests) /\ IsFiniteSet(Providers)
    /\ Kinds \subseteq Kind /\ Kinds # {}
    /\ Pools \subseteq SUBSET Providers
    /\ None \notin Providers \cup Keys
    /\ Strategies \subseteq {"round-robin", "sticky", "manual", "health-based"}
    /\ FallbackEnabled \in BOOLEAN /\ RequireHealthy \in BOOLEAN
    /\ Excluded \subseteq Providers
    /\ MaxRequests \in Nat

VARIABLES
    pc,        \* where each goroutine is
    req,       \* its request
    avail,     \* its local variable available
    chosen,    \* the provider it returns
    pool,      \* selector.providers
    healthy,   \* the providers whose IsHealthy is true
    cache,     \* key -> provider or None
    strategy,  \* r.strategy
    total, errors,           \* stats.totalRequests, stats.errors
    perProvider, byStrategy  \* stats.requestsPerProvider; sum of strategyUseCount

locals == <<req, avail, chosen>>
world == <<pool, healthy, cache, strategy>>
stats == <<total, errors, perProvider, byStrategy>>
vars == <<pc, locals, world, stats>>

States == {"idle", "select", "health", "policy", "manual", "strategy", "pick",
           "store", "provider", "count", "error"}

(* Requests, cache, counters and pool keep their types. *)
TypeOK ==
    /\ pc \in [Requests -> States]
    /\ req \in [Requests -> Kinds]
    /\ avail \in [Requests -> SUBSET Providers]
    /\ chosen \in [Requests -> Providers \cup {None}]
    /\ pool \subseteq Providers /\ healthy \subseteq Providers
    /\ cache \in [Keys -> Providers \cup {None}]
    /\ strategy \in Strategies
    /\ total \in Nat /\ errors \in Nat /\ byStrategy \in Nat
    /\ perProvider \in [Providers -> Nat]

Init ==
    /\ pc = [r \in Requests |-> "idle"]
    /\ req \in [Requests -> {CHOOSE k \in Kinds : TRUE}]
    /\ avail = [r \in Requests |-> {}]
    /\ chosen = [r \in Requests |-> None]
    /\ pool = Providers
    /\ healthy = Providers
    /\ cache = [k \in Keys |-> None]
    /\ strategy \in Strategies
    /\ total = 0 /\ errors = 0 /\ byStrategy = 0
    /\ perProvider = [p \in Providers |-> 0]

-----------------------------------------------------------------------------
Goto(r, state) == pc' = [pc EXCEPT ![r] = state]
Choose(r, p, state) == chosen' = [chosen EXCEPT ![r] = p] /\ Goto(r, state)

(* Faulty variants *)

(* a sticky hit is returned without looking at the available providers *)
StickyUnchecked(r) ==
    /\ pc[r] = "strategy" /\ strategy = "sticky"
    /\ LET hit == IF req[r].key = None THEN None ELSE cache[req[r].key]
       IN  IF hit # None THEN Choose(r, hit, "provider")
           ELSE Goto(r, "pick") /\ UNCHANGED chosen
    /\ UNCHANGED <<req, avail, world, stats>>

(* an early return that does not count *)
CountErrorForgotten(r) ==
    /\ pc[r] = "error"
    /\ Goto(r, "idle")
    /\ UNCHANGED <<locals, world, stats>>

-----------------------------------------------------------------------------
(* RouteRequest: IncrementTotal, then the context is looked at. *)
Begin(r) ==
    /\ pc[r] = "idle"
    /\ total < MaxRequests
    /\ total' = total + 1
    /\ \E k \in Kinds : req' = [req EXCEPT ![r] = k]
    /\ \E next \in {"select", "error"} : Goto(r, next)
    /\ avail' = [avail EXCEPT ![r] = {}]
    /\ chosen' = [chosen EXCEPT ![r] = None]
    /\ UNCHANGED <<world, errors, perProvider, byStrategy>>

(* GetAvailableProviders and FilterByModel *)
SelectCapable(r) ==
    /\ pc[r] = "select"
    /\ avail' = [avail EXCEPT ![r] = pool \cap req[r].capable]
    /\ Goto(r, IF avail'[r] = {} THEN "error" ELSE "health")
    /\ UNCHANGED <<req, chosen, world, stats>>

(* FilterByHealth, then the precedence of the three ways to route *)
FilterByHealth(r) ==
    /\ pc[r] = "health"
    /\ avail' = [avail EXCEPT ![r] = @ \cap healthy]
    /\ Goto(r, CASE avail'[r] = {} -> "error"
                 [] avail'[r] # {} /\ req[r].target # None -> "policy"
                 [] avail'[r] # {} /\ req[r].target = None /\ req[r].preferred # None -> "manual"
                 [] OTHER -> "strategy")
    /\ UNCHANGED <<req, chosen, world, stats>>

(* tryFallbacks: the first of the names that is available *)
FirstFallback(r) ==
    LET usable == {i \in DOMAIN req[r].fallback : req[r].fallback[i] \in avail[r]}
    IN  IF usable = {} THEN None ELSE req[r].fallback[Min(usable)]

RouteWithPolicy(r) ==
    /\ pc[r] = "policy"
    /\ LET p == CASE req[r].target \in avail[r] -> req[r].target
                  [] req[r].target \notin avail[r] /\ FallbackEnabled -> FirstFallback(r)
                  [] OTHER -> None
       IN  Choose(r, p, IF p = None THEN "error" ELSE "provider")
    /\ UNCHANGED <<req, avail, world, stats>>

RouteManual(r) ==
    /\ pc[r] = "manual"
    /\ \/ /\ req[r].preferred \in avail[r]
          /\ Choose(r, req[r].preferred, "provider")
       \/ /\ req[r].preferred \notin avail[r]
          /\ Goto(r, IF FallbackEnabled THEN "strategy" ELSE "error")
          /\ UNCHANGED chosen
    /\ UNCHANGED <<req, avail, world, stats>>

-----------------------------------------------------------------------------
(* routeWithStrategy: SelectProvider of the configured strategy *)

(* StickyStrategy: a hit counts only if the provider is available. *)
Sticky(r) ==
    /\ pc[r] = "strategy" /\ strategy = "sticky"
    /\ LET hit == IF req[r].key = None THEN None ELSE cache[req[r].key]
       IN  \/ hit \in avail[r] /\ Choose(r, hit, "provider")
           \/ hit \notin avail[r] /\ Goto(r, "pick") /\ UNCHANGED chosen
    /\ UNCHANGED <<req, avail, world, stats>>

(* ManualStrategy, with fallback allowed as the router's Fallback says *)
Manual(r) ==
    /\ pc[r] = "strategy" /\ strategy = "manual"
    /\ \/ /\ req[r].preferred \in avail[r]
          /\ Choose(r, req[r].preferred, "provider")
       \/ /\ req[r].preferred \notin avail[r]
          /\ Goto(r, IF req[r].preferred = None \/ FallbackEnabled THEN "pick" ELSE "error")
          /\ UNCHANGED chosen
    /\ UNCHANGED <<req, avail, world, stats>>

(* HealthBasedStrategy asks the providers again. *)
HealthBased(r) ==
    /\ pc[r] = "strategy" /\ strategy = "health-based"
    /\ LET now == avail[r] \cap healthy
       IN  /\ avail' = [avail EXCEPT ![r] = IF now = {} THEN @ ELSE now]
           /\ Goto(r, IF now = {} /\ RequireHealthy THEN "error" ELSE "pick")
    /\ UNCHANGED <<req, chosen, world, stats>>

PlainRoundRobin(r) ==
    /\ pc[r] = "strategy" /\ strategy = "round-robin"
    /\ Goto(r, "pick")
    /\ UNCHANGED <<locals, world, stats>>

(* RoundRobinStrategy, used by each of the others on a miss *)
Weighted(ps) == IF Cardinality(ps) = 1 \/ ps \subseteq Excluded THEN ps ELSE ps \ Excluded

Pick(r) ==
    /\ pc[r] = "pick"
    /\ \E p \in Weighted(avail[r]) :
          Choose(r, p, IF strategy = "sticky" /\ req[r].key # None THEN "store" ELSE "provider")
    /\ UNCHANGED <<req, avail, world, stats>>

(* cache.Set *)
Store(r) ==
    /\ pc[r] = "store"
    /\ cache' = [cache EXCEPT ![req[r].key] = chosen[r]]
    /\ Goto(r, "provider")
    /\ UNCHANGED <<locals, pool, healthy, strategy, stats>>

(* IncrementProvider and IncrementStrategy, in two steps; then return *)
CountProvider(r) ==
    /\ pc[r] = "provider"
    /\ perProvider' = [perProvider EXCEPT ![chosen[r]] = @ + 1]
    /\ Goto(r, "count")
    /\ UNCHANGED <<locals, world, total, errors, byStrategy>>

CountStrategy(r) ==
    /\ pc[r] = "count"
    /\ byStrategy' = byStrategy + 1
    /\ Goto(r, "idle")
    /\ UNCHANGED <<locals, world, total, errors, perProvider>>

(* IncrementErrors and the return of an error *)
CountError(r) ==
    /\ pc[r] = "error"
    /\ errors' = errors + 1
    /\ Goto(r, "idle")
    /\ UNCHANGED <<locals, world, total, perProvider, byStrategy>>

-----------------------------------------------------------------------------
Routed == MapThenSumSet(LAMBDA p : perProvider[p], Providers)

(* The health checkers; UpdateProviders; TTL, eviction or Reset. *)
HealthChanges(p) ==
    /\ healthy' = IF p \in healthy THEN healthy \ {p} ELSE healthy \cup {p}
    /\ UNCHANGED <<pc, locals, pool, cache, strategy, stats>>

UpdateProviders(ps) ==
    /\ pool' = ps
    /\ UNCHANGED <<pc, locals, healthy, cache, strategy, stats>>

Forget(k) ==
    /\ cache[k] # None
    /\ cache' = [cache EXCEPT ![k] = None]
    /\ UNCHANGED <<pc, locals, pool, healthy, strategy, stats>>

Next ==
    \/ \E r \in Requests :
          \/ Begin(r) \/ SelectCapable(r) \/ FilterByHealth(r)
          \/ RouteWithPolicy(r) \/ RouteManual(r)
          \/ Sticky(r) \/ Manual(r) \/ HealthBased(r) \/ PlainRoundRobin(r)
          \/ Pick(r) \/ Store(r)
          \/ CountProvider(r) \/ CountStrategy(r) \/ CountError(r)
    \/ \E p \in Providers : HealthChanges(p)
    \/ \E ps \in Pools : UpdateProviders(ps)
    \/ \E k \in Keys : Forget(k)

Spec == Init /\ [][Next]_vars

-----------------------------------------------------------------------------
(* Properties *)

Decided(r) == pc[r] \in {"store", "provider", "count"}

(* Whatever changes while a request is routed, the provider it gets        *)
(* supports the model, passed this request's health filter, and is the     *)
(* policy's target or one of its fallbacks when the policy routes.         *)
RouteIsPermitted ==
    \A r \in Requests : Decided(r) =>
       /\ chosen[r] \in avail[r] /\ avail[r] \subseteq req[r].capable
       /\ req[r].target # None =>
             chosen[r] \in {req[r].target} \cup ToSet(req[r].fallback)

InFlight(states) == Cardinality({r \in Requests : pc[r] \in states})

(* Every request is counted once, as an error or for one provider and one  *)
(* strategy, on all of the return paths of RouteRequest.                   *)
StatsBalanced ==
    /\ total = errors + Routed + InFlight(States \ {"idle", "count"})
    /\ Routed = byStrategy + InFlight({"count"})

=============================================================================
