-------------------------- MODULE ProviderManager --------------------------
(***************************************************************************)
(* The registry of providers (pkg/providerfactory) and the health checkers  *)
(* it starts.  Every operation holds the mutex from beginning to end, so    *)
(* it is one step; the checkers are goroutines and stop in steps of their   *)
(* own.  Closing a provider waits at most five seconds for its checker.     *)
(***************************************************************************)
EXTENDS Integers, Sequences, FiniteSets, Functions

CONSTANTS
    ProviderConfigs,    \* configurations [name, type, url, key]
    ConfigLists,        \* lists of them for LoadFromConfig
    MaxInstances        \* bound on the providers ever created

ASSUME ManagerAssumption ==
    LET Config == [name : STRING, type : STRING, url : STRING, key : STRING]
    IN  ProviderConfigs \subseteq Config /\ ConfigLists \subseteq Seq(Config)

VARIABLES
    providers,      \* name -> instance
    instances,      \* ghost: every provider created, with its checker
    managerCtx,     \* "live" or "cancelled"
    loading         \* what LoadFromConfig has still to add

managerVars == <<providers, instances, managerCtx, loading>>

ManagerInit ==
    /\ providers = <<>> /\ instances = <<>> /\ managerCtx = "live" /\ loading = <<>>

-----------------------------------------------------------------------------
inferProviderType(name) == IF name \in {"openai", "anthropic"} THEN name ELSE "generic"
ProviderType(config) == IF config.type = "" THEN inferProviderType(config.name) ELSE config.type

(* The adapters' NewProvider: what each of them insists on.                 *)
openaiNewProvider(config) == config.name # "" /\ config.key # ""
anthropicNewProvider(config) == config.name # "" /\ config.key # ""
genericNewProvider(config) == config.name # "" /\ config.url # ""
NewProvider(config) ==
    CASE ProviderType(config) = "openai" -> openaiNewProvider(config)
      [] ProviderType(config) = "anthropic" -> anthropicNewProvider(config)
      [] ProviderType(config) = "generic" -> genericNewProvider(config)
      [] OTHER -> FALSE

NewProviderWithHealthCheck(config) == [name |-> config.name, type |-> ProviderType(config), checker |-> "running"]

(* HTTPProvider.Close of the providers in S.                                *)
CloseProviders(S, all) ==
    {[i \in DOMAIN all |-> IF i \in S /\ all[i].checker = "running" THEN [all[i] EXCEPT !.checker = c[i]] ELSE all[i]] :
        c \in [S -> {"stopping", "stopped"}]}

Without(name) == Restrict(providers, DOMAIN providers \ {name})

-----------------------------------------------------------------------------
(* The old provider is closed and deleted before the new one is created:    *)
(* when that fails the name has no provider.                                *)
AddLeaking(config) ==   \* faulty: the provider that is replaced is not closed
    /\ Len(instances) < MaxInstances
    /\ IF NewProvider(config)
       THEN /\ instances' = Append(instances, NewProviderWithHealthCheck(config))
            /\ providers' = [n \in DOMAIN providers \cup {config.name} |->
                                IF n = config.name THEN Len(instances) + 1 ELSE providers[n]]
       ELSE instances' = instances /\ providers' = Without(config.name)
Add(config) ==
    /\ Len(instances) < MaxInstances
    /\ LET old == IF config.name \in DOMAIN providers THEN {providers[config.name]} ELSE {} IN
       \E rest \in CloseProviders(old, instances) :
          IF NewProvider(config)
          THEN /\ instances' = Append(rest, NewProviderWithHealthCheck(config))
               /\ providers' = [n \in DOMAIN providers \cup {config.name} |->
                                   IF n = config.name THEN Len(instances) + 1 ELSE providers[n]]
          ELSE instances' = rest /\ providers' = Without(config.name)

AddProvider(config) == Add(config) /\ UNCHANGED <<managerCtx, loading>>

(* LoadFromConfig adds one provider at a time and goes on after an error.   *)
LoadFromConfig(configs) ==
    /\ loading = <<>> /\ loading' = configs
    /\ UNCHANGED <<providers, instances, managerCtx>>
LoadNext ==
    /\ loading # <<>>
    /\ Add(Head(loading)) /\ loading' = Tail(loading)
    /\ UNCHANGED managerCtx

RemoveProvider(name) ==
    /\ name \in DOMAIN providers
    /\ instances' \in CloseProviders({providers[name]}, instances)
    /\ providers' = Without(name)
    /\ UNCHANGED <<managerCtx, loading>>

CloseManager ==
    /\ managerCtx' = "cancelled"
    /\ instances' \in CloseProviders(Range(providers), instances)
    /\ providers' = <<>>
    /\ UNCHANGED loading

(* A checker ends when its check is over, or at the end of the context.     *)
CheckerStops(i) ==
    /\ instances[i].checker = "stopping" \/ (instances[i].checker = "running" /\ managerCtx = "cancelled")
    /\ instances' = [instances EXCEPT ![i].checker = "stopped"]
    /\ UNCHANGED <<providers, managerCtx, loading>>

ManagerNext ==
    \/ \E c \in ProviderConfigs : AddProvider(c)
    \/ \E l \in ConfigLists : LoadFromConfig(l)
    \/ LoadNext
    \/ \E n \in DOMAIN providers : RemoveProvider(n)
    \/ CloseManager
    \/ \E i \in DOMAIN instances : CheckerStops(i)

-----------------------------------------------------------------------------
(* Until the manager is closed the checkers that run are those of the       *)
(* providers it serves, no more and no fewer: a provider that was replaced, *)
(* removed or failed to be replaced leaves no goroutine that goes on        *)
(* probing it, and no provider is served whose checker has been told to     *)
(* stop (AddProvider, RemoveProvider, Close of providerfactory/manager.go). *)
CheckersAreManaged ==
    managerCtx = "live" =>
        /\ {i \in DOMAIN instances : instances[i].checker = "running"} = Range(providers)
        /\ \A n \in DOMAIN providers : instances[providers[n]].name = n
=============================================================================
