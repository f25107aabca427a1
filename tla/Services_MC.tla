---------------------------- MODULE Services_MC ----------------------------
(***************************************************************************)
(* The services around the core on small instances: configuration, the     *)
(* policy files on their way to the engine, includes, the proxy's request,  *)
(* the life of the process, the registry of providers, secrets,            *)
(* certificates and the storage of limit states.  They have no state in     *)
(* common, so a behaviour exercises one of them, its subject, and leaves    *)
(* the others at rest.                                                      *)
(***************************************************************************)
EXTENDS Configuration_MC, PolicyPipeline_MC, PolicyIncludes_MC, ChatProxy_MC, Lifecycle, ProviderManager, Secrets,
        CertReloader, LimitsStorage

MCSettings == [policy : BOOLEAN, evidence : BOOLEAN, schedule : BOOLEAN, tls : {"off", "good", "bad"}]
MCProviderConfigs ==
    {[name |-> n, type |-> "", url |-> u, key |-> "k"] : n \in {"openai", "local"}, u \in {"", "u"}}
    \cup {[name |-> "local", type |-> "cohere", url |-> "u", key |-> "k"],
          [name |-> "openai", type |-> "anthropic", url |-> "u", key |-> ""]}
MCConfigLists == {<<c, d>> : c, d \in {x \in MCProviderConfigs : x.url = "u"}}
MCKeyOf == <<1, 1, 2, 2>>
MCStateKeys == [identifier : {"a", "b"}, dimension : {"key"}] \cup {[identifier |-> "a", dimension |-> "user"]}

VARIABLE subject

-----------------------------------------------------------------------------
(* A service at rest: nothing of it is enabled that fairness speaks of.     *)
ConfigAtRest ==
    /\ configFile = [readable |-> FALSE] /\ environ = Env(<<>>) /\ globalConfig = Unset /\ initDone = FALSE /\ rewrites = 0
    /\ loader = [l \in Loaders |-> [at |-> "idle", loaded |-> Failed, told |-> "nothing"]]
PipelineAtRest ==
    composition = [main |-> File(PlainPolicy), includes |-> <<>>] /\ pipelineStage = "at rest" /\ policy = NotBuilt /\ verdict = {}
IncludesAtRest == tree = [listed |-> <<>>] /\ loadStage = "at rest" /\ loadedOrder = LoadFailed
ChatAtRest ==
    /\ call = [path |-> "health", method |-> "GET", cors |-> FALSE, body |-> [kind |-> "malformed"]]
    /\ ctxState = "cancelled" /\ connection = "expired" /\ received = 0 /\ guard = "returned" /\ handler = "ended" /\ pending = <<>>
    /\ chosen = "" /\ sent = <<>> /\ reply = <<>> /\ script = <<>> /\ nextEvent = 1
    /\ producer = "none" /\ holding = NoChunk /\ channel = <<>> /\ closed = FALSE
    /\ written = [status |-> 0, items |-> <<>>]
LifeAtRest ==
    /\ settings = [policy |-> FALSE, evidence |-> FALSE, schedule |-> FALSE, tls |-> "off"]
    /\ mainAt = "exited" /\ toOpen = <<>> /\ deferred = <<>>
    /\ startAt = "none" /\ listener = "none" /\ isRunning = FALSE /\ once = "unused" /\ inFlight = 0
    /\ registered = {} /\ signalled = {} /\ signals = 0 /\ ctxDone = FALSE /\ startErr = FALSE /\ excuse = FALSE

Init ==
    /\ ManagerInit /\ SecretsInit /\ CertInit(1) /\ StorageInit
    /\ \/ subject = "config" /\ ConfigInit /\ PipelineAtRest /\ IncludesAtRest /\ ChatAtRest /\ LifeAtRest
       \/ subject = "pipeline" /\ PipelineInit /\ ConfigAtRest /\ IncludesAtRest /\ ChatAtRest /\ LifeAtRest
       \/ subject = "includes" /\ IncludeInit /\ ConfigAtRest /\ PipelineAtRest /\ ChatAtRest /\ LifeAtRest
       \/ subject = "chat" /\ (\E c \in Calls : ChatInit(c)) /\ ConfigAtRest /\ PipelineAtRest /\ IncludesAtRest /\ LifeAtRest
       \/ subject = "life" /\ (\E s \in Settings : LifeInit(s)) /\ ConfigAtRest /\ PipelineAtRest /\ IncludesAtRest /\ ChatAtRest
       \/ /\ subject \in {"manager", "secrets", "certificate", "storage"}
          /\ ConfigAtRest /\ PipelineAtRest /\ IncludesAtRest /\ ChatAtRest /\ LifeAtRest

Next ==
    \/ /\ subject = "config" /\ ConfigNext
       /\ UNCHANGED <<subject, pipelineVars, includeVars, chatVars, lifeVars, managerVars, secretVars, certVars, storageVars>>
    \/ /\ subject = "pipeline" /\ PipelineNext
       /\ UNCHANGED <<subject, configVars, includeVars, chatVars, lifeVars, managerVars, secretVars, certVars, storageVars>>
    \/ /\ subject = "includes" /\ IncludeNext
       /\ UNCHANGED <<subject, configVars, pipelineVars, chatVars, lifeVars, managerVars, secretVars, certVars, storageVars>>
    \/ /\ subject = "chat" /\ ChatNext
       /\ UNCHANGED <<subject, configVars, pipelineVars, includeVars, lifeVars, managerVars, secretVars, certVars, storageVars>>
    \/ /\ subject = "life" /\ LifeNext
       /\ UNCHANGED <<subject, configVars, pipelineVars, includeVars, chatVars, managerVars, secretVars, certVars, storageVars>>
    \/ /\ subject = "manager" /\ ManagerNext
       /\ UNCHANGED <<subject, configVars, pipelineVars, includeVars, chatVars, lifeVars, secretVars, certVars, storageVars>>
    \/ /\ subject = "secrets" /\ SecretsNext
       /\ UNCHANGED <<subject, configVars, pipelineVars, includeVars, chatVars, lifeVars, managerVars, certVars, storageVars>>
    \/ /\ subject = "certificate" /\ CertNext
       /\ UNCHANGED <<subject, configVars, pipelineVars, includeVars, chatVars, lifeVars, managerVars, secretVars, storageVars>>
    \/ /\ subject = "storage" /\ StorageNext
       /\ UNCHANGED <<subject, configVars, pipelineVars, includeVars, chatVars, lifeVars, managerVars, secretVars, certVars>>

vars == <<subject, configVars, pipelineVars, includeVars, chatVars, lifeVars, managerVars, secretVars, certVars, storageVars>>

Spec == Init /\ [][Next]_vars /\ ChatFairness /\ LifeFairness /\ CertFairness
=============================================================================
