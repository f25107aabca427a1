--------------------------- MODULE Configuration ---------------------------
(***************************************************************************)
(* Configuration (pkg/config): the schema of the YAML file, the defaults,  *)
(* the environment overrides, validation, and the global singleton that    *)
(* Initialize and ReloadConfig fill.                                       *)
(*                                                                         *)
(* Scalars are a partial function from <<section, field>> to the value: a  *)
(* field that is not there has the zero value of its kind, which is all    *)
(* that Go's decoder leaves of an explicit zero.  Durations are seconds,   *)
(* ratios are hundredths.  The maps of a configuration are separate.       *)
(***************************************************************************)
EXTENDS Integers, Sequences, FiniteSets, Functions

CONSTANTS ConfigFiles,   \* the contents the file can have
          Environments,  \* the environments the process can be started in
          Loaders,       \* goroutines that initialise or reload
          MaxRewrites    \* bound: how often the file is rewritten

VARIABLES configFile,    \* what is on disk
          environ,       \* the environment, fixed for the process
          globalConfig, initDone,
          loader,        \* per goroutine: what it is doing and what it has loaded
          rewrites
configVars == <<configFile, environ, globalConfig, initDone, loader, rewrites>>

(* What the decoder makes of a file: one value per struct, amounts that are *)
(* numbers, finite maps.                                                    *)
WellFormed(c) ==
    /\ c = [set |-> c.set, providers |-> c.providers, budgets |-> c.budgets, rates |-> c.rates, downgrades |-> c.downgrades]
    /\ c.budgets \in [DOMAIN c.budgets -> [hourly : Int, daily : Int, monthly : Int]]
    /\ IsFiniteSet(DOMAIN c.downgrades)
ASSUME ConfigAssumption == \A file \in ConfigFiles : file.readable => WellFormed(file.config)

-----------------------------------------------------------------------------
(* The schema: the kind of every scalar, per struct.                        *)
ProxyConfig == [listen_address |-> "str", read_timeout |-> "num", write_timeout |-> "num", idle_timeout |-> "num",
                shutdown_timeout |-> "num", max_header_bytes |-> "num"]
CORSConfig == [enabled |-> "flag", allowed_origins |-> "list", allowed_methods |-> "list", allowed_headers |-> "list",
               exposed_headers |-> "list", max_age |-> "num", allow_credentials |-> "flag"]
ProviderConfig == [base_url |-> "str", api_key |-> "str", timeout |-> "num", max_retries |-> "num"]
PolicyConfig == [mode |-> "str", file_path |-> "str", git_repo |-> "str", git_branch |-> "str", git_path |-> "str",
                 watch |-> "flag"]
PolicyValidationConfig == [enabled |-> "flag", strict |-> "flag"]
EvidenceConfig == [enabled |-> "flag", backend |-> "str", signing_key_path |-> "str"]
SQLiteConfig == [path |-> "str", max_open_conns |-> "num", max_idle_conns |-> "num", wal_mode |-> "flag",
                 busy_timeout |-> "num"]
RecorderConfig == [async_buffer |-> "num", write_timeout |-> "num", hash_request |-> "flag", hash_response |-> "flag",
                   redact_api_keys |-> "flag", max_field_length |-> "num"]
RetentionConfig == [days |-> "num", prune_schedule |-> "str", archive_before_delete |-> "flag", archive_path |-> "str",
                    max_records |-> "num"]
QueryConfig == [default_limit |-> "num", max_limit |-> "num", timeout |-> "num"]
ExportConfig == [json_pretty |-> "flag", csv_include_header |-> "flag", max_export_size |-> "num"]
PostgresConfig == [host |-> "str", port |-> "num", database |-> "str", user |-> "str", password |-> "str",
                   ssl_mode |-> "str"]
S3Config == [bucket |-> "str", region |-> "str", prefix |-> "str", endpoint |-> "str"]
LoggingConfig == [level |-> "str", format |-> "str", add_source |-> "flag", redact_pii |-> "flag",
                  buffer_size |-> "num", redact_patterns |-> "list"]
MetricsConfig == [enabled |-> "flag", path |-> "str", port |-> "num", namespace |-> "str", subsystem |-> "str",
                  request_duration_buckets |-> "list", token_count_buckets |-> "list"]
TracingConfig == [enabled |-> "flag", sampler |-> "str", sample_ratio |-> "num", exporter |-> "str",
                  endpoint |-> "str", service_name |-> "str"]
HealthConfig == [enabled |-> "flag", liveness_path |-> "str", readiness_path |-> "str", version_path |-> "str",
                 check_timeout |-> "num", min_healthy_providers |-> "num"]
TokensConfig == [estimator |-> "str", cache_size |-> "num", models |-> "list"]
SensitiveConfig == [enabled |-> "flag", severity_threshold |-> "str", categories |-> "list"]
InjectionConfig == [enabled |-> "flag", confidence_threshold |-> "num", patterns |-> "list"]
ConversationConfig == [max_context_window |-> "list", warn_threshold |-> "num"]
TLSConfig == [enabled |-> "flag", cert_file |-> "str", key_file |-> "str", min_version |-> "str",
              cipher_suites |-> "list", cert_reload_interval |-> "str"]
MTLSConfig == [enabled |-> "flag", client_ca_file |-> "str", client_auth_type |-> "str",
               verify_client_cert |-> "flag", identity_source |-> "str"]
EnforcementConfig == [action |-> "str", queue_depth |-> "num", queue_timeout |-> "num"]
LimitsSQLiteConfig == [path |-> "str", snapshot_interval |-> "num"]
LimitsMemoryConfig == [max_entries |-> "num", cleanup_interval |-> "num"]

Schema == [proxy |-> ProxyConfig, cors |-> CORSConfig, policy |-> PolicyConfig, validation |-> PolicyValidationConfig,
    evidence |-> EvidenceConfig, sqlite |-> SQLiteConfig, recorder |-> RecorderConfig, retention |-> RetentionConfig,
    query |-> QueryConfig, export |-> ExportConfig, postgres |-> PostgresConfig, s3 |-> S3Config,
    logging |-> LoggingConfig, metrics |-> MetricsConfig, tracing |-> TracingConfig, health |-> HealthConfig,
    tokens |-> TokensConfig, costs |-> [pricing |-> "list"], pii |-> [types |-> "list"],
    sensitive |-> SensitiveConfig, injection |-> InjectionConfig, conversation |-> ConversationConfig,
    tls |-> TLSConfig, mtls |-> MTLSConfig, budgets |-> [enabled |-> "flag", alert_threshold |-> "num"],
    rate_limits |-> [enabled |-> "flag"], enforcement |-> EnforcementConfig, storage |-> [backend |-> "str"],
    limits_sqlite |-> LimitsSQLiteConfig, limits_memory |-> LimitsMemoryConfig]

ZeroValue == [str |-> "", num |-> 0, flag |-> FALSE, list |-> <<>>]
Field(c, s, f) == IF <<s, f>> \in DOMAIN c.set THEN c.set[<<s, f>>] ELSE ZeroValue[Schema[s][f]]
ProviderField(p, f) == IF f \in DOMAIN p THEN p[f] ELSE ZeroValue[ProviderConfig[f]]

(* Settings that take precedence over others.                               *)
Overlay(f, g) == [x \in DOMAIN f \cup DOMAIN g |-> IF x \in DOMAIN f THEN f[x] ELSE g[x]]

(* A table of sections as settings.                                         *)
Flat(t) == LET keys == UNION {{<<s, f>> : f \in DOMAIN t[s]} : s \in DOMAIN t} IN [k \in keys |-> t[k[1]][k[2]]]
NonZero(set) == Restrict(set, {k \in DOMAIN set : set[k] # ZeroValue[Schema[k[1]][k[2]]]})

-----------------------------------------------------------------------------
(* ApplyDefaults: what is zero takes its default.  A flag whose default is  *)
(* true can therefore not be switched off.                                  *)
ProxyDefaults == [listen_address |-> "127.0.0.1:8080", read_timeout |-> 30, write_timeout |-> 30, idle_timeout |-> 120,
                  max_header_bytes |-> 1048576, shutdown_timeout |-> 30]
PolicyDefaults == [mode |-> "file", file_path |-> "./policies.yaml", git_branch |-> "main", git_path |-> "policies.yaml"]
ProviderDefaults == [timeout |-> 60, max_retries |-> 3]
SQLiteDefaults == [path |-> "data/evidence.db", max_open_conns |-> 10, max_idle_conns |-> 5, wal_mode |-> TRUE,
                   busy_timeout |-> 5]
RecorderDefaults == [async_buffer |-> 1000, write_timeout |-> 5, hash_request |-> TRUE, hash_response |-> TRUE,
                     redact_api_keys |-> TRUE, max_field_length |-> 500]
RetentionDefaults == [days |-> 90, prune_schedule |-> "0 3 * * *", archive_path |-> "data/archives/"]
QueryDefaults == [default_limit |-> 100, max_limit |-> 10000, timeout |-> 30]
ExportDefaults == [json_pretty |-> TRUE, csv_include_header |-> TRUE, max_export_size |-> 1000000]
PostgresDefaults == [port |-> 5432, ssl_mode |-> "require"]
EvidenceDefaults == [evidence |-> [backend |-> "sqlite"], sqlite |-> SQLiteDefaults, recorder |-> RecorderDefaults,
    retention |-> RetentionDefaults, query |-> QueryDefaults, export |-> ExportDefaults, postgres |-> PostgresDefaults]
TelemetryDefaults == [logging |-> [level |-> "info", format |-> "json"], metrics |-> [path |-> "/metrics"],
    tracing |-> [sample_ratio |-> 100]]
TokensDefaults == [estimator |-> "simple", cache_size |-> 100, models |-> <<"chars per token">>]
SensitiveDefaults == [severity_threshold |-> "medium", categories |-> <<"categories">>]
InjectionDefaults == [confidence_threshold |-> 70, patterns |-> <<"patterns">>]
ConversationDefaults == [warn_threshold |-> 80, max_context_window |-> <<"windows">>]
ProcessingDefaults == [tokens |-> TokensDefaults, costs |-> [pricing |-> <<"prices">>], pii |-> [types |-> <<"pii">>],
    sensitive |-> SensitiveDefaults, injection |-> InjectionDefaults, conversation |-> ConversationDefaults]
EnforcementDefaults == [action |-> "block", queue_depth |-> 100, queue_timeout |-> 30]
LimitsSQLiteDefaults == [path |-> "/var/lib/mercator/limits.db", snapshot_interval |-> 300]
LimitsMemoryDefaults == [max_entries |-> 100000, cleanup_interval |-> 60]
LimitsDefaults == [budgets |-> [alert_threshold |-> 80], enforcement |-> EnforcementDefaults,
    storage |-> [backend |-> "memory"], limits_sqlite |-> LimitsSQLiteDefaults, limits_memory |-> LimitsMemoryDefaults]

CORSDefaults == [allowed_origins |-> <<"*">>, allowed_methods |-> <<"methods">>, allowed_headers |-> <<"headers">>,
                 exposed_headers |-> <<"X-Request-ID">>, max_age |-> 3600]

corsConfigured(c) ==
    \/ \E f \in {"allowed_origins", "allowed_methods", "allowed_headers", "exposed_headers"} : Field(c, "cors", f) # <<>>
    \/ Field(c, "cors", "max_age") > 0
applyCORSDefaults(c) ==
    Flat([cors |-> IF corsConfigured(c) THEN CORSDefaults ELSE Overlay(CORSDefaults, [enabled |-> TRUE])])

BaseDefaults == Overlay(Flat([proxy |-> ProxyDefaults, policy |-> PolicyDefaults]),
    Overlay(Flat(EvidenceDefaults), Overlay(Flat(TelemetryDefaults), Overlay(Flat(ProcessingDefaults), Flat(LimitsDefaults)))))
applyProviderDefaults(p) ==
    Overlay(Restrict(p, {f \in DOMAIN p : p[f] # ZeroValue[ProviderConfig[f]]}), ProviderDefaults)
Changed(c, set, providers) == [c EXCEPT !.set = set, !.providers = providers]
ApplyDefaults(c) ==
    Changed(c, Overlay(NonZero(c.set), Overlay(BaseDefaults, applyCORSDefaults(c))),
               [n \in DOMAIN c.providers |-> applyProviderDefaults(c.providers[n])])

-----------------------------------------------------------------------------
(* Validate: the fields in error.                                           *)
MaxPort == 65535
MaxRetentionDays == 3650
MaxQueueDepth == 100000
Required(c, s, fs) == {<<s, f>> : f \in {f \in fs : Field(c, s, f) = ""}}
NonNegative(c, s, fs) == {<<s, f>> : f \in {f \in fs : Field(c, s, f) < 0}}
AtMost(c, s, f, limit) == {<<s, f>> : x \in {x \in {f} : Field(c, s, x) > limit}}
OneOf(c, s, f, values) == {<<s, f>> : x \in {x \in {f} : Field(c, s, x) \notin values}}
When(condition, errors) == IF condition THEN errors ELSE {}

validateProxy(c) == Required(c, "proxy", {"listen_address"})
    \cup NonNegative(c, "proxy", {"read_timeout", "write_timeout", "idle_timeout", "max_header_bytes"})
    \cup AtMost(c, "proxy", "max_header_bytes", 10485760)
validateProviders(c) == When(DOMAIN c.providers = {}, {<<"providers", "none">>})
    \cup {<<"providers", n>> : n \in {n \in DOMAIN c.providers : LET p == c.providers[n] IN
            \/ ProviderField(p, "base_url") \in {"", "malformed"} \/ ProviderField(p, "timeout") < 0
            \/ ProviderField(p, "max_retries") \notin 0..10}}
validatePolicy(c) == OneOf(c, "policy", "mode", {"file", "git"})
    \cup When(Field(c, "policy", "mode") = "file", Required(c, "policy", {"file_path"}))
    \cup When(Field(c, "policy", "mode") = "git", Required(c, "policy", {"git_repo", "git_branch", "git_path"}))
validateEvidence(c) ==
    LET backend == Field(c, "evidence", "backend") IN
    When(Field(c, "evidence", "enabled"), OneOf(c, "evidence", "backend", {"sqlite", "postgres", "s3"})
        \cup When(backend = "sqlite", Required(c, "sqlite", {"path"}))
        \cup When(backend = "postgres", Required(c, "postgres", {"host", "database", "user"})
                 \cup OneOf(c, "postgres", "port", 1..MaxPort)
                 \cup OneOf(c, "postgres", "ssl_mode", {"disable", "require", "verify-ca", "verify-full"}))
        \cup When(backend = "s3", Required(c, "s3", {"bucket", "region"}))
        \cup OneOf(c, "retention", "days", 0..MaxRetentionDays))
(* A path is "" or starts with a slash, except the ones called "relative".  *)
validateTelemetry(c) ==
    LET paths == {"liveness_path", "readiness_path", "version_path"} IN
    OneOf(c, "logging", "level", {"debug", "info", "warn", "error"}) \cup OneOf(c, "logging", "format", {"json", "text"})
    \cup When(Field(c, "metrics", "enabled"), Required(c, "metrics", {"path"}))
    \cup When(Field(c, "tracing", "enabled"), Required(c, "tracing", {"endpoint"}))
    \cup OneOf(c, "tracing", "sample_ratio", 0..100)
    \cup When(Field(c, "health", "enabled"), Required(c, "health", paths)
             \cup {<<"health", f>> : f \in {f \in paths : Field(c, "health", f) = "relative"}}
             \cup OneOf(c, "health", "check_timeout", 0..60) \cup NonNegative(c, "health", {"min_healthy_providers"}))

validateBudgetLimits(id, b) == {<<"budgets", id>> : x \in {x \in {id} :
    \/ b.hourly < 0 \/ b.daily < 0 \/ b.monthly < 0
    \/ b.hourly > 0 /\ b.daily > 0 /\ b.hourly > b.daily
    \/ b.daily > 0 /\ b.monthly > 0 /\ b.daily > b.monthly}}
validateRateLimits(id, r) == {<<"rate_limits", id>> : x \in {x \in {id} :
    \/ \E f \in DOMAIN r : r[f] < 0
    \/ r.requests_per_second > 100000 \/ r.tokens_per_minute > 10000000 \/ r.max_concurrent > 10000}}

(* Follows the downgrades from model, remembering what it has met, until    *)
(* it is at a model that it has met or that has no downgrade.               *)
DowngradeWalk(model, downgrades) ==
    LET walk[n \in Nat] ==
            IF n = 0 THEN [at |-> model, visited |-> {}]
            ELSE LET w == walk[n - 1] IN
                 IF w.at \in w.visited \/ w.at \notin DOMAIN downgrades THEN w
                 ELSE [at |-> downgrades[w.at], visited |-> w.visited \cup {w.at}]
    IN  walk
checkCircularDowngrade(model, downgrades) ==
    LET end == DowngradeWalk(model, downgrades)[Cardinality(DOMAIN downgrades) + 1] IN end.at \in end.visited
validateEnforcement(c) ==
    When(Field(c, "enforcement", "action") # "", OneOf(c, "enforcement", "action", {"block", "queue", "downgrade", "alert"}))
    \cup OneOf(c, "enforcement", "queue_depth", 0..MaxQueueDepth) \cup NonNegative(c, "enforcement", {"queue_timeout"})
    \cup {<<"enforcement", "model_downgrades">> : m \in {m \in DOMAIN c.downgrades : checkCircularDowngrade(m, c.downgrades)}}
validateLimitsStorage(c) ==
    OneOf(c, "storage", "backend", {"memory", "sqlite"})
    \cup When(Field(c, "storage", "backend") = "sqlite",
              Required(c, "limits_sqlite", {"path"}) \cup NonNegative(c, "limits_sqlite", {"snapshot_interval"}))
    \cup When(Field(c, "storage", "backend") = "memory", NonNegative(c, "limits_memory", {"max_entries", "cleanup_interval"}))
validateLimits(c) ==
    When(Field(c, "budgets", "enabled"), OneOf(c, "budgets", "alert_threshold", 0..100)
        \cup UNION {validateBudgetLimits(id, c.budgets[id]) : id \in DOMAIN c.budgets})
    \cup When(Field(c, "rate_limits", "enabled"), UNION {validateRateLimits(id, c.rates[id]) : id \in DOMAIN c.rates})
    \cup validateEnforcement(c) \cup validateLimitsStorage(c)
validateSecurity(c) ==
    When(Field(c, "tls", "enabled"), Required(c, "tls", {"cert_file", "key_file"}))
    \cup When(Field(c, "mtls", "enabled"), Required(c, "mtls", {"client_ca_file"})
             \cup When(~Field(c, "tls", "enabled"), {<<"mtls", "enabled">>}))

Validate(c) == validateProxy(c) \cup validateProviders(c) \cup validatePolicy(c) \cup validateEvidence(c)
    \cup validateLimits(c) \cup validateTelemetry(c) \cup validateSecurity(c)

-----------------------------------------------------------------------------
(* Environment variables: one per field below.  An empty variable counts as *)
(* unset; one that does not parse as a number, duration or flag is ignored. *)
EnvFields == Flat([proxy |-> [listen_address |-> 1, read_timeout |-> 1, write_timeout |-> 1, idle_timeout |-> 1, max_header_bytes |-> 1],
    policy |-> PolicyConfig, validation |-> PolicyValidationConfig, evidence |-> EvidenceConfig, sqlite |-> [path |-> 1],
    postgres |-> PostgresConfig, s3 |-> S3Config, retention |-> [days |-> 1], logging |-> [level |-> 1, format |-> 1],
    metrics |-> [enabled |-> 1, path |-> 1], tracing |-> [enabled |-> 1, endpoint |-> 1, sample_ratio |-> 1],
    tls |-> [enabled |-> 1, cert_file |-> 1, key_file |-> 1], mtls |-> [enabled |-> 1, client_ca_file |-> 1]])
Parses(k, env) == k \notin env.garbage

applyProviderEnvOverrides(c, env) ==
    LET name == env.provider
        override == [f \in {f \in DOMAIN env.providerSet : <<name, f>> \notin env.garbage} |-> env.providerSet[f]]
    IN  IF override = <<>> THEN c.providers
        ELSE LET p == IF name \in DOMAIN c.providers THEN c.providers[name] ELSE <<>>
             IN  Overlay([n \in {name} |-> Overlay(override, p)], c.providers)

applyEnvOverrides(c, env) ==
    LET override == Restrict(env.set, {k \in DOMAIN env.set \cap DOMAIN EnvFields : Parses(k, env)})
    IN  Changed(c, Overlay(override, c.set), applyProviderEnvOverrides(c, env))

Failed == [failed |-> TRUE]
Loaded(c) == [failed |-> FALSE, config |-> c]
LoadConfig(file) ==
    IF ~file.readable THEN Failed
    ELSE LET c == ApplyDefaults(file.config) IN IF Validate(c) # {} THEN Failed ELSE Loaded(c)
(* Faulty variant: the overrides are trusted.                               *)
LoadConfigWithEnvUnchecked(file, env) ==
    LET first == LoadConfig(file) IN
    IF first.failed THEN Failed ELSE Loaded(applyEnvOverrides(first.config, env))

LoadConfigWithEnvOverrides(file, env) ==
    LET first == LoadConfig(file) IN
    IF first.failed THEN Failed
    ELSE LET c == applyEnvOverrides(first.config, env) IN IF Validate(c) # {} THEN Failed ELSE Loaded(c)

-----------------------------------------------------------------------------
Unset == [none |-> TRUE]
ConfigInit ==
    /\ configFile \in ConfigFiles /\ environ \in Environments
    /\ globalConfig = Unset /\ initDone = FALSE /\ rewrites = 0
    /\ loader = [l \in Loaders |-> [at |-> "idle", loaded |-> Failed, told |-> "nothing"]]

(* once.Do: the first call loads and the others wait for it; a caller that  *)
(* finds it done returns nil, whatever the first call met.                  *)
Initialize(l) ==
    /\ loader[l].at = "idle"
    /\ \/ /\ initDone
          /\ loader' = [loader EXCEPT ![l].told = "nil"]
          /\ UNCHANGED initDone
       \/ /\ ~initDone /\ \A k \in Loaders : loader[k].at # "initialize"
          /\ loader' = [loader EXCEPT ![l].at = "initialize", ![l].loaded = LoadConfigWithEnvOverrides(configFile, environ)]
          /\ UNCHANGED initDone
    /\ UNCHANGED <<configFile, environ, globalConfig, rewrites>>

ReloadConfig(l) ==
    /\ loader[l].at = "idle"
    /\ loader' = [loader EXCEPT ![l].at = "reload", ![l].loaded = LoadConfigWithEnvOverrides(configFile, environ)]
    /\ UNCHANGED <<configFile, environ, globalConfig, initDone, rewrites>>

(* Under configMutex: the configuration replaces the global one only if it  *)
(* was loaded.                                                              *)
StoreConfig(l) ==
    /\ loader[l].at \in {"initialize", "reload"}
    /\ globalConfig' = IF loader[l].loaded.failed THEN globalConfig ELSE loader[l].loaded.config
    /\ initDone' = (initDone \/ loader[l].at = "initialize")
    /\ loader' = [loader EXCEPT ![l] = [at |-> "idle", loaded |-> Failed, told |-> IF loader[l].loaded.failed THEN "error" ELSE "nil"]]
    /\ UNCHANGED <<configFile, environ, rewrites>>

RewriteConfig ==
    /\ rewrites < MaxRewrites /\ rewrites' = rewrites + 1
    /\ configFile' \in ConfigFiles
    /\ UNCHANGED <<environ, globalConfig, initDone, loader>>

ConfigNext == RewriteConfig \/ \E l \in Loaders : Initialize(l) \/ ReloadConfig(l) \/ StoreConfig(l)

-----------------------------------------------------------------------------
(* What the parts of the process need to start.                             *)
Startable(c) ==
    LET Set(s, f) == Field(c, s, f) # "" IN
    /\ c.providers # <<>>
    /\ \A n \in DOMAIN c.providers : ProviderField(c.providers[n], "base_url") \notin {"", "malformed"}
    /\ CASE Field(c, "policy", "mode") = "file" -> Set("policy", "file_path")
         [] Field(c, "policy", "mode") = "git" -> Set("policy", "git_repo") /\ Set("policy", "git_branch")
         [] OTHER -> FALSE
    /\ Field(c, "evidence", "enabled") =>
         CASE Field(c, "evidence", "backend") = "sqlite" -> Set("sqlite", "path")
           [] Field(c, "evidence", "backend") = "postgres" -> Set("postgres", "host") /\ Field(c, "postgres", "port") # 0
           [] Field(c, "evidence", "backend") = "s3" -> Set("s3", "bucket")
           [] OTHER -> FALSE
    /\ Field(c, "tls", "enabled") => Set("tls", "cert_file") /\ Set("tls", "key_file")
    /\ Field(c, "mtls", "enabled") => Field(c, "tls", "enabled") /\ Set("mtls", "client_ca_file")
DowngradesEnd(c) ==
    \A S \in SUBSET DOMAIN c.downgrades : S # {} => \E m \in S : c.downgrades[m] \notin S
BudgetsNest(c) ==
    Field(c, "budgets", "enabled") => \A id \in DOMAIN c.budgets : LET b == c.budgets[id] IN
        0 \notin {b.hourly, b.daily, b.monthly} => b.hourly <= b.daily /\ b.daily <= b.monthly
(***************************************************************************)
(* The configuration that GetConfig hands out, whatever the file and the    *)
(* environment held when it was loaded and however initialisation and       *)
(* reloads interleaved with edits of the file, is one the rest of the       *)
(* process can run on: there is a provider with an address; the policy      *)
(* source, the evidence backend and TLS have what they need to start; a     *)
(* client certificate is only asked for over TLS; following the downgrades  *)
(* of a model ends; the budgets of one window fit the larger window.  And   *)
(* defaults do not change a configuration they have been applied to.        *)
(* (config.Validate, LoadConfigWithEnvOverrides, ReloadConfig)              *)
(***************************************************************************)
ServedConfigurationIsSound ==
    globalConfig # Unset => /\ Startable(globalConfig) /\ DowngradesEnd(globalConfig) /\ BudgetsNest(globalConfig)
                            /\ LET d == ApplyDefaults(globalConfig) IN ApplyDefaults(d) = d
=============================================================================
