------------------------------ MODULE Secrets ------------------------------
(***************************************************************************)
(* The secrets manager (pkg/security/secrets) with a file provider that     *)
(* watches its directory and an environment provider behind it.             *)
(*                                                                         *)
(* A lookup takes the locks of the two caches one at a time and reads the   *)
(* file between them, so it is several steps; the watcher and Refresh clear *)
(* the caches in between.  The content of a file is a version, 0 while      *)
(* there is no file.                                                        *)
(***************************************************************************)
EXTENDS Integers, FiniteSets, Functions, FiniteSetsExt

CONSTANTS
    SecretNames,
    EnvSecrets,         \* the names the environment defines
    Lookups,            \* concurrent callers of GetSecret
    MaxVersion,         \* bound on rewrites of a file
    SecretTTL, SecretCacheSize,
    SecretHorizon       \* bound on the clock

VARIABLES
    secretFiles,    \* name -> version
    fileCache,      \* FileProvider.cache
    secretCache,    \* Manager.cache: name -> [value, expires]
    events,         \* kinds of file events the watcher has still to see
    watcher,        \* watchLoop: "idle", "refreshing", "stopped"
    refresher,      \* Manager.Refresh: "idle", "clearing"
    lookups,        \* caller -> [at, name, value]
    secretClock,
    straddled       \* ghost: names whose lookup held a value while fileCache was cleared

secretVars == <<secretFiles, fileCache, secretCache, events, watcher, refresher, lookups, secretClock, straddled>>

Asleep == [at |-> "idle", name |-> "", value |-> 0]
FromEnv == 0 - 1

SecretsInit ==
    /\ secretFiles = [n \in SecretNames |-> 1] /\ fileCache = <<>> /\ secretCache = <<>>
    /\ events = {} /\ watcher = "idle" /\ refresher = "idle"
    /\ lookups = [g \in Lookups |-> Asleep] /\ secretClock = 0 /\ straddled = {}

-----------------------------------------------------------------------------
(* Cache.Get and Cache.Set.  At its size Set makes room even for a key that *)
(* is there.                                                                *)
CacheHit(n) == n \in DOMAIN secretCache /\ secretClock <= secretCache[n].expires
CacheSet(n, v) ==
    LET full == Cardinality(DOMAIN secretCache) >= SecretCacheSize
        oldest == {k \in DOMAIN secretCache : \A j \in DOMAIN secretCache : secretCache[k].expires <= secretCache[j].expires}
        victims == IF full /\ oldest # {} THEN {{k} : k \in oldest} ELSE {{}} IN
    \E gone \in victims :
        secretCache' = [k \in (DOMAIN secretCache \ gone) \cup {n} |->
                           IF k = n THEN [value |-> v, expires |-> secretClock + SecretTTL] ELSE secretCache[k]]

To(g, at, name, value) == lookups' = [lookups EXCEPT ![g] = [at |-> at, name |-> name, value |-> value]]

(* Manager.GetSecret: the providers in turn, the file provider first.  The  *)
(* environment provider supports every name.                                *)
GetSecret(g, n) ==
    /\ lookups[g].at = "idle" /\ ~CacheHit(n)
    /\ To(g, "asking", n, 0)
    /\ UNCHANGED <<secretFiles, fileCache, secretCache, events, watcher, refresher, secretClock, straddled>>

NextProvider(g, n) == IF n \in EnvSecrets THEN To(g, "got", n, FromEnv) ELSE lookups' = [lookups EXCEPT ![g] = Asleep]

FileSupports(g) ==
    LET n == lookups[g].name IN
    /\ lookups[g].at = "asking"
    /\ IF secretFiles[n] = 0 THEN NextProvider(g, n) ELSE To(g, "supported", n, 0)
    /\ UNCHANGED <<secretFiles, fileCache, secretCache, events, watcher, refresher, secretClock, straddled>>
FileGetSecret(g) ==
    LET n == lookups[g].name IN
    /\ lookups[g].at = "supported"
    /\ IF n \in DOMAIN fileCache THEN To(g, "got", n, fileCache[n]) ELSE To(g, "reading", n, 0)
    /\ UNCHANGED <<secretFiles, fileCache, secretCache, events, watcher, refresher, secretClock, straddled>>

(* The file may be gone by now, or its permissions too wide.                *)
ReadSecretFile(g) ==
    LET n == lookups[g].name IN
    /\ lookups[g].at = "reading"
    /\ \/ NextProvider(g, n)
       \/ secretFiles[n] # 0 /\ To(g, "read", n, secretFiles[n])
    /\ UNCHANGED <<secretFiles, fileCache, secretCache, events, watcher, refresher, secretClock, straddled>>
CacheFile(g) ==
    LET n == lookups[g].name IN
    /\ lookups[g].at = "read"
    /\ fileCache' = [k \in DOMAIN fileCache \cup {n} |-> IF k = n THEN lookups[g].value ELSE fileCache[k]]
    /\ To(g, "got", n, lookups[g].value)
    /\ UNCHANGED <<secretFiles, secretCache, events, watcher, refresher, secretClock, straddled>>
CacheSecret(g) ==
    /\ lookups[g].at = "got"
    /\ CacheSet(lookups[g].name, lookups[g].value)
    /\ lookups' = [lookups EXCEPT ![g] = Asleep]
    /\ UNCHANGED <<secretFiles, fileCache, events, watcher, refresher, secretClock, straddled>>

-----------------------------------------------------------------------------
(* FileProvider.Refresh, from the watcher or from Manager.Refresh.          *)
ClearFileCache ==
    /\ fileCache' = <<>>
    /\ straddled' = {lookups[g].name : g \in {h \in Lookups : lookups[h].at = "read"}}

watchLoopWrites ==   \* faulty: a file renamed into place is not noticed
    /\ watcher = "idle"
    /\ \E e \in events : events' = events \ {e} /\ watcher' = IF e = "write" THEN "refreshing" ELSE "idle"
    /\ UNCHANGED <<secretFiles, fileCache, secretCache, refresher, lookups, secretClock, straddled>>
watchLoop ==
    /\ watcher = "idle"
    /\ \E e \in events : events' = events \ {e} /\ watcher' = IF e \in {"write", "create"} THEN "refreshing" ELSE "idle"
    /\ UNCHANGED <<secretFiles, fileCache, secretCache, refresher, lookups, secretClock, straddled>>
WatcherRefreshes ==
    /\ watcher = "refreshing" /\ watcher' = "idle"
    /\ ClearFileCache
    /\ UNCHANGED <<secretFiles, secretCache, events, refresher, lookups, secretClock>>
CloseWatcher ==
    /\ watcher = "idle" /\ watcher' = "stopped" /\ events' = {}
    /\ UNCHANGED <<secretFiles, fileCache, secretCache, refresher, lookups, secretClock, straddled>>

RefreshSecrets ==
    /\ refresher = "idle" /\ refresher' = "clearing"
    /\ ClearFileCache
    /\ UNCHANGED <<secretFiles, secretCache, events, watcher, lookups, secretClock>>
ClearSecretCache ==
    /\ refresher = "clearing" /\ refresher' = "idle"
    /\ secretCache' = <<>>
    /\ UNCHANGED <<secretFiles, fileCache, events, watcher, lookups, secretClock, straddled>>

(* A file is rewritten in place, replaced by a rename, or removed; once it  *)
(* is closed the fsnotify watcher tells nobody.                             *)
Notify(kind) == events' = IF watcher = "stopped" THEN {} ELSE events \cup {kind}
Rewrite(n, kind) ==
    /\ secretFiles[n] < MaxVersion
    /\ secretFiles' = [secretFiles EXCEPT ![n] = @ + 1] /\ Notify(kind)
    /\ UNCHANGED <<fileCache, secretCache, watcher, refresher, lookups, secretClock, straddled>>
RemoveSecretFile(n) ==
    /\ secretFiles[n] # 0
    /\ secretFiles' = [secretFiles EXCEPT ![n] = 0] /\ Notify("remove")
    /\ UNCHANGED <<fileCache, secretCache, watcher, refresher, lookups, secretClock, straddled>>
SecretTick ==
    /\ secretClock < SecretHorizon /\ secretClock' = secretClock + 1
    /\ UNCHANGED <<secretFiles, fileCache, secretCache, events, watcher, refresher, lookups, straddled>>

SecretsNext ==
    \/ \E g \in Lookups : \/ \E n \in SecretNames : GetSecret(g, n)
                          \/ FileSupports(g) \/ FileGetSecret(g) \/ ReadSecretFile(g) \/ CacheFile(g) \/ CacheSecret(g)
    \/ watchLoop \/ WatcherRefreshes \/ CloseWatcher \/ RefreshSecrets \/ ClearSecretCache
    \/ \E n \in SecretNames : Rewrite(n, "write") \/ Rewrite(n, "create") \/ RemoveSecretFile(n)
    \/ SecretTick

-----------------------------------------------------------------------------
(* The file provider's cache has no expiry, so it may disagree with a file  *)
(* that is there only while the watcher still has the news before it, or    *)
(* when a lookup that had read the old content stored it after the cache    *)
(* was cleared, or when the watcher is stopped (file.go:98-170, 221-258).   *)
SecretsFollowFiles ==
    \A n \in DOMAIN fileCache :
        secretFiles[n] \notin {0, fileCache[n]}
            => events \cap {"write", "create"} # {} \/ watcher # "idle" \/ n \in straddled
=============================================================================
