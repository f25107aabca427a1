----------------------------- MODULE StickyCache -----------------------------
(***************************************************************************)
(* The sticky routing cache (pkg/routing/cache.go): TTL, LRU eviction, a   *)
(* cleanup goroutine, and a Get that reads under the read lock, unlocks,   *)
(* and updates the access time under the write lock.                       *)
(*                                                                         *)
(* CreatedAt and AccessCount are written and never read; they are left     *)
(* out.  MaxEntries is positive: 0 would mean no limit.                    *)
(***************************************************************************)
EXTENDS Integers, FiniteSets, Clock

CONSTANTS
    Keys, Providers,
    Readers,        \* goroutines that call Get
    TTL,            \* c.ttl, positive: entries expire
    MaxEntries,     \* c.maxEntries
    CacheHorizon,        \* bound on the clock
    MaxSets,        \* bound on the calls of Set
    NoProvider,     \* not a provider
    NoKey           \* not a key

ASSUME CacheAssumption ==
    /\ IsFiniteSet(Keys)
    /\ NoProvider \notin Providers
    /\ NoKey \notin Keys
    /\ TTL \in Nat \ {0}
    /\ MaxEntries \in Nat \ {0}
    /\ CacheHorizon \in Nat /\ MaxSets \in Nat

VARIABLES
    entries,    \* key -> [provider, expires, access], or NoEntry
    touching,   \* reader -> key whose access time it is about to update
    cleaner,    \* the goroutine of cleanupExpired
    sets        \* history: calls of Set

cacheVars == <<now, entries, touching, cleaner, sets>>

NoEntry == [provider |-> NoProvider, expires |-> 0, access |-> 0]
Entry == [provider : Providers, expires : Nat, access : Nat]

(* The entries of the cache, its readers and its cleaner keep their types. *)
CacheTypeOK ==
    /\ now \in 0..CacheHorizon
    /\ entries \in [Keys -> Entry \cup {NoEntry}]
    /\ touching \in [Readers -> Keys \cup {NoKey}]
    /\ cleaner \in {"running", "stopped"}
    /\ sets \in Nat

Present == {k \in Keys : entries[k] # NoEntry}
Expired(k) == now > entries[k].expires

CacheInit ==
    /\ now = 0
    /\ entries = [k \in Keys |-> NoEntry]
    /\ touching = [r \in Readers |-> NoKey]
    /\ cleaner = "running"
    /\ sets = 0

-----------------------------------------------------------------------------
(* Faulty: evictLRU only when the cache is already over its limit *)
FullOffByOne == Cardinality(Present) > MaxEntries

Full == Cardinality(Present) >= MaxEntries

(* Faulty: the second half of Get puts back the provider it has read *)
TouchRevives(r) ==
    /\ touching[r] # NoKey
    /\ entries' = [entries EXCEPT ![touching[r]] =
                     IF touching[r] \in Present \/ Full THEN @
                     ELSE [provider |-> CHOOSE p \in Providers : TRUE,
                           expires |-> now + TTL, access |-> now]]
    /\ touching' = [touching EXCEPT ![r] = NoKey]
    /\ UNCHANGED <<now, cleaner, sets>>

-----------------------------------------------------------------------------
(* Get, under the read lock: a miss (absent or expired) returns at once    *)
(* and changes nothing; a hit returns the provider after Touch.            *)
GetHit(r, k) ==
    /\ touching[r] = NoKey
    /\ k \in Present /\ ~Expired(k)
    /\ touching' = [touching EXCEPT ![r] = k]
    /\ UNCHANGED <<now, entries, cleaner, sets>>

(* Get, under the write lock: the entry may be gone or another by now. *)
Touch(r) ==
    /\ touching[r] # NoKey
    /\ entries' = [entries EXCEPT ![touching[r]] =
                     IF touching[r] \in Present THEN [@ EXCEPT !.access = now] ELSE @]
    /\ touching' = [touching EXCEPT ![r] = NoKey]
    /\ UNCHANGED <<now, cleaner, sets>>

(* evictLRU: one of the entries that were accessed least recently; the     *)
(* map is walked in no particular order.                                   *)
Oldest == {k \in Present : \A j \in Present : entries[k].access <= entries[j].access}

Set(k, p) ==
    LET new == [provider |-> p, expires |-> now + TTL, access |-> now]
    IN  /\ \/ /\ Full /\ k \notin Present
              /\ \E victim \in Oldest :
                    entries' = [entries EXCEPT ![victim] = NoEntry, ![k] = new]
           \/ /\ ~Full \/ k \in Present
              /\ entries' = [entries EXCEPT ![k] = new]
        /\ sets' = sets + 1
        /\ UNCHANGED <<now, touching, cleaner>>

Delete(k) ==
    /\ k \in Present
    /\ entries' = [entries EXCEPT ![k] = NoEntry]
    /\ UNCHANGED <<now, touching, cleaner, sets>>

Clear ==
    /\ entries' = [k \in Keys |-> NoEntry]
    /\ UNCHANGED <<now, touching, cleaner, sets>>

(* removeExpired, at a tick of the cleanup goroutine *)
RemoveExpired ==
    /\ cleaner = "running"
    /\ entries' = [k \in Keys |-> IF k \in Present /\ Expired(k) THEN NoEntry ELSE entries[k]]
    /\ UNCHANGED <<now, touching, cleaner, sets>>

Close ==
    /\ cleaner = "running"
    /\ cleaner' = "stopped"
    /\ UNCHANGED <<now, entries, touching, sets>>

CacheTick ==
    /\ now < CacheHorizon
    /\ now' = now + 1
    /\ UNCHANGED <<entries, touching, cleaner, sets>>

CacheNext ==
    \/ \E r \in Readers, k \in Keys : GetHit(r, k)
    \/ \E r \in Readers : Touch(r)
    \/ \E k \in Keys, p \in Providers : sets < MaxSets /\ Set(k, p)
    \/ \E k \in Keys : Delete(k)
    \/ Clear
    \/ RemoveExpired
    \/ Close
    \/ CacheTick

CacheSpec == CacheInit /\ [][CacheNext]_cacheVars

-----------------------------------------------------------------------------
(* Properties *)

(* Set evicts in time: the cache never grows past its limit, whatever      *)
(* expires, is deleted or is set again in between.                         *)
SizeBounded == Cardinality(Present) <= MaxEntries

Affinity == INSTANCE AffinityMap
                WITH assigned <- [k \in Keys |-> entries[k].provider],
                     puts <- sets, Bound <- MaxEntries

(* The cache is an affinity map.  In particular the second half of Get     *)
(* neither revives an assignment that was deleted, evicted or cleared in   *)
(* the meantime nor changes the provider that a Set put there.             *)
ImplementsAffinity == Affinity!Spec
=============================================================================
