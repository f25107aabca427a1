--------------------------- MODULE LimitsStorage ---------------------------
(***************************************************************************)
(* The two backends for limit states (pkg/limits/storage), driven with the  *)
(* same calls: an in-memory map with a bound, eviction and a cleanup loop,  *)
(* and a SQLite table that keeps times in whole seconds.  Every operation   *)
(* holds the backend's mutex.  Time is in half seconds.                     *)
(***************************************************************************)
EXTENDS Integers, FiniteSets, Functions

CONSTANTS
    StateKeys,          \* pairs [identifier, dimension]
    Payloads,           \* limiter states; "nil" is one of them
    MaxStates,          \* maxEntries of the memory backend
    Retention,          \* its retention period
    StorageHorizon      \* bound on the clock

ASSUME StorageAssumption ==
    MaxStates \in Nat \ {0} /\ Retention \in Nat /\ StorageHorizon \in Nat

VARIABLES
    memStates,      \* key -> [payload, updated, created]
    sqlStates,      \* the same, with the times in seconds
    storageClock,
    forgotten,      \* ghost: keys only the memory backend has dropped
    overwritten     \* ghost: keys whose row was there when they were last saved

storageVars == <<memStates, sqlStates, storageClock, forgotten, overwritten>>

StorageInit == /\ memStates = <<>> /\ sqlStates = <<>> /\ storageClock = 1
               /\ forgotten = {} /\ overwritten = {}

Unix(t) == t \div 2
Put(f, k, v) == [x \in DOMAIN f \cup {k} |-> IF x = k THEN v ELSE f[x]]
Drop(f, S) == Restrict(f, DOMAIN f \ S)

-----------------------------------------------------------------------------
(* evictOldestLocked: one of those with the least LastUpdated.              *)
evictOldest == {k \in DOMAIN memStates : \A j \in DOMAIN memStates : memStates[k].updated <= memStates[j].updated}

(* Save.  A state without a time gets the present one, one with a time      *)
(* keeps it.  At its bound the memory backend evicts first, also when the   *)
(* key is there already; it takes the new state with both its times.  The   *)
(* table keeps the created_at of the row that is there.                     *)
memorySave(k, payload, updated, created) ==
    \E gone \in IF Cardinality(DOMAIN memStates) >= MaxStates THEN {{v} : v \in evictOldest} ELSE {{}} :
        /\ memStates' = Put(Drop(memStates, gone), k, [payload |-> payload, updated |-> updated, created |-> created])
        /\ forgotten' = (forgotten \cup gone) \ {k}
KeptCreated(k, created) == IF k \in DOMAIN sqlStates THEN sqlStates[k].created ELSE Unix(created)
sqliteSaveOnce(k, payload, updated, created) ==   \* faulty: a conflict keeps the row
    sqlStates' = IF k \in DOMAIN sqlStates THEN sqlStates
                 ELSE Put(sqlStates, k, [payload |-> payload, updated |-> Unix(updated), created |-> Unix(created)])
sqliteSave(k, payload, updated, created) ==
    sqlStates' = Put(sqlStates, k, [payload |-> payload, updated |-> Unix(updated), created |-> KeptCreated(k, created)])
Stamp(time) == IF time = 0 THEN storageClock ELSE time
SaveState(k, payload, updated, created) ==
    /\ memorySave(k, payload, Stamp(updated), Stamp(created)) /\ sqliteSave(k, payload, Stamp(updated), Stamp(created))
    /\ overwritten' = IF k \in DOMAIN sqlStates THEN overwritten \cup {k} ELSE overwritten \ {k}
    /\ UNCHANGED storageClock

DeleteState(k) ==
    /\ memStates' = Drop(memStates, {k}) /\ sqlStates' = Drop(sqlStates, {k})
    /\ forgotten' = forgotten \ {k} /\ overwritten' = overwritten \ {k}
    /\ UNCHANGED storageClock

(* Cleanup compares times, or whole seconds.                                *)
memoryOld(olderThan) == {k \in DOMAIN memStates : memStates[k].updated < olderThan}
sqliteOld(olderThan) == {k \in DOMAIN sqlStates : sqlStates[k].updated < Unix(olderThan)}
CleanupStates(olderThan) ==
    /\ memStates' = Drop(memStates, memoryOld(olderThan)) /\ sqlStates' = Drop(sqlStates, sqliteOld(olderThan))
    /\ forgotten' = (forgotten \cup {k \in memoryOld(olderThan) : Unix(memStates[k].updated) = Unix(olderThan)})
                      \ sqliteOld(olderThan)
    /\ overwritten' = overwritten \ sqliteOld(olderThan)
    /\ UNCHANGED storageClock

(* cleanupLoop: the memory backend's own.                                   *)
cleanupLoop ==
    LET old == memoryOld(storageClock - Retention) IN
    /\ old # {}
    /\ memStates' = Drop(memStates, old) /\ forgotten' = forgotten \cup old
    /\ UNCHANGED <<sqlStates, storageClock, overwritten>>

StorageTick ==
    /\ storageClock < StorageHorizon /\ storageClock' = storageClock + 1
    /\ UNCHANGED <<memStates, sqlStates, forgotten, overwritten>>

(* The times of a state to save: none, as persistState passes it, or old    *)
(* ones, as in a state that was loaded before.                              *)
Times == {[updated |-> 0, created |-> 0], [updated |-> 1, created |-> 1]}

StorageNext ==
    \/ \E k \in StateKeys, p \in Payloads, t \in Times : SaveState(k, p, t.updated, t.created)
    \/ \E k \in StateKeys : DeleteState(k)
    \/ \E t \in 1..storageClock : CleanupStates(t)
    \/ cleanupLoop \/ StorageTick

-----------------------------------------------------------------------------
(* Load and List: a row with an empty column is a state without that part.  *)
Nothing == [payload |-> "nothing", updated |-> 0, created |-> 0]
memoryLoad(k) == IF k \in DOMAIN memStates THEN [memStates[k] EXCEPT !.updated = Unix(@), !.created = Unix(@)] ELSE Nothing
sqliteLoad(k) == IF k \in DOMAIN sqlStates THEN sqlStates[k] ELSE Nothing
memoryList(d) == {k \in DOMAIN memStates : k.dimension = d}
sqliteList(d) == {k \in DOMAIN sqlStates : k.dimension = d}
Gone(k) == memoryLoad(k) = Nothing /\ k \in forgotten
SameState(a, b) == a.payload = b.payload /\ a.updated = b.updated

(* To the second, the two backends answer Load and List alike, but for what *)
(* the memory backend has given up for want of room, by its own cleanup or  *)
(* by a cleanup within one second: eviction takes the oldest state and      *)
(* never leaves one that is out of date.  CreatedAt is the exception        *)
(* (memory.go:109-118, sqlite.go:139-142): of a state that was saved over,  *)
(* the memory backend answers with that of the last Save.                   *)
BackendsAgree ==
    /\ \A k \in StateKeys : Gone(k) \/ SameState(memoryLoad(k), sqliteLoad(k))
    /\ \A k \in StateKeys : Gone(k) \/ k \in overwritten \/ memoryLoad(k).created = sqliteLoad(k).created
    /\ \A k \in StateKeys : memoryList(k.dimension) \subseteq sqliteList(k.dimension)
    /\ Cardinality(DOMAIN memStates) <= MaxStates
=============================================================================
