------------------------- MODULE Structures_proofs -------------------------
(***************************************************************************)
(* The structures that requests share, each on its own, for every value of *)
(* their parameters: the concurrent limiter, the sticky cache, the token   *)
(* bucket and the usage window.                                            *)
(***************************************************************************)
EXTENDS ConcurrentLimiter, StickyCache, TokenBucket, SlidingWindow, FiniteSetTheorems, TLAPS

-----------------------------------------------------------------------------
(* The concurrent limiter.  The limit alone is not inductive: admission    *)
(* looks at the counter, so the proof carries the exact meaning of the     *)
(* counter.                                                                *)

LimiterInv ==
    /\ LimiterTypeOK
    /\ CounterIsExact
    /\ AtMostLimitInside

(* The number of requests that an assignment of states to requests puts in *)
(* a state.                                                                *)
InStateOf(f, s) == Cardinality({q \in Requests : f[q] = s})

(* The requests in a state are finitely many. *)
LEMMA InStateFinite ==
    ASSUME NEW f, NEW s
    PROVE  IsFiniteSet({q \in Requests : f[q] = s}) /\ InStateOf(f, s) \in Nat
  BY LimiterAssumption, FS_Subset, FS_CardinalityType DEF LimiterAssumption, InStateOf

(* A request that moves adds one to the population of the state it enters, *)
(* takes one from that of the state it leaves and changes no other.        *)
LEMMA MoveCounts ==
    ASSUME NEW f \in [Requests -> States], NEW r \in Requests, NEW to \in States,
           f[r] # to, NEW s \in States
    PROVE  InStateOf([f EXCEPT ![r] = to], s) = InStateOf(f, s) +
              (IF s = to THEN 1 ELSE IF s = f[r] THEN -1 ELSE 0)
  <1> DEFINE g == [f EXCEPT ![r] = to]
             A == {q \in Requests : f[q] = s}
             B == {q \in Requests : g[q] = s}
  <1>0. IsFiniteSet(A) /\ Cardinality(A) \in Nat
    BY InStateFinite DEF InStateOf
  <1>1. CASE s = to
    <2>1. B = A \cup {r} /\ r \notin A
      BY <1>1
    <2>2. Cardinality(B) = Cardinality(A) + 1
      BY <1>0, <2>1, FS_AddElement
    <2> QED
      BY <1>1, <2>2 DEF InStateOf
  <1>2. CASE s = f[r]
    <2>1. B = A \ {r} /\ r \in A
      BY <1>2
    <2>2. Cardinality(B) = Cardinality(A) - 1
      BY <1>0, <2>1, FS_RemoveElement, SMTT(60)
    <2>3. Cardinality(B) = Cardinality(A) + (-1)
      BY <1>0, <2>2
    <2> QED
      BY <1>2, <2>3 DEF InStateOf
  <1>3. CASE s # to /\ s # f[r]
    <2>1. B = A
      BY <1>3
    <2> QED
      BY <1>0, <1>3, <2>1 DEF InStateOf
  <1> QED
    BY <1>1, <1>2, <1>3

(* The counter is exact and the limit holds in every reachable state. *)
THEOREM LimiterInvariance == LimiterSpec => []LimiterInv
  <1> USE LimiterAssumption DEF LimiterAssumption
  <1>1. LimiterInit => LimiterInv
    <2> SUFFICES ASSUME LimiterInit PROVE LimiterInv
      OBVIOUS
    <2>1. InState("inside") = {} /\ InState("undo") = {}
      BY DEF LimiterInit, InState
    <2>2. Cardinality(InState("inside")) = 0 /\ Cardinality(InState("undo")) = 0
      BY <2>1, FS_EmptySet
    <2> QED
      BY <2>2 DEF LimiterInit, LimiterInv, LimiterTypeOK, States, CounterIsExact, AtMostLimitInside
  <1>2. LimiterInv /\ [LimiterNext]_limiterVars => LimiterInv'
    <2> SUFFICES ASSUME LimiterInv, [LimiterNext]_limiterVars PROVE LimiterInv'
      OBVIOUS
    <2> DEFINE In == InStateOf(pc, "inside")
               Un == InStateOf(pc, "undo")
    <2>0. /\ current = In + Un /\ In <= Limit
          /\ LimiterTypeOK
      BY DEF LimiterInv, CounterIsExact, AtMostLimitInside, InState, InStateOf
    <2>1. In \in Nat /\ Un \in Nat
      BY InStateFinite
    <2> SUFFICES LimiterTypeOK' /\ current' = In' + Un' /\ In' <= Limit
      BY DEF LimiterInv, CounterIsExact, AtMostLimitInside, InState, InStateOf
    <2>m. ASSUME NEW r \in Requests, NEW to \in States, pc[r] # to,
                 pc' = [pc EXCEPT ![r] = to]
          PROVE  \A s \in States : InStateOf(pc', s) = InStateOf(pc, s) +
                    (IF s = to THEN 1 ELSE IF s = pc[r] THEN -1 ELSE 0)
      <3>1. pc \in [Requests -> States]
        BY <2>0 DEF LimiterTypeOK
      <3>2. \A s \in States : InStateOf([pc EXCEPT ![r] = to], s) = InStateOf(pc, s) +
               (IF s = to THEN 1 ELSE IF s = pc[r] THEN -1 ELSE 0)
        BY <2>m, <3>1, MoveCounts, Zenon
      <3> QED
        BY <2>m, <3>2, Zenon
    <2>2. ASSUME NEW r \in Requests, Acquire(r), current + 1 > Limit
          PROVE  LimiterTypeOK' /\ current' = In' + Un' /\ In' <= Limit
      <3>1. pc[r] = "outside" /\ pc' = [pc EXCEPT ![r] = "undo"] /\ current' = current + 1
        BY <2>2 DEF Acquire
      <3>m. \A s \in States : InStateOf(pc', s) = InStateOf(pc, s) +
               (IF s = "undo" THEN 1 ELSE IF s = pc[r] THEN -1 ELSE 0)
        <4>1. "undo" \in States /\ pc[r] # "undo"
          BY <3>1 DEF States
        <4> QED
          BY <2>m, <3>1, <4>1, Zenon
      <3>2. Un' = Un + 1 /\ In' = In
        BY <2>1, <3>1, <3>m DEF States
      <3> QED
        BY <2>0, <2>1, <3>1, <3>2 DEF LimiterTypeOK, States
    <2>3. ASSUME NEW r \in Requests, Acquire(r), ~(current + 1 > Limit)
          PROVE  LimiterTypeOK' /\ current' = In' + Un' /\ In' <= Limit
      <3>1. pc[r] = "outside" /\ pc' = [pc EXCEPT ![r] = "inside"] /\ current' = current + 1
        BY <2>3 DEF Acquire
      <3>m. \A s \in States : InStateOf(pc', s) = InStateOf(pc, s) +
               (IF s = "inside" THEN 1 ELSE IF s = pc[r] THEN -1 ELSE 0)
        <4>1. "inside" \in States /\ pc[r] # "inside"
          BY <3>1 DEF States
        <4> QED
          BY <2>m, <3>1, <4>1, Zenon
      <3>2. In' = In + 1 /\ Un' = Un
        BY <2>1, <3>1, <3>m DEF States
      <3> QED
        BY <2>0, <2>1, <2>3, <3>1, <3>2 DEF LimiterTypeOK, States
    <2>4. ASSUME NEW r \in Requests, Undo(r)
          PROVE  LimiterTypeOK' /\ current' = In' + Un' /\ In' <= Limit
      <3>1. pc[r] = "undo" /\ pc' = [pc EXCEPT ![r] = "rejected"] /\ current' = current - 1
        BY <2>4 DEF Undo
      <3>m. \A s \in States : InStateOf(pc', s) = InStateOf(pc, s) +
               (IF s = "rejected" THEN 1 ELSE IF s = pc[r] THEN -1 ELSE 0)
        <4>1. "rejected" \in States /\ pc[r] # "rejected"
          BY <3>1 DEF States
        <4> QED
          BY <2>m, <3>1, <4>1, Zenon
      <3>2. In' = In /\ Un' = Un - 1
        BY <2>1, <3>1, <3>m DEF States
      <3> QED
        BY <2>0, <2>1, <3>1, <3>2 DEF LimiterTypeOK, States
    <2>5. ASSUME NEW r \in Requests, Release(r)
          PROVE  LimiterTypeOK' /\ current' = In' + Un' /\ In' <= Limit
      <3>1. pc[r] = "inside" /\ pc' = [pc EXCEPT ![r] = "outside"] /\ current' = current - 1
        BY <2>5 DEF Release
      <3>m. \A s \in States : InStateOf(pc', s) = InStateOf(pc, s) +
               (IF s = "outside" THEN 1 ELSE IF s = pc[r] THEN -1 ELSE 0)
        <4>1. "outside" \in States /\ pc[r] # "outside"
          BY <3>1 DEF States
        <4> QED
          BY <2>m, <3>1, <4>1, Zenon
      <3>2. In' = In - 1 /\ Un' = Un
        BY <2>1, <3>1, <3>m DEF States
      <3> QED
        BY <2>0, <2>1, <3>1, <3>2 DEF LimiterTypeOK, States
    <2>6. ASSUME NEW r \in Requests, Retry(r)
          PROVE  LimiterTypeOK' /\ current' = In' + Un' /\ In' <= Limit
      <3>1. pc[r] = "rejected" /\ pc' = [pc EXCEPT ![r] = "outside"] /\ current' = current
        BY <2>6 DEF Retry
      <3>m. \A s \in States : InStateOf(pc', s) = InStateOf(pc, s) +
               (IF s = "outside" THEN 1 ELSE IF s = pc[r] THEN -1 ELSE 0)
        <4>1. "outside" \in States /\ pc[r] # "outside"
          BY <3>1 DEF States
        <4> QED
          BY <2>m, <3>1, <4>1, Zenon
      <3>2. In' = In /\ Un' = Un
        BY <2>1, <3>1, <3>m DEF States
      <3> QED
        BY <2>0, <2>1, <3>1, <3>2 DEF LimiterTypeOK, States
    <2>7. CASE UNCHANGED limiterVars
      BY <2>0, <2>7 DEF limiterVars, LimiterTypeOK
    <2> QED
      BY <2>2, <2>3, <2>4, <2>5, <2>6, <2>7 DEF LimiterNext
  <1> QED
    BY <1>1, <1>2, PTL DEF LimiterSpec

(* At most Limit requests run their handler at any time, and the counter   *)
(* never drifts from the requests it stands for.                           *)
THEOREM LimitHolds == LimiterSpec => []LimiterIsExact
  BY LimiterInvariance, PTL DEF LimiterInv, LimiterIsExact

-----------------------------------------------------------------------------
(* The sticky cache.  The size bound is inductive with the types; the      *)
(* refinement of the affinity map rests on both.                           *)

CacheInv == CacheTypeOK /\ SizeBounded

(* The keys held are finitely many. *)
LEMMA PresentFinite ==
    IsFiniteSet(Present) /\ Cardinality(Present) \in Nat
  BY CacheAssumption, FS_Subset, FS_CardinalityType DEF CacheAssumption, Present

(* An operation that adds no key keeps the bound. *)
LEMMA Shrinks ==
    ASSUME SizeBounded, Present' \subseteq Present
    PROVE  SizeBounded'
  <1>1. Cardinality(Present') <= Cardinality(Present) /\ IsFiniteSet(Present')
    BY PresentFinite, FS_Subset
  <1>2. Cardinality(Present') \in Nat
    BY <1>1, FS_CardinalityType
  <1> QED
    BY <1>1, <1>2, PresentFinite, CacheAssumption DEF SizeBounded, CacheAssumption

(* Set either replaces the entry of its key, finds room, or makes room by  *)
(* evicting one entry.                                                     *)
LEMMA SetBound ==
    ASSUME CacheInv, NEW k \in Keys, NEW p \in Providers, Set(k, p)
    PROVE  SizeBounded'
  <1> USE DEF CacheInv, CacheTypeOK
  <1>1. CASE k \in Present
    <2>1. Present' \subseteq Present
      BY <1>1 DEF Set, Present
    <2> QED
      BY <2>1, Shrinks
  <1>2. CASE k \notin Present /\ ~Full
    <2>1. Present' \subseteq Present \cup {k}
      BY <1>2 DEF Set, Present
    <2>2. /\ IsFiniteSet(Present \cup {k})
          /\ Cardinality(Present \cup {k}) = Cardinality(Present) + 1
      BY <1>2, PresentFinite, FS_AddElement
    <2>3. Cardinality(Present') <= Cardinality(Present) + 1 /\ Cardinality(Present') \in Nat
      BY <2>1, <2>2, FS_Subset, FS_CardinalityType
    <2> QED
      BY <1>2, <2>3, PresentFinite, CacheAssumption DEF SizeBounded, Full, CacheAssumption
  <1>3. CASE k \notin Present /\ Full
    <2>1. PICK victim \in Oldest :
            entries' = [entries EXCEPT ![victim] = NoEntry,
                                       ![k] = [provider |-> p, expires |-> now + TTL, access |-> now]]
      BY <1>3 DEF Set
    <2>2. victim \in Present /\ victim # k
      BY <1>3 DEF Oldest
    <2>3. Present' \subseteq (Present \ {victim}) \cup {k}
      BY <2>1, <2>2 DEF Present
    <2>4. /\ IsFiniteSet(Present \ {victim})
          /\ Cardinality(Present \ {victim}) = Cardinality(Present) - 1
      BY <2>2, PresentFinite, FS_RemoveElement
    <2>5. k \notin Present \ {victim}
      BY <1>3
    <2>6. /\ IsFiniteSet((Present \ {victim}) \cup {k})
          /\ Cardinality((Present \ {victim}) \cup {k}) = Cardinality(Present \ {victim}) + 1
      BY <2>4, <2>5, FS_AddElement
    <2>7. Cardinality((Present \ {victim}) \cup {k}) = Cardinality(Present)
      BY <2>4, <2>6, PresentFinite
    <2>8. Cardinality(Present') <= Cardinality(Present) /\ Cardinality(Present') \in Nat
      BY <2>3, <2>6, <2>7, FS_Subset, FS_CardinalityType
    <2> QED
      BY <2>8, PresentFinite, CacheAssumption DEF SizeBounded, CacheAssumption
  <1> QED
    BY <1>1, <1>2, <1>3

(* Every operation of the cache keeps the types of its state. *)
LEMMA CacheTypeStep == CacheTypeOK /\ [CacheNext]_cacheVars => CacheTypeOK'
  <1> SUFFICES ASSUME CacheTypeOK, [CacheNext]_cacheVars PROVE CacheTypeOK'
    OBVIOUS
  <1> USE CacheAssumption DEF CacheAssumption, CacheTypeOK, Entry, NoEntry
  <1>1. ASSUME NEW r \in Readers, NEW k \in Keys, GetHit(r, k) PROVE CacheTypeOK'
    BY <1>1 DEF GetHit
  <1>2. ASSUME NEW r \in Readers, Touch(r) PROVE CacheTypeOK'
    <2>1. touching[r] \in Keys /\ now \in Nat
      BY <1>2 DEF Touch
    <2>2. entries' \in [Keys -> Entry \cup {NoEntry}]
      BY <1>2, <2>1 DEF Touch, Present
    <2> QED
      BY <1>2, <2>2 DEF Touch
  <1>3. ASSUME NEW k \in Keys, NEW p \in Providers, Set(k, p) PROVE CacheTypeOK'
    <2>1. [provider |-> p, expires |-> now + TTL, access |-> now] \in Entry
      OBVIOUS
    <2>2. entries' \in [Keys -> Entry \cup {NoEntry}]
      BY <1>3, <2>1 DEF Set, Oldest, Present
    <2> QED
      BY <1>3, <2>2 DEF Set
  <1>4. ASSUME NEW k \in Keys, Delete(k) PROVE CacheTypeOK'
    BY <1>4 DEF Delete
  <1>5. CASE Clear
    BY <1>5 DEF Clear
  <1>6. CASE RemoveExpired
    BY <1>6 DEF RemoveExpired
  <1>7. CASE Close
    BY <1>7 DEF Close
  <1>8. CASE CacheTick
    BY <1>8 DEF CacheTick
  <1>9. CASE UNCHANGED cacheVars
    BY <1>9 DEF cacheVars
  <1> QED
    BY <1>1, <1>2, <1>3, <1>4, <1>5, <1>6, <1>7, <1>8, <1>9 DEF CacheNext

(* Every operation of the cache keeps it within its limit. *)
LEMMA CacheSizeStep == CacheInv /\ [CacheNext]_cacheVars => SizeBounded'
  <1> SUFFICES ASSUME CacheInv, [CacheNext]_cacheVars PROVE SizeBounded'
    OBVIOUS
  <1> USE DEF CacheInv, CacheTypeOK
  <1>1. ASSUME NEW r \in Readers, NEW k \in Keys, GetHit(r, k) PROVE SizeBounded'
    BY <1>1, Shrinks DEF GetHit, Present
  <1>2. ASSUME NEW r \in Readers, Touch(r) PROVE SizeBounded'
    <2>1. Present' \subseteq Present
      BY <1>2 DEF Touch, Present
    <2> QED
      BY <2>1, Shrinks
  <1>3. ASSUME NEW k \in Keys, NEW p \in Providers, Set(k, p) PROVE SizeBounded'
    BY <1>3, SetBound
  <1>4. ASSUME NEW k \in Keys, Delete(k) PROVE SizeBounded'
    <2>1. Present' \subseteq Present
      BY <1>4 DEF Delete, Present
    <2> QED
      BY <2>1, Shrinks
  <1>5. CASE Clear
    BY <1>5, Shrinks DEF Clear, Present
  <1>6. CASE RemoveExpired
    BY <1>6, Shrinks DEF RemoveExpired, Present
  <1>7. CASE Close
    BY <1>7, Shrinks DEF Close, Present
  <1>8. CASE CacheTick
    BY <1>8, Shrinks DEF CacheTick, Present
  <1>9. CASE UNCHANGED cacheVars
    BY <1>9, Shrinks DEF cacheVars, Present
  <1> QED
    BY <1>1, <1>2, <1>3, <1>4, <1>5, <1>6, <1>7, <1>8, <1>9 DEF CacheNext

(* The empty cache that NewStickyCache makes satisfies the invariant. *)
LEMMA InitCache == CacheInit => CacheInv
  <1> SUFFICES ASSUME CacheInit PROVE CacheInv
    OBVIOUS
  <1>1. CacheTypeOK
    BY CacheAssumption DEF CacheAssumption, CacheInit, CacheTypeOK
  <1>2. Present = {}
    BY DEF CacheInit, Present
  <1>3. SizeBounded
    BY <1>2, FS_EmptySet, CacheAssumption DEF SizeBounded, CacheAssumption
  <1> QED
    BY <1>1, <1>3 DEF CacheInv

(* Types and size bound hold in every state of the cache. *)
THEOREM CacheInvariance == CacheSpec => []CacheInv
  <1>1. CacheInv /\ [CacheNext]_cacheVars => CacheInv'
    BY CacheTypeStep, CacheSizeStep DEF CacheInv
  <1> QED
    BY InitCache, <1>1, PTL DEF CacheSpec

(* The sticky cache never holds more than maxEntries assignments, whatever *)
(* is set, evicted, expires or is deleted.                                 *)
THEOREM CacheBounded == CacheSpec => []SizeBounded
  BY CacheInvariance, PTL DEF CacheInv

-----------------------------------------------------------------------------
(* The refinement of AffinityMap *)

(* The map that a cache with entries e stands for. *)
AssignedBy(e) == [k \in Keys |-> e[k].provider]

(* The cardinality of the abstract module is the cardinality of this one. *)
LEMMA SameCardinality ==
    ASSUME NEW S
    PROVE  Affinity!Cardinality(S) = Cardinality(S)
  BY DEF Affinity!Cardinality, Cardinality

(* A key has a provider exactly when it has an entry. *)
LEMMA HeldKeys ==
    ASSUME NEW e \in [Keys -> Entry \cup {NoEntry}]
    PROVE  /\ Affinity!Held(AssignedBy(e)) = {k \in Keys : e[k] # NoEntry}
           /\ AssignedBy(e) \in [Keys -> Providers \cup {NoProvider}]
  <1>1. ASSUME NEW k \in Keys
        PROVE  /\ e[k].provider # NoProvider <=> e[k] # NoEntry
               /\ e[k].provider \in Providers \cup {NoProvider}
    BY CacheAssumption DEF CacheAssumption, Entry, NoEntry
  <1> QED
    BY <1>1 DEF Affinity!Held, AssignedBy

(* The size bound of the cache is that of the map. *)
LEMMA MapBounded ==
    ASSUME CacheTypeOK', SizeBounded'
    PROVE  Affinity!Cardinality(Affinity!Held(AssignedBy(entries'))) <= MaxEntries
  <1>1. Affinity!Held(AssignedBy(entries')) = Present'
    BY HeldKeys DEF CacheTypeOK, Present
  <1> QED
    BY <1>1, SameCardinality DEF SizeBounded

(* An operation that sets nothing and leaves each entry its provider or    *)
(* removes it, forgets assignments in the map.                             *)
LEMMA ForgetStep ==
    ASSUME CacheTypeOK, CacheTypeOK', SizeBounded', sets' = sets,
           \A k \in Keys : entries'[k].provider \in {entries[k].provider, NoProvider}
    PROVE  Affinity!Next
  <1>1. AssignedBy(entries') \in [Keys -> Providers \cup {NoProvider}]
    BY HeldKeys DEF CacheTypeOK
  <1>2. \A k \in Keys : AssignedBy(entries')[k] \in {AssignedBy(entries)[k], NoProvider}
    BY DEF AssignedBy
  <1>3. Affinity!Forget
    BY <1>1, <1>2 DEF Affinity!Forget, AssignedBy
  <1> QED
    BY <1>3, MapBounded DEF Affinity!Next, AssignedBy

(* Set puts an assignment and forgets at most the evicted one. *)
LEMMA PutStep ==
    ASSUME CacheTypeOK, CacheTypeOK', SizeBounded', NEW k \in Keys, NEW p \in Providers, Set(k, p)
    PROVE  Affinity!Next
  <1> DEFINE m == AssignedBy(entries)
             n == AssignedBy(entries')
             lost == Affinity!Held(m) \ (Affinity!Held(n) \cup {k})
  <1>1. n \in [Keys -> Providers \cup {NoProvider}]
    BY HeldKeys DEF CacheTypeOK
  <1>2. PICK v \in Keys :
          /\ entries'[k].provider = p
          /\ \A j \in Keys \ {k} : entries'[j] = entries[j] \/ (j = v /\ entries'[j] = NoEntry)
    BY DEF Set, CacheTypeOK, Oldest, Present
  <1>3. n[k] = p
    BY <1>2 DEF AssignedBy
  <1>4. \A j \in Keys \ {k} : n[j] \in {m[j], NoProvider}
    BY <1>2 DEF AssignedBy, NoEntry
  <1>5. lost \subseteq {v}
    BY <1>2, HeldKeys DEF CacheTypeOK
  <1>6. Cardinality(lost) <= 1
    <2>1. IsFiniteSet({v}) /\ Cardinality({v}) = 1
      BY FS_Singleton
    <2>2. IsFiniteSet(lost) /\ Cardinality(lost) <= Cardinality({v})
      BY <1>5, <2>1, FS_Subset
    <2> QED
      BY <2>1, <2>2
  <1>7. Affinity!Cardinality(lost) <= 1
    BY <1>6, SameCardinality
  <1>8. sets' = sets + 1
    BY DEF Set
  <1>9. Affinity!Put
    BY <1>1, <1>3, <1>4, <1>7, <1>8 DEF Affinity!Put, AssignedBy
  <1> QED
    BY <1>9, MapBounded DEF Affinity!Next, AssignedBy

(* Every step of the cache is a step of the map, or changes nothing there. *)
LEMMA MapStep ==
    CacheInv /\ CacheInv' /\ [CacheNext]_cacheVars => [Affinity!Next]_<<AssignedBy(entries), sets>>
  <1> SUFFICES ASSUME CacheInv, CacheInv', [CacheNext]_cacheVars
               PROVE  Affinity!Next \/ UNCHANGED <<AssignedBy(entries), sets>>
    OBVIOUS
  <1> USE DEF CacheInv
  <1>1. ASSUME NEW r \in Readers, NEW k \in Keys, GetHit(r, k)
        PROVE  UNCHANGED <<AssignedBy(entries), sets>>
    BY <1>1 DEF GetHit, AssignedBy
  <1>2. ASSUME NEW r \in Readers, Touch(r) PROVE Affinity!Next
    <2>1. ASSUME NEW k \in Keys PROVE entries'[k].provider = entries[k].provider
      <3>1. CASE touching[r] = k /\ k \in Present
        <4>1. entries'[k] = [entries[k] EXCEPT !.access = now]
          BY <1>2, <3>1 DEF Touch, CacheTypeOK
        <4>2. entries[k] \in Entry
          BY <3>1 DEF Present, CacheTypeOK
        <4> QED
          BY <4>1, <4>2 DEF Entry
      <3>2. CASE ~(touching[r] = k /\ k \in Present)
        BY <1>2, <3>2 DEF Touch, CacheTypeOK
      <3> QED
        BY <3>1, <3>2
    <2>2. sets' = sets
      BY <1>2 DEF Touch
    <2> QED
      BY <2>1, <2>2, ForgetStep
  <1>3. ASSUME NEW k \in Keys, NEW p \in Providers, Set(k, p) PROVE Affinity!Next
    BY <1>3, PutStep
  <1>4. ASSUME NEW k \in Keys, Delete(k) PROVE Affinity!Next
    <2>1. sets' = sets /\ \A j \in Keys : entries'[j].provider \in {entries[j].provider, NoProvider}
      BY <1>4 DEF Delete, CacheTypeOK, NoEntry
    <2> QED
      BY <2>1, ForgetStep
  <1>5. CASE Clear
    <2>1. sets' = sets /\ \A j \in Keys : entries'[j].provider \in {entries[j].provider, NoProvider}
      BY <1>5 DEF Clear, NoEntry
    <2> QED
      BY <2>1, ForgetStep
  <1>6. CASE RemoveExpired
    <2>1. sets' = sets /\ \A j \in Keys : entries'[j].provider \in {entries[j].provider, NoProvider}
      BY <1>6 DEF RemoveExpired, NoEntry
    <2> QED
      BY <2>1, ForgetStep
  <1>7. CASE Close
    BY <1>7 DEF Close, AssignedBy
  <1>8. CASE CacheTick
    BY <1>8 DEF CacheTick, AssignedBy
  <1>9. CASE UNCHANGED cacheVars
    BY <1>9 DEF cacheVars, AssignedBy
  <1> QED
    BY <1>1, <1>2, <1>3, <1>4, <1>5, <1>6, <1>7, <1>8, <1>9 DEF CacheNext

(* The cache implements the affinity map: a Get between its two critical   *)
(* sections never revives or changes an assignment, and only eviction,     *)
(* expiry and removal forget one.                                          *)
THEOREM CacheRefinesMap == CacheSpec => ImplementsAffinity
  <1>1. CacheInit => Affinity!Init
    BY DEF CacheInit, Affinity!Init, NoEntry
  <1>2. CacheInv /\ CacheInv' /\ [CacheNext]_cacheVars => [Affinity!Next]_<<[k \in Keys |-> entries[k].provider], sets>>
    BY MapStep DEF AssignedBy
  <1> QED
    BY <1>1, <1>2, CacheInvariance, PTL DEF CacheSpec, ImplementsAffinity, Affinity!Spec

-----------------------------------------------------------------------------
(* The token bucket.  The bound on what was handed out is not inductive:   *)
(* the invariant also counts what the bucket still holds, and dates the    *)
(* account at lastRefill, so that the fraction of a token that the         *)
(* truncation drops is only ever lost, never credited twice.               *)

Account ==
    (granted + tokens) * RateDen <= (1 + resets) * Capacity * RateDen + lastRefill * RateNum

BucketInv == BucketTypeOK /\ Account

(* Truncating division gives back no more than it was given. *)
LEMMA DivBound ==
    ASSUME NEW a \in Nat, NEW d \in Nat \ {0}
    PROVE  (a \div d) \in Nat /\ (a \div d) * d <= a
  OBVIOUS

(* What refillLocked leaves in the bucket: never more than the capacity,   *)
(* and never more than the time credited to it is worth.                   *)
LEMMA RefillFacts ==
    ASSUME BucketInv
    PROVE  /\ Refilled \in 0..Capacity
           /\ RefillTime \in 0..now
           /\ (granted + Refilled) * RateDen
                <= (1 + resets) * Capacity * RateDen + RefillTime * RateNum
  <1> USE BucketAssumption DEF BucketAssumption
  <1> DEFINE e == now - lastRefill
             A == TokensToAdd
  <1>0. /\ e \in Nat /\ now \in Nat /\ tokens \in Nat /\ granted \in Nat /\ resets \in Nat
        /\ lastRefill \in Nat /\ tokens <= Capacity /\ lastRefill <= now
    BY DEF BucketInv, BucketTypeOK
  <1>1. e * RateNum \in Nat
    BY <1>0
  <1>2. A \in Nat /\ A * RateDen <= e * RateNum
    BY <1>1, DivBound DEF TokensToAdd
  <1>3. Refilled \in 0..Capacity /\ Refilled <= tokens + A
    BY <1>0, <1>2 DEF Refilled
  <1>4. RefillTime \in 0..now
    BY <1>0 DEF RefillTime
  <1>5. CASE A > 0
    <2>1. RefillTime = now
      BY <1>5 DEF RefillTime
    <2>2. now * RateNum = lastRefill * RateNum + e * RateNum
      BY <1>0
    <2>3. (granted + tokens + A) * RateDen = (granted + tokens) * RateDen + A * RateDen
      BY <1>0, <1>2
    <2>4. (granted + Refilled) * RateDen <= (granted + tokens + A) * RateDen
      BY <1>0, <1>2, <1>3
    <2>5. /\ (granted + tokens) * RateDen \in Nat
          /\ A * RateDen \in Nat
          /\ (granted + Refilled) * RateDen \in Nat
          /\ (1 + resets) * Capacity * RateDen \in Nat
          /\ lastRefill * RateNum \in Nat
      BY <1>0, <1>2, <1>3
    <2> QED
      BY <1>1, <1>2, <1>3, <1>4, <2>1, <2>2, <2>3, <2>4, <2>5 DEF BucketInv, Account
  <1>6. CASE A = 0
    <2>1. RefillTime = lastRefill /\ Refilled = tokens
      BY <1>0, <1>6 DEF RefillTime, Refilled
    <2> QED
      BY <1>3, <1>4, <2>1 DEF BucketInv, Account
  <1> QED
    BY <1>2, <1>5, <1>6

(* The account never exceeds what bursts and time justify. *)
THEOREM BucketInvariance == BucketSpec => []BucketInv
  <1> USE BucketAssumption DEF BucketAssumption
  <1>1. BucketInit => BucketInv
    <2> SUFFICES ASSUME BucketInit PROVE BucketInv
      OBVIOUS
    <2>1. BucketTypeOK
      BY DEF BucketInit, BucketTypeOK, NoPromise
    <2>2. Account
      BY DEF BucketInit, Account
    <2> QED
      BY <2>1, <2>2 DEF BucketInv
  <1>2. BucketInv /\ [BucketNext]_bucketVars => BucketInv'
    <2> SUFFICES ASSUME BucketInv, [BucketNext]_bucketVars PROVE BucketInv'
      OBVIOUS
    <2>0. BucketTypeOK /\ Account
      BY DEF BucketInv
    <2>1. ASSUME NEW n \in Sizes, Take(n) PROVE BucketInv'
      <3>1. /\ n \in Nat \ {0} /\ Refilled \in Nat /\ granted \in Nat
            /\ lastRefill' = RefillTime /\ UNCHANGED <<now, resets>>
        BY <2>0, <2>1, RefillFacts DEF Take, BucketTypeOK
      <3>2. CASE Refilled >= n
        <4>1. tokens' = Refilled - n /\ granted' = granted + n /\ promise' = NoPromise
          BY <2>1, <3>2 DEF Take
        <4>2. granted' + tokens' = granted + Refilled
          BY <3>1, <4>1
        <4>3. Account'
          BY <3>1, <4>2, RefillFacts DEF Account
        <4>4. BucketTypeOK'
          BY <2>0, <3>1, <3>2, <4>1, RefillFacts DEF BucketTypeOK, NoPromise
        <4> QED
          BY <4>3, <4>4 DEF BucketInv
      <3>3. CASE ~(Refilled >= n)
        <4>1. tokens' = Refilled /\ UNCHANGED <<granted, promise>>
          BY <2>1, <3>3 DEF Take
        <4>2. Account'
          BY <3>1, <4>1, RefillFacts DEF Account
        <4>3. BucketTypeOK'
          BY <2>0, <3>1, <4>1, RefillFacts DEF BucketTypeOK
        <4> QED
          BY <4>2, <4>3 DEF BucketInv
      <3> QED
        BY <3>2, <3>3
    <2>2. ASSUME NEW n \in Sizes, TimeUntilAvailable(n) PROVE BucketInv'
      <3>1. tokens' = Refilled /\ lastRefill' = RefillTime /\ UNCHANGED <<now, granted, resets>>
        BY <2>2 DEF TimeUntilAvailable
      <3>2. Account'
        BY <3>1, RefillFacts DEF Account
      <3>3. promise' \in [n : Nat, at : Nat]
        <4>1. CASE Refilled >= n
          BY <2>2, <4>1 DEF TimeUntilAvailable, NoPromise
        <4>2. CASE ~(Refilled >= n)
          <5>1. n \in Nat /\ n - Refilled \in Nat
            BY <4>2, RefillFacts
          <5>2. (n - Refilled) * RateDen \in Nat
            BY <5>1
          <5>3. Wait(n) \in Nat
            BY <5>2, DivBound DEF Wait
          <5>4. now + Wait(n) \in Nat
            BY <2>0, <5>3 DEF BucketTypeOK
          <5>5. promise' = [n |-> n, at |-> now + Wait(n)]
            BY <2>2, <4>2 DEF TimeUntilAvailable
          <5> QED
            BY <5>1, <5>4, <5>5
        <4> QED
          BY <4>1, <4>2
      <3>4. BucketTypeOK'
        BY <2>0, <3>1, <3>3, RefillFacts DEF BucketTypeOK
      <3> QED
        BY <3>2, <3>4 DEF BucketInv
    <2>3. CASE Remaining
      <3>1. Account'
        BY <2>3, RefillFacts DEF Remaining, Account
      <3>2. BucketTypeOK'
        BY <2>0, <2>3, RefillFacts DEF Remaining, BucketTypeOK
      <3> QED
        BY <3>1, <3>2 DEF BucketInv
    <2>4. CASE BucketReset
      <3>1. BucketTypeOK'
        BY <2>0, <2>4 DEF BucketReset, BucketTypeOK, NoPromise
      <3>2. /\ tokens' = Capacity /\ lastRefill' = now /\ resets' = resets + 1 /\ granted' = granted
            /\ granted \in Nat /\ tokens \in Nat /\ resets \in Nat /\ now \in Nat
            /\ lastRefill \in Nat /\ lastRefill <= now
        BY <2>0, <2>4 DEF BucketReset, BucketTypeOK
      <3>3. granted * RateDen <= (granted + tokens) * RateDen
        BY <3>2
      <3>4. lastRefill * RateNum <= now * RateNum
        BY <3>2
      <3>5. (granted + Capacity) * RateDen = granted * RateDen + Capacity * RateDen
        BY <3>2
      <3>6. (1 + (resets + 1)) * Capacity * RateDen
              = (1 + resets) * Capacity * RateDen + Capacity * RateDen
        BY <3>2
      <3>7. Account'
        BY <2>0, <3>2, <3>3, <3>4, <3>5, <3>6 DEF Account
      <3> QED
        BY <3>1, <3>7 DEF BucketInv
    <2>5. CASE BucketTick
      BY <2>0, <2>5 DEF BucketTick, BucketInv, BucketTypeOK, Account
    <2>6. CASE UNCHANGED bucketVars
      BY <2>0, <2>6 DEF bucketVars, BucketInv, BucketTypeOK, Account
    <2> QED
      BY <2>1, <2>2, <2>3, <2>4, <2>5, <2>6 DEF BucketNext
  <1> QED
    BY <1>1, <1>2, PTL DEF BucketSpec

(* The tokens handed out never exceed the bursts plus rate times time. *)
THEOREM RateHolds == BucketSpec => []RateBound
  <1>1. BucketInv => RateBound
    <2> SUFFICES ASSUME BucketInv PROVE RateBound
      OBVIOUS
    <2> USE BucketAssumption DEF BucketAssumption
    <2>1. /\ granted \in Nat /\ tokens \in Nat /\ now \in Nat /\ lastRefill \in Nat
          /\ lastRefill <= now /\ resets \in Nat /\ Account
      BY DEF BucketInv, BucketTypeOK
    <2>2. granted * RateDen <= (granted + tokens) * RateDen
      BY <2>1
    <2>3. lastRefill * RateNum <= now * RateNum
      BY <2>1
    <2> QED
      BY <2>1, <2>2, <2>3 DEF Account, RateBound
  <1> QED
    BY <1>1, BucketInvariance, PTL

(* Truncating division loses less than the divisor, and nothing of a       *)
(* dividend as large as it.                                                *)
LEMMA DivTruncates ==
    ASSUME NEW a \in Nat, NEW d \in Nat \ {0}
    PROVE  a < ((a \div d) + 1) * d /\ (a >= d => a \div d >= 1)
  OBVIOUS

(* The caller that was told to come back for one token finds it there, or  *)
(* the bucket has counted all the time it was told to wait.                *)
PromiseHeld ==
    promise.n = 1 /\ Capacity >= 1 => tokens >= 1 \/ lastRefill + (RateDen \div RateNum) <= promise.at

RetryInv == BucketInv /\ PromiseHeld

(* Every step keeps the promise. *)
LEMMA RetryStep == RetryInv /\ [BucketNext]_bucketVars => PromiseHeld'
  <1> SUFFICES ASSUME RetryInv, [BucketNext]_bucketVars PROVE PromiseHeld'
    OBVIOUS
  <1> USE BucketAssumption DEF BucketAssumption
  <1>0. BucketInv /\ PromiseHeld
    BY DEF RetryInv
  <1>1. /\ now \in Nat /\ tokens \in Nat /\ lastRefill \in Nat /\ lastRefill <= now
        /\ promise \in [n : Nat, at : Nat] /\ tokens <= Capacity
    BY <1>0 DEF BucketInv, BucketTypeOK
  <1>2. TokensToAdd \in Nat
    <2>1. (now - lastRefill) * RateNum \in Nat
      BY <1>1
    <2> QED
      BY <2>1, DivBound DEF TokensToAdd
  <1>3. /\ Refilled \in Nat /\ Refilled >= tokens
        /\ Capacity >= 1 => Refilled >= 1 \/ RefillTime = lastRefill
    BY <1>1, <1>2 DEF Refilled, RefillTime
  <1>4. ASSUME tokens' = Refilled, lastRefill' = RefillTime, promise' = promise
        PROVE  PromiseHeld'
    BY <1>0, <1>1, <1>3, <1>4 DEF PromiseHeld
  <1>5. ASSUME promise' = NoPromise
        PROVE  PromiseHeld'
    BY <1>5 DEF PromiseHeld, NoPromise
  <1>6. ASSUME NEW n \in Sizes, Take(n) PROVE PromiseHeld'
    <2>1. CASE Refilled >= n
      BY <1>5, <1>6, <2>1 DEF Take
    <2>2. CASE ~(Refilled >= n)
      BY <1>4, <1>6, <2>2 DEF Take
    <2> QED
      BY <2>1, <2>2
  <1>7. ASSUME NEW n \in Sizes, TimeUntilAvailable(n) PROVE PromiseHeld'
    <2>1. CASE Refilled >= n
      BY <1>5, <1>7, <2>1 DEF TimeUntilAvailable
    <2>2. CASE ~(Refilled >= n)
      <3>1. promise' = [n |-> n, at |-> now + Wait(n)] /\ lastRefill' = RefillTime
        BY <1>7, <2>2 DEF TimeUntilAvailable
      <3>2. promise'.n = n /\ promise'.at = now + Wait(n)
        BY <3>1
      <3>3. CASE n = 1 /\ Capacity >= 1
        <4>1. Refilled = 0 /\ RefillTime = lastRefill
          BY <1>3, <2>2, <3>3
        <4>2. Wait(n) = RateDen \div RateNum
          BY <3>3, <4>1 DEF Wait
        <4>3. (RateDen \div RateNum) \in Nat
          BY DivBound
        <4>4. lastRefill + (RateDen \div RateNum) <= now + (RateDen \div RateNum)
          BY <1>1, <4>3
        <4> QED
          BY <3>1, <3>2, <4>1, <4>2, <4>4 DEF PromiseHeld
      <3>4. CASE ~(n = 1 /\ Capacity >= 1)
        BY <3>2, <3>4 DEF PromiseHeld
      <3> QED
        BY <3>3, <3>4
    <2> QED
      BY <2>1, <2>2
  <1>8. CASE Remaining
    BY <1>4, <1>8 DEF Remaining
  <1>9. CASE BucketReset
    BY <1>5, <1>9 DEF BucketReset
  <1>10. CASE BucketTick \/ UNCHANGED bucketVars
    BY <1>0, <1>10 DEF BucketTick, bucketVars, PromiseHeld
  <1> QED
    BY <1>6, <1>7, <1>8, <1>9, <1>10 DEF BucketNext

(* Whoever waits one tick longer than TimeUntilAvailable said finds the    *)
(* token, unless another took it, at every rate and however often the      *)
(* bucket is polled in between (token_bucket.go: refillLocked moves        *)
(* lastRefill only when it adds a token).                                  *)
THEOREM RetryIsEnough == BucketSpec => []RetryWithinATick
  <1> USE BucketAssumption DEF BucketAssumption
  <1>1. BucketInit => PromiseHeld
    BY DEF BucketInit, PromiseHeld, NoPromise
  <1>2. RetryInv => RetryWithinATick
    <2> SUFFICES ASSUME RetryInv, promise.n = 1, Capacity >= 1, now > promise.at
                 PROVE  Refilled >= 1
      BY DEF RetryWithinATick
    <2> DEFINE w == RateDen \div RateNum
               e == now - lastRefill
    <2>1. /\ now \in Nat /\ tokens \in Nat /\ lastRefill \in Nat /\ lastRefill <= now
          /\ promise \in [n : Nat, at : Nat] /\ w \in Nat /\ e \in Nat
      BY DivBound DEF RetryInv, BucketInv, BucketTypeOK
    <2>2. e * RateNum \in Nat
      BY <2>1
    <2>3. TokensToAdd \in Nat
      BY <2>2, DivBound DEF TokensToAdd
    <2>4. CASE tokens >= 1
      BY <2>1, <2>3, <2>4 DEF Refilled
    <2>5. CASE lastRefill + w <= promise.at
      <3>1. e >= w + 1
        <4>1. promise.at \in Nat
          BY <2>1
        <4> HIDE DEF w
        <4> QED
          BY <2>1, <2>5, <4>1
      <3>2. RateDen < (w + 1) * RateNum
        BY DivTruncates
      <3> HIDE DEF w, e
      <3>3. (w + 1) * RateNum <= e * RateNum
        <4>1. PICK d \in Nat : e = (w + 1) + d
          <5>1. e - (w + 1) \in Nat /\ e = (w + 1) + (e - (w + 1))
            BY <2>1, <3>1
          <5> QED BY <5>1
        <4>2. e * RateNum = (w + 1) * RateNum + d * RateNum /\ d * RateNum \in Nat /\ (w + 1) * RateNum \in Nat
          BY <2>1, <4>1
        <4> QED
          BY <4>2
      <3>4. (e * RateNum) \div RateDen >= 1
        <4>1. (w + 1) * RateNum \in Nat /\ e * RateNum >= RateDen
          BY <2>1, <2>2, <3>2, <3>3
        <4> QED
          BY <2>2, <4>1, DivTruncates
      <3>5. TokensToAdd >= 1
        BY <3>4 DEF e, TokensToAdd
      <3> QED
        BY <2>1, <2>3, <3>5 DEF Refilled
    <2> QED
      BY <2>4, <2>5 DEF RetryInv, PromiseHeld
  <1>3. BucketInv /\ PromiseHeld <=> RetryInv
    BY DEF RetryInv
  <1> QED
    BY <1>1, <1>2, <1>3, BucketInvariance, RetryStep, PTL DEF BucketSpec

-----------------------------------------------------------------------------
(* The sum over a set, as the fold of the library computes it *)

First(s) == CHOOSE x \in s : TRUE
IsSum(g, f, S) ==
    g = [s \in SUBSET S |-> IF s = {} THEN 0 ELSE f[First(s)] + g[s \ {First(s)}]]
SumOver(f, S) == CHOOSE g : IsSum(g, f, S)

(* Induction on the natural numbers. *)
LEMMA Induction ==
    ASSUME NEW T \in SUBSET Nat, 0 \in T, \A n \in T : n + 1 \in T
    PROVE  T = Nat
  <1> DEFINE Bad == Nat \ T
  <1>1. SUFFICES ASSUME Bad # {} PROVE FALSE
    OBVIOUS
  <1>2. PICK x \in Bad : \A y \in Bad : ~(<<y, x>> \in OpToRel(<, Nat))
    BY <1>1, NatLessThanWellFounded, WFMin
  <1>3. \A y \in Bad : ~(y < x)
    BY <1>2 DEF OpToRel
  <1>4. x # 0 /\ x - 1 \in Nat /\ x - 1 \notin Bad
    BY <1>3
  <1> QED
    BY <1>4

(* A family of subsets of a finite set has a minimal one. *)
LEMMA Minimal ==
    ASSUME NEW S, IsFiniteSet(S), NEW Family \in SUBSET (SUBSET S), Family # {}
    PROVE  \E m \in Family : \A t \in Family : t \subseteq m => t = m
  <1>1. IsWellFoundedOn(StrictSubsetOrdering(S), SUBSET S)
    BY FS_StrictSubsetOrderingWellFounded, FS_FiniteSubsetsOfFinite
  <1>2. PICK m \in Family : \A t \in Family : ~(<<t, m>> \in StrictSubsetOrdering(S))
    BY <1>1, WFMin
  <1>3. ASSUME NEW t \in Family, t \subseteq m PROVE t = m
    BY <1>2, <1>3 DEF StrictSubsetOrdering
  <1> QED
    BY <1>3

(* The recursion of the sum has a solution: it is built up by cardinality. *)
LEMMA SumExists ==
    ASSUME NEW S, IsFiniteSet(S), NEW f \in [S -> Nat]
    PROVE  \E g : IsSum(g, f, S)
  <1> DEFINE Small(n) == {s \in SUBSET S : Cardinality(s) <= n}
             Step(g, s) == IF s = {} THEN 0 ELSE f[First(s)] + g[s \ {First(s)}]
             T == {n \in Nat : \E g : g = [s \in Small(n) |-> Step(g, s)]}
  <1>0. \A s \in SUBSET S : IsFiniteSet(s) /\ Cardinality(s) \in Nat
    BY FS_Subset, FS_CardinalityType
  <1>1. ASSUME NEW n \in Nat, NEW s \in Small(n + 1), s # {}
        PROVE  s \ {First(s)} \in Small(n)
    <2>1. First(s) \in s
      BY <1>1 DEF First
    <2>2. Cardinality(s \ {First(s)}) = Cardinality(s) - 1
      BY <1>0, <2>1, FS_RemoveElement
    <2> QED
      BY <1>0, <2>2
  <1>2. 0 \in T
    <2> DEFINE g == [s \in Small(0) |-> 0]
    <2>1. \A s \in Small(0) : s = {}
      BY <1>0, FS_EmptySet
    <2>2. g = [s \in Small(0) |-> Step(g, s)]
      BY <2>1
    <2> QED
      BY <2>2
  <1>3. ASSUME NEW n \in T PROVE n + 1 \in T
    <2>1. PICK g : g = [s \in Small(n) |-> Step(g, s)]
      OBVIOUS
    <2> DEFINE h == [s \in Small(n + 1) |-> Step(g, s)]
    <2>2. \A s \in Small(n) : s \in Small(n + 1) /\ h[s] = g[s]
      <3>1. \A s \in Small(n) : s \in Small(n + 1)
        BY <1>0
      <3>2. \A s \in Small(n) : g[s] = Step(g, s)
        BY <2>1
      <3> QED
        BY <3>1, <3>2
    <2>3. \A s \in Small(n + 1) : Step(h, s) = Step(g, s)
      BY <1>1, <2>2
    <2>4. h = [s \in Small(n + 1) |-> Step(h, s)]
      BY <2>3
    <2>5. \E k : k = [s \in Small(n + 1) |-> Step(k, s)]
      <3> HIDE DEF h, Step, Small
      <3> QED
        BY <2>4
    <2>6. n + 1 \in Nat
      OBVIOUS
    <2> HIDE DEF Step, Small
    <2> QED
      BY <2>5, <2>6, Zenon
  <1>4. Cardinality(S) \in T
    <2>1. T \in SUBSET Nat
      OBVIOUS
    <2> HIDE DEF T
    <2> QED
      BY <1>0, <1>2, <1>3, <2>1, Induction
  <1>5. Small(Cardinality(S)) = SUBSET S
    BY FS_Subset
  <1>6. PICK g : g = [s \in SUBSET S |-> Step(g, s)]
    BY <1>4, <1>5
  <1> QED
    BY <1>6 DEF IsSum

(* So the sum over a set satisfies its recursion. *)
LEMMA SumUnfolds ==
    ASSUME NEW S, IsFiniteSet(S), NEW f \in [S -> Nat]
    PROVE  /\ SumOver(f, S)[{}] = 0
           /\ \A s \in SUBSET S : s # {} =>
                /\ First(s) \in s
                /\ SumOver(f, S)[s] = f[First(s)] + SumOver(f, S)[s \ {First(s)}]
  <1> DEFINE g == SumOver(f, S)
  <1>1. IsSum(g, f, S)
    BY SumExists DEF SumOver
  <1> HIDE DEF g
  <1>2. g[{}] = 0
    BY <1>1 DEF IsSum
  <1>3. ASSUME NEW s \in SUBSET S, s # {}
        PROVE  First(s) \in s /\ g[s] = f[First(s)] + g[s \ {First(s)}]
    BY <1>1, <1>3 DEF IsSum, First
  <1> QED
    BY <1>2, <1>3 DEF g

(* The part of a family that violates a claim has a smallest member.  All  *)
(* the facts about sums below are proved on it.                            *)
LEMMA SumType ==
    ASSUME NEW U, IsFiniteSet(U), NEW f \in [U -> Nat], NEW A \in SUBSET U
    PROVE  SumOver(f, U)[A] \in Nat
  <1> DEFINE Wrong == {s \in SUBSET U : SumOver(f, U)[s] \notin Nat}
  <1>1. SUFFICES ASSUME Wrong # {} PROVE FALSE
    OBVIOUS
  <1>2. PICK m \in Wrong : \A t \in Wrong : t \subseteq m => t = m
    <2>1. Wrong \in SUBSET (SUBSET U)
      OBVIOUS
    <2> HIDE DEF Wrong
    <2> QED
      BY <1>1, <2>1, Minimal
  <1>3. m # {}
    <2>1. SumOver(f, U)[{}] = 0
      BY SumUnfolds
    <2> QED
      BY <2>1
  <1>4. First(m) \in m /\ SumOver(f, U)[m] = f[First(m)] + SumOver(f, U)[m \ {First(m)}]
    BY <1>3, SumUnfolds
  <1>5. SumOver(f, U)[m \ {First(m)}] \in Nat
    BY <1>2, <1>4
  <1> QED
    BY <1>4, <1>5

(* The order in which elements are added does not matter. *)
LEMMA SumAdds ==
    ASSUME NEW U, IsFiniteSet(U), NEW f \in [U -> Nat], NEW A \in SUBSET U, NEW c \in U \ A
    PROVE  SumOver(f, U)[A \cup {c}] = f[c] + SumOver(f, U)[A]
  <1> DEFINE g == SumOver(f, U)
             Right(s) == \A x \in U \ s : g[s \cup {x}] = f[x] + g[s]
             Wrong == {s \in SUBSET U : ~Right(s)}
  <1>1. SUFFICES ASSUME Wrong # {} PROVE FALSE
    OBVIOUS
  <1>2. PICK m \in Wrong : \A t \in Wrong : t \subseteq m => t = m
    <2>1. Wrong \in SUBSET (SUBSET U)
      OBVIOUS
    <2> HIDE DEF Wrong
    <2> QED
      BY <1>1, <2>1, Minimal
  <1>3. PICK x \in U \ m : g[m \cup {x}] # f[x] + g[m]
    OBVIOUS
  <1> DEFINE y == First(m \cup {x})
  <1>4. y \in m \cup {x} /\ g[m \cup {x}] = f[y] + g[(m \cup {x}) \ {y}]
    <2>1. m \cup {x} \in SUBSET U /\ m \cup {x} # {}
      OBVIOUS
    <2> QED
      BY <2>1, SumUnfolds
  <1> HIDE DEF y
  <1>5. y # x /\ y \in m
    BY <1>3, <1>4
  <1>6. Right(m \ {y})
    BY <1>2, <1>5
  <1>7. (m \cup {x}) \ {y} = (m \ {y}) \cup {x} /\ (m \ {y}) \cup {y} = m /\ x \in U \ (m \ {y}) /\ y \in U \ (m \ {y})
    BY <1>3, <1>5
  <1>8. g[(m \cup {x}) \ {y}] = f[x] + g[m \ {y}] /\ g[m] = f[y] + g[m \ {y}]
    BY <1>6, <1>7
  <1>9. g[m \ {y}] \in Nat /\ f[x] \in Nat /\ f[y] \in Nat
    BY <1>5, SumType
  <1> HIDE DEF g
  <1> QED
    BY <1>3, <1>4, <1>8, <1>9

(* The sums of disjoint sets add up. *)
LEMMA SumDisjoint ==
    ASSUME NEW U, IsFiniteSet(U), NEW f \in [U -> Nat], NEW A \in SUBSET U, NEW B \in SUBSET U, A \cap B = {}
    PROVE  SumOver(f, U)[A \cup B] = SumOver(f, U)[A] + SumOver(f, U)[B]
  <1> DEFINE g == SumOver(f, U)
             Right(s) == s \cap A = {} => g[A \cup s] = g[A] + g[s]
             Wrong == {s \in SUBSET U : ~Right(s)}
  <1>1. SUFFICES ASSUME Wrong # {} PROVE FALSE
    OBVIOUS
  <1>2. PICK m \in Wrong : \A t \in Wrong : t \subseteq m => t = m
    <2>1. Wrong \in SUBSET (SUBSET U)
      OBVIOUS
    <2> HIDE DEF Wrong
    <2> QED
      BY <1>1, <2>1, Minimal
  <1>3. g[A] \in Nat /\ g[m] \in Nat /\ m \cap A = {} /\ g[A \cup m] # g[A] + g[m]
    BY <1>2, SumType
  <1>4. g[{}] = 0
    BY SumUnfolds
  <1>5. PICK x \in m : TRUE
    <2>1. CASE m = {}
      <3>1. A \cup m = A /\ g[m] = 0
        BY <1>4, <2>1
      <3>2. g[A] + 0 = g[A]
        BY <1>3
      <3> QED
        BY <1>3, <3>1, <3>2
    <2> QED
      BY <2>1
  <1>6. Right(m \ {x})
    BY <1>2, <1>5
  <1>7. g[A \cup (m \ {x})] = g[A] + g[m \ {x}]
    BY <1>3, <1>6
  <1>8. g[m] = f[x] + g[m \ {x}]
    <2>1. (m \ {x}) \cup {x} = m /\ m \ {x} \in SUBSET U /\ x \in U \ (m \ {x})
      BY <1>5
    <2>2. g[(m \ {x}) \cup {x}] = f[x] + g[m \ {x}]
      BY <2>1, SumAdds
    <2> QED
      BY <2>1, <2>2
  <1>9. g[A \cup m] = f[x] + g[A \cup (m \ {x})]
    <2> DEFINE rest == A \cup (m \ {x})
    <2>1. rest \cup {x} = A \cup m /\ rest \in SUBSET U /\ x \in U \ rest
      BY <1>3, <1>5
    <2> HIDE DEF rest
    <2>2. g[rest \cup {x}] = f[x] + g[rest]
      BY <2>1, SumAdds
    <2> QED
      BY <2>1, <2>2 DEF rest
  <1>10. g[m \ {x}] \in Nat /\ f[x] \in Nat
    BY <1>5, SumType
  <1>11. \A a, b, c, d, e, n \in Nat : a = n + b /\ b = c + d /\ e = n + d => a = c + e
    OBVIOUS
  <1>12. g[A \cup (m \ {x})] \in Nat /\ g[A \cup m] \in Nat
    BY SumType
  <1> HIDE DEF g
  <1> QED
    BY <1>3, <1>7, <1>8, <1>9, <1>10, <1>11, <1>12

(* Two functions that agree on a set have the same sum over it, in         *)
(* whatever larger set the sum is taken.                                   *)
LEMMA SumAgrees ==
    ASSUME NEW U, IsFiniteSet(U), NEW f \in [U -> Nat], NEW V, IsFiniteSet(V), NEW h \in [V -> Nat],
           NEW A \in SUBSET U, A \in SUBSET V, \A x \in A : f[x] = h[x]
    PROVE  SumOver(f, U)[A] = SumOver(h, V)[A]
  <1> DEFINE g == SumOver(f, U)
             k == SumOver(h, V)
             Wrong == {s \in SUBSET A : g[s] # k[s]}
  <1>1. SUFFICES ASSUME Wrong # {} PROVE FALSE
    OBVIOUS
  <1>2. PICK m \in Wrong : \A t \in Wrong : t \subseteq m => t = m
    <2>1. Wrong \in SUBSET (SUBSET U)
      OBVIOUS
    <2> HIDE DEF Wrong
    <2> QED
      BY <1>1, <2>1, Minimal
  <1>3. g[{}] = 0 /\ k[{}] = 0
    BY SumUnfolds
  <1>4. m # {}
    BY <1>3
  <1>5. First(m) \in m /\ g[m] = f[First(m)] + g[m \ {First(m)}]
    BY <1>4, SumUnfolds
  <1>6. k[m] = h[First(m)] + k[m \ {First(m)}]
    BY <1>4, SumUnfolds
  <1>7. g[m \ {First(m)}] = k[m \ {First(m)}]
    BY <1>2, <1>5
  <1> QED
    BY <1>5, <1>6, <1>7

(* A larger set has no smaller sum, as far as the elements count. *)
LEMMA SumGrows ==
    ASSUME NEW U, IsFiniteSet(U), NEW f \in [U -> Nat], NEW A \in SUBSET U, NEW B \in SUBSET U,
           \A x \in A : f[x] > 0 => x \in B
    PROVE  SumOver(f, U)[A] <= SumOver(f, U)[B]
  <1> DEFINE g == SumOver(f, U)
             Wrong == {s \in SUBSET (A \ B) : g[s] # 0}
  <1>1. g[A \ B] = 0
    <2>1. SUFFICES ASSUME Wrong # {} PROVE FALSE
      OBVIOUS
    <2>2. PICK m \in Wrong : \A t \in Wrong : t \subseteq m => t = m
      <3>1. Wrong \in SUBSET (SUBSET U)
        OBVIOUS
      <3> HIDE DEF Wrong
      <3> QED
        BY <2>1, <3>1, Minimal
    <2>3. m # {}
      BY SumUnfolds
    <2>4. First(m) \in m /\ g[m] = f[First(m)] + g[m \ {First(m)}]
      BY <2>3, SumUnfolds
    <2>5. g[m \ {First(m)}] = 0
      BY <2>2, <2>4
    <2>6. f[First(m)] = 0
      BY <2>4
    <2> QED
      BY <2>4, <2>5, <2>6
  <1>2. g[A \cap B] \in Nat /\ g[B \ A] \in Nat /\ g[A] \in Nat /\ g[B] \in Nat
    BY SumType
  <1> DEFINE both == A \cap B
             lost == A \ B
             more == B \ A
  <1>3. /\ both \in SUBSET U /\ lost \in SUBSET U /\ more \in SUBSET U
        /\ both \cap lost = {} /\ both \cap more = {} /\ both \cup lost = A /\ both \cup more = B
    OBVIOUS
  <1>4. g[lost] = 0 /\ g[both] \in Nat /\ g[more] \in Nat
    BY <1>1, <1>2
  <1> HIDE DEF both, lost, more
  <1> HIDE DEF Wrong
  <1>0. \A P \in SUBSET U, Q \in SUBSET U : P \cap Q = {} => g[P \cup Q] = g[P] + g[Q]
    BY SumDisjoint
  <1> HIDE DEF g
  <1>5. g[both \cup lost] = g[both] + g[lost]
    BY <1>0, <1>3
  <1>6. g[both \cup more] = g[both] + g[more]
    BY <1>0, <1>3
  <1>7. g[A] = g[both] + g[lost] /\ g[B] = g[both] + g[more]
    BY <1>3, <1>5, <1>6
  <1>8. g[A] <= g[B]
    <2> HIDE DEF g
    <2> QED
      BY <1>4, <1>7
  <1> QED
    BY <1>8 DEF g

(* One function has more than another for one element, and agrees with it  *)
(* on the others.                                                          *)
HasMore(h, f, S, c, v) == \A x \in S : h[x] = f[x] + (IF x = c THEN v ELSE 0)

(* More for one element is as much more for every set it is in. *)
LEMMA SumChanges ==
    ASSUME NEW U, IsFiniteSet(U), NEW f \in [U -> Nat], NEW h \in [U -> Nat], NEW c \in U, NEW v \in Nat,
           HasMore(h, f, U, c, v), NEW A \in SUBSET U
    PROVE  /\ c \in A => SumOver(h, U)[A] = SumOver(f, U)[A] + v
           /\ c \notin A => SumOver(h, U)[A] = SumOver(f, U)[A]
  <1> DEFINE g == SumOver(f, U)
             k == SumOver(h, U)
  <1>1. k[A \ {c}] = g[A \ {c}]
    BY SumAgrees DEF HasMore
  <1>2. CASE c \notin A
    <2>1. A \ {c} = A
      BY <1>2
    <2>2. g[A] \in Nat
      BY SumType
    <2> QED
      BY <1>1, <1>2, <2>1, <2>2
  <1>3. CASE c \in A
    <2> DEFINE B == A \ {c}
    <2>1. B \cup {c} = A /\ B \in SUBSET U /\ c \in U \ B /\ k[B] = g[B]
      BY <1>1, <1>3
    <2> HIDE DEF B
    <2>2. g[B \cup {c}] = f[c] + g[B]
      BY <2>1, SumAdds
    <2>3. k[B \cup {c}] = h[c] + k[B]
      BY <2>1, SumAdds
    <2>4. h[c] = f[c] + v /\ f[c] \in Nat /\ g[B] \in Nat
      BY <2>1, SumType DEF HasMore
    <2>5. g[A] = f[c] + g[B] /\ k[A] = h[c] + g[B]
      BY <2>1, <2>2, <2>3
    <2>6. k[A] = g[A] + v
      <3> HIDE DEF g, k
      <3> QED
        BY <2>4, <2>5
    <2> QED
      BY <1>3, <2>6
  <1> QED
    BY <1>2, <1>3

-----------------------------------------------------------------------------
(* The usage window.  That Sum is accurate is not inductive: it says        *)
(* nothing of which slot holds what.  The proof carries that every bucket   *)
(* in use holds exactly what was added in its span of the clock, that no    *)
(* two buckets stand for one span, and that the spans without a bucket      *)
(* have left the window.                                                    *)

Instants == 0..WindowHorizon

(* The start of the bucket that an instant belongs to, and the instants of  *)
(* the bucket that starts at a time                                         *)
Trunc(t) == t - (t % BucketSize)
Span(x) == {t \in Instants : Trunc(t) = x}

(* What was added at the instants of a set *)
AddedAt(a, S) == SumOver(a, Instants)[S]

WindowTypes(bs, a, n) ==
    /\ n \in Instants
    /\ bs \in [Slots -> [ts : Int, value : Nat]]
    /\ a \in [Instants -> Nat]
Aligned(bs, n) ==
    \A i \in Slots : bs[i].ts # ZeroTime =>
        bs[i].ts <= n /\ \E k \in Nat : bs[i].ts = BucketSize * k
OneBucketASpan(bs) ==
    \A i, j \in Slots : bs[i].ts = bs[j].ts => i = j \/ bs[i].ts = ZeroTime
BucketsExact(bs, a) == \A i \in Slots : bs[i].value = AddedAt(a, Span(bs[i].ts))
RecentCovered(bs, a, n) ==
    \A t \in Instants : a[t] > 0 =>
        t <= n /\ (Trunc(t) <= n - Window \/ \E i \in Slots : bs[i].ts = Trunc(t))

WindowSound(bs, a, n) ==
    /\ WindowTypes(bs, a, n)
    /\ Aligned(bs, n)
    /\ OneBucketASpan(bs)
    /\ BucketsExact(bs, a)
    /\ RecentCovered(bs, a, n)

WindowInv == head \in Slots /\ WindowSound(buckets, added, now)

(* No instant lies before the start of its bucket or beyond its end. *)
LEMMA TruncFacts ==
    ASSUME NEW t \in Instants
    PROVE  /\ Trunc(t) \in Nat /\ Trunc(t) <= t /\ t < Trunc(t) + BucketSize
           /\ \E k \in Nat : Trunc(t) = BucketSize * k
  <1>0. BucketSize \in Nat \ {0} /\ WindowHorizon \in Nat
    BY WindowAssumption DEF WindowAssumption
  <1>1. t \in Nat
    BY <1>0 DEF Instants
  <1>2. t % BucketSize \in 0..(BucketSize - 1)
    BY <1>0, <1>1
  <1>3. t = BucketSize * (t \div BucketSize) + (t % BucketSize) /\ t \div BucketSize \in Nat
    BY <1>0, <1>1
  <1> DEFINE r == t % BucketSize
             k == t \div BucketSize
  <1>4. Trunc(t) = t - r
    BY DEF Trunc
  <1>5. r \in Nat /\ r < BucketSize /\ k \in Nat /\ t = BucketSize * k + r /\ BucketSize * k \in Nat
    BY <1>0, <1>2, <1>3
  <1> HIDE DEF r, k
  <1>6. Trunc(t) = BucketSize * k
    BY <1>1, <1>4, <1>5
  <1> QED
    BY <1>0, <1>1, <1>4, <1>5, <1>6

(* The window is at least one bucket long. *)
LEMMA WindowSize ==
    /\ Window \in Nat /\ BucketSize \in Nat /\ BucketSize > 0 /\ Window >= BucketSize
    /\ NumBuckets \in Nat /\ NumBuckets > 0
    /\ IsFiniteSet(Slots) /\ IsFiniteSet(Instants)
  <1>0. BucketSize \in Nat \ {0} /\ NumBuckets \in Nat \ {0} /\ WindowHorizon \in Nat
    BY WindowAssumption DEF WindowAssumption
  <1>1. Window \in Nat /\ Window >= BucketSize
    <2>1. PICK m \in Nat : NumBuckets = m + 1
      BY <1>0
    <2>2. m * BucketSize \in Nat /\ (m + 1) * BucketSize = m * BucketSize + BucketSize
      BY <1>0
    <2> QED
      BY <1>0, <2>1, <2>2 DEF Window
  <1>2. IsFiniteSet(Slots) /\ IsFiniteSet(Instants)
    BY <1>0, FS_Interval DEF Slots, Instants
  <1> QED
    BY <1>0, <1>1, <1>2

(* A nonempty set of natural numbers has a least element. *)
LEMMA LeastNat ==
    ASSUME NEW S \in SUBSET Nat, S # {}
    PROVE  \E x \in S : \A y \in S : x <= y
  <1>1. PICK x \in S : \A y \in S : ~(<<y, x>> \in OpToRel(<, Nat))
    BY NatLessThanWellFounded, WFMin
  <1>2. \A y \in S : ~(y < x)
    BY <1>1 DEF OpToRel
  <1>3. \A y \in S : x <= y
    BY <1>2
  <1> QED
    BY <1>3

(* The least element of a nonempty set of slots is one of them. *)
LEMMA MinSlot ==
    ASSUME NEW S \in SUBSET Slots, S # {}
    PROVE  Min(S) \in S
  <1>0. S \in SUBSET Nat
    BY WindowSize DEF Slots
  <1>1. \E x \in S : \A y \in S : x <= y
    BY <1>0, LeastNat
  <1> QED
    BY <1>1 DEF Min

(* A nonempty set of slots that are in use has one with the oldest bucket. *)
LEMMA OldestExists ==
    ASSUME NEW bs, NEW n, Aligned(bs, n), bs \in [Slots -> [ts : Int, value : Nat]],
           \A i \in Slots : bs[i].ts # ZeroTime
    PROVE  \E i \in Slots : \A j \in Slots : bs[i].ts <= bs[j].ts
  <1> DEFINE S == {bs[i].ts : i \in Slots}
  <1>1. \A i \in Slots : bs[i].ts \in Nat
    <2>1. SUFFICES ASSUME NEW i \in Slots PROVE bs[i].ts \in Nat
      OBVIOUS
    <2>2. PICK k \in Nat : bs[i].ts = BucketSize * k
      BY DEF Aligned
    <2> QED
      BY <2>2, WindowSize
  <1>2. S \in SUBSET Nat /\ S # {}
    <2>1. 0 \in Slots
      BY WindowSize DEF Slots
    <2> QED
      BY <1>1, <2>1
  <1> HIDE DEF S
  <1>4. PICK x \in S : \A y \in S : x <= y
    BY <1>2, LeastNat
  <1> QED
    BY <1>4 DEF S

(* The slot that Add picks: the one of the current bucket if there is one, *)
(* else an empty one, else the oldest.  The head of SlidingWindow points   *)
(* to the one slot of the current bucket or is not used.                   *)
LEMMA SlotPicked ==
    ASSUME NEW bs, WindowSound(bs, added, now), head \in Slots
    PROVE  /\ SlidingSlot(bs) = RollingSlot(bs)
           /\ RollingSlot(bs) \in Slots
           /\ \/ bs[RollingSlot(bs)].ts = BucketTime
              \/ /\ \A j \in Slots : bs[j].ts # BucketTime
                 /\ \/ bs[RollingSlot(bs)].ts = ZeroTime
                    \/ \A j \in Slots : bs[j].ts # ZeroTime /\ bs[RollingSlot(bs)].ts <= bs[j].ts
  <1> DEFINE same   == {i \in Slots : bs[i].ts = BucketTime}
             empty  == {i \in Slots : bs[i].ts = ZeroTime}
             oldest == {i \in Slots : \A j \in Slots : bs[i].ts <= bs[j].ts}
  <1>0. same \in SUBSET Slots /\ empty \in SUBSET Slots /\ oldest \in SUBSET Slots
    OBVIOUS
  <1>1. same # {} => Min(same) \in same
    BY <1>0, MinSlot
  <1>2. empty # {} => Min(empty) \in empty
    BY <1>0, MinSlot
  <1>3. empty = {} => oldest # {} /\ Min(oldest) \in oldest
    <2>1. SUFFICES ASSUME empty = {} PROVE oldest # {} /\ Min(oldest) \in oldest
      OBVIOUS
    <2>2. oldest # {}
      BY <2>1, OldestExists DEF WindowSound, WindowTypes
    <2> QED
      BY <1>0, <2>2, MinSlot
  <1>4. /\ same # {} => RollingSlot(bs) = Min(same)
        /\ same = {} /\ empty # {} => RollingSlot(bs) = Min(empty)
        /\ same = {} /\ empty = {} => RollingSlot(bs) = Min(oldest)
    BY DEF RollingSlot
  <1>5. BucketTime # ZeroTime
    <2>1. now \in Instants /\ BucketTime = Trunc(now)
      BY DEF WindowSound, WindowTypes, BucketTime, Trunc
    <2> QED
      BY <2>1, TruncFacts DEF ZeroTime
  <1>6. bs[head].ts = BucketTime => RollingSlot(bs) = head
    <2>1. SUFFICES ASSUME bs[head].ts = BucketTime PROVE RollingSlot(bs) = head
      OBVIOUS
    <2>2. head \in same
      BY <2>1
    <2>3. Min(same) \in same /\ RollingSlot(bs) = Min(same)
      BY <1>1, <1>4, <2>2
    <2> QED
      BY <1>5, <2>2, <2>3 DEF WindowSound, OneBucketASpan
  <1>7. SlidingSlot(bs) = RollingSlot(bs)
    BY <1>6 DEF SlidingSlot
  <1>8. CASE same # {}
    BY <1>1, <1>4, <1>7, <1>8
  <1>9. CASE same = {} /\ empty # {}
    BY <1>2, <1>4, <1>7, <1>9
  <1>10. CASE same = {} /\ empty = {}
    BY <1>3, <1>4, <1>7, <1>10
  <1> QED
    BY <1>8, <1>9, <1>10

(* When every slot is in use and none by the current bucket, the oldest    *)
(* has left the window: there are not more spans within it than slots.     *)
LEMMA OldestHasLeft ==
    ASSUME NEW bs, NEW a, NEW n, WindowSound(bs, a, n), NEW i \in Slots,
           \A j \in Slots : bs[j].ts # ZeroTime /\ bs[j].ts # Trunc(n) /\ bs[i].ts <= bs[j].ts
    PROVE  bs[i].ts <= n - Window
  <1> DEFINE k == [j \in Slots |-> CHOOSE m \in Nat : bs[j].ts = BucketSize * m]
  <1>0. n \in Instants /\ n \in Nat /\ BucketSize \in Nat /\ BucketSize > 0 /\ NumBuckets \in Nat /\ NumBuckets > 0
    BY WindowSize, WindowAssumption DEF WindowSound, WindowTypes, Instants, WindowAssumption
  <1>1. \A j \in Slots : k[j] \in Nat /\ bs[j].ts = BucketSize * k[j] /\ bs[j].ts <= n
    BY DEF WindowSound, Aligned
  <1>2. PICK K \in Nat : Trunc(n) = BucketSize * K
    BY <1>0, TruncFacts
  <1>3. Trunc(n) <= n /\ n < Trunc(n) + BucketSize /\ Trunc(n) \in Nat
    BY <1>0, TruncFacts
  <1> HIDE DEF k
  <1>4. ASSUME NEW j \in Slots PROVE k[j] < K
    <2>1. SUFFICES ASSUME k[j] >= K PROVE FALSE
      BY <1>1, <1>2
    <2>2. k[j] # K
      BY <1>1, <1>2
    <2>3. PICK d \in Nat : k[j] = K + 1 + d
      <3>1. k[j] - (K + 1) \in Nat /\ k[j] = K + 1 + (k[j] - (K + 1))
        BY <1>1, <1>2, <2>1, <2>2
      <3> QED
        BY <3>1
    <2>4. BucketSize * (K + 1 + d) = BucketSize * K + BucketSize + BucketSize * d /\ BucketSize * d \in Nat
      BY <1>0, <1>2
    <2> QED
      BY <1>0, <1>1, <1>2, <1>3, <2>3, <2>4
  <1>5. ASSUME NEW j \in Slots, NEW l \in Slots, k[j] = k[l] PROVE j = l
    <2>1. bs[j].ts = bs[l].ts
      BY <1>1, <1>5
    <2> QED
      BY <2>1 DEF WindowSound, OneBucketASpan
  <1> DEFINE Recent == (K - NumBuckets + 1)..(K - 1)
  <1>6. \E j \in Slots : k[j] \notin Recent
    <2>1. SUFFICES ASSUME \A j \in Slots : k[j] \in Recent PROVE FALSE
      OBVIOUS
    <2>2. IsFiniteSet(Recent) /\ Cardinality(Recent) = NumBuckets - 1
      <3>1. K - NumBuckets + 1 \in Int /\ K - 1 \in Int
        BY <1>0, <1>2
      <3>2. Cardinality(Recent) = IF K - NumBuckets + 1 > K - 1 THEN 0 ELSE (K - 1) - (K - NumBuckets + 1) + 1
        BY <3>1, FS_Interval
      <3> QED
        BY <1>0, <1>2, <3>1, <3>2, FS_Interval
    <2>3. IsFiniteSet(Slots) /\ Cardinality(Slots) = NumBuckets
      <3>1. 0 \in Int /\ NumBuckets - 1 \in Int
        BY <1>0
      <3>2. Cardinality(Slots) = IF 0 > NumBuckets - 1 THEN 0 ELSE (NumBuckets - 1) - 0 + 1
        BY <3>1, FS_Interval DEF Slots
      <3> QED
        BY <1>0, <3>2, WindowSize
    <2>4. k \in [Slots -> Recent]
      <3>1. k = [j \in Slots |-> k[j]]
        BY DEF k
      <3> QED
        BY <2>1, <3>1
    <2>5. NumBuckets > NumBuckets - 1
      BY <1>0
    <2> HIDE DEF Recent
    <2>6. \E x, y \in Slots : x # y /\ k[x] = k[y]
      BY <2>2, <2>3, <2>4, <2>5, FS_PigeonHole
    <2> QED
      BY <1>5, <2>6
  <1>7. PICK j \in Slots : k[j] \notin Recent
    BY <1>6
  <1>8. k[j] \in Nat /\ k[j] <= K - NumBuckets
    BY <1>0, <1>1, <1>2, <1>4, <1>7
  <1>9. BucketSize * k[j] <= Trunc(n) - Window
    <2>1. PICK d \in Nat : K = k[j] + NumBuckets + d
      <3>1. K - (k[j] + NumBuckets) \in Nat /\ K = k[j] + NumBuckets + (K - (k[j] + NumBuckets))
        BY <1>0, <1>2, <1>8
      <3> QED
        BY <3>1
    <2>2. BucketSize * (k[j] + NumBuckets + d) = BucketSize * k[j] + NumBuckets * BucketSize + BucketSize * d
          /\ BucketSize * d \in Nat /\ NumBuckets * BucketSize \in Nat /\ BucketSize * k[j] \in Nat
      BY <1>0, <1>8, <2>1
    <2> QED
      BY <1>2, <2>1, <2>2 DEF Window
  <1>10. bs[i].ts <= bs[j].ts /\ bs[i].ts \in Int
    BY DEF WindowSound, WindowTypes
  <1> QED
    BY <1>0, <1>1, <1>3, <1>9, <1>10, WindowSize

(* Nothing is added in the span of an empty slot: it has none. *)
LEMMA NoSpan == Span(ZeroTime) = {}
  BY TruncFacts DEF Span, ZeroTime

(* What is added at the instants of a set is a number. *)
LEMMA AddedType ==
    ASSUME NEW a \in [Instants -> Nat], NEW S \in SUBSET Instants
    PROVE  AddedAt(a, S) \in Nat
  BY WindowSize, SumType DEF AddedAt

(* Pruning drops only buckets that have left the window. *)
LEMMA PrunedSound ==
    ASSUME WindowSound(buckets, added, now)
    PROVE  /\ WindowSound(Pruned, added, now)
           /\ \A i \in Slots : Pruned[i].ts # ZeroTime => Pruned[i].ts >= now - Window
  <1> DEFINE bs == Pruned
  <1>0. WindowTypes(buckets, added, now) /\ now \in Nat /\ Window \in Nat
    BY WindowSize, WindowAssumption DEF WindowSound, WindowTypes, Instants, WindowAssumption
  <1>1. \A i \in Slots : buckets[i].ts \in Int /\ buckets[i].value \in Nat
    BY <1>0 DEF WindowTypes
  <1>2. ASSUME NEW i \in Slots
        PROVE  \/ bs[i] = EmptyBucket /\ buckets[i].ts # ZeroTime /\ buckets[i].ts < now - Window
               \/ bs[i] = buckets[i] /\ (buckets[i].ts # ZeroTime => buckets[i].ts >= now - Window)
    BY <1>0, <1>1 DEF Pruned
  <1>3. EmptyBucket.ts = ZeroTime /\ EmptyBucket.value = 0 /\ EmptyBucket \in [ts : Int, value : Nat]
    BY DEF EmptyBucket, ZeroTime
  <1>4. \A i \in Slots : bs[i] = buckets[i] \/ (bs[i].ts = ZeroTime /\ bs[i].value = 0)
    BY <1>2, <1>3
  <1>5. WindowTypes(bs, added, now)
    <2>1. bs \in [Slots -> [ts : Int, value : Nat]]
      BY <1>0, <1>3 DEF WindowTypes, Pruned
    <2> QED
      BY <1>0, <2>1 DEF WindowTypes
  <1>6. \A i \in Slots : bs[i].ts # ZeroTime => bs[i].ts >= now - Window
    BY <1>2, <1>3
  <1> HIDE DEF bs
  <1>7. Aligned(bs, now)
    BY <1>4 DEF WindowSound, Aligned
  <1>8. OneBucketASpan(bs)
    BY <1>4 DEF WindowSound, OneBucketASpan
  <1>9. BucketsExact(bs, added)
    <2>1. AddedAt(added, Span(ZeroTime)) = 0
      <3>1. SumOver(added, Instants)[{}] = 0
        BY <1>0, WindowSize, SumUnfolds DEF WindowTypes
      <3> QED
        BY <3>1, NoSpan DEF AddedAt
    <2> QED
      BY <1>4, <2>1 DEF WindowSound, BucketsExact
  <1>10. RecentCovered(bs, added, now)
    <2>1. SUFFICES ASSUME NEW t \in Instants, added[t] > 0
                   PROVE  t <= now /\ (Trunc(t) <= now - Window \/ \E i \in Slots : bs[i].ts = Trunc(t))
      BY DEF RecentCovered
    <2>2. t <= now /\ (Trunc(t) <= now - Window \/ \E i \in Slots : buckets[i].ts = Trunc(t))
      BY <2>1 DEF WindowSound, RecentCovered
    <2>3. ASSUME NEW i \in Slots, buckets[i].ts = Trunc(t)
          PROVE  Trunc(t) <= now - Window \/ bs[i].ts = Trunc(t)
      BY <1>0, <1>2, <2>3, TruncFacts DEF bs
    <2> QED
      BY <2>2, <2>3
  <1> QED
    BY <1>5, <1>6, <1>7, <1>8, <1>9, <1>10 DEF WindowSound, bs

(* The instants of the buckets in some slots *)
Spanned(bs, S) == {t \in Instants : \E i \in S : bs[i].ts = Trunc(t)}

(* So the sum over the slots is what was added in the spans they hold. *)
LEMMA TotalIsSpanned ==
    ASSUME NEW bs, NEW a, NEW n, WindowSound(bs, a, n)
    PROVE  WindowTotal(bs) = AddedAt(a, Spanned(bs, Slots))
  <1> DEFINE values == [i \in Slots |-> bs[i].value]
             g == SumOver(values, Slots)
             Wrong == {S \in SUBSET Slots : g[S] # AddedAt(a, Spanned(bs, S))}
  <1>0. IsFiniteSet(Slots) /\ IsFiniteSet(Instants) /\ a \in [Instants -> Nat] /\ values \in [Slots -> Nat]
    BY WindowSize DEF WindowSound, WindowTypes
  <1>1. WindowTotal(bs) = g[Slots]
    BY DEF WindowTotal, MapThenSumSet, MapThenFoldSet, SumOver, IsSum, First
  <1>2. Wrong = {}
    <2>1. SUFFICES ASSUME Wrong # {} PROVE FALSE
      OBVIOUS
    <2>2. PICK m \in Wrong : \A t \in Wrong : t \subseteq m => t = m
      <3>1. Wrong \in SUBSET (SUBSET Slots)
        OBVIOUS
      <3> HIDE DEF Wrong
      <3> QED
        BY <1>0, <2>1, <3>1, Minimal
    <2>3. g[{}] = 0 /\ SumOver(a, Instants)[{}] = 0
      <3> HIDE DEF values
      <3> QED
        BY <1>0, SumUnfolds
    <2>4. PICK x \in m : TRUE
      <3>1. Spanned(bs, {}) = {}
        BY DEF Spanned
      <3> QED
        BY <2>3, <3>1 DEF AddedAt
    <2> DEFINE rest == m \ {x}
    <2>5. rest \in SUBSET Slots /\ x \in Slots \ rest /\ rest \cup {x} = m /\ g[rest] = AddedAt(a, Spanned(bs, rest))
      BY <2>2, <2>4
    <2> HIDE DEF rest
    <2>6. g[rest \cup {x}] = values[x] + g[rest]
      <3> HIDE DEF values
      <3> QED
        BY <1>0, <2>5, SumAdds
    <2>7. values[x] = AddedAt(a, Span(bs[x].ts))
      BY <2>5 DEF WindowSound, BucketsExact
    <2> DEFINE P == Span(bs[x].ts)
               Q == Spanned(bs, rest)
    <2>8. P \in SUBSET Instants /\ Q \in SUBSET Instants
      BY DEF Span, Spanned
    <2>9. P \cap Q = {}
      <3>1. SUFFICES ASSUME NEW t \in Instants, bs[x].ts = Trunc(t), NEW i \in rest, bs[i].ts = Trunc(t) PROVE FALSE
        BY DEF Span, Spanned
      <3>2. i \in Slots /\ i # x /\ x \in Slots
        BY <2>5
      <3>3. bs[i].ts # ZeroTime
        BY <3>1, TruncFacts DEF ZeroTime
      <3> QED
        BY <3>1, <3>2, <3>3 DEF WindowSound, OneBucketASpan
    <2>10. P \cup Q = Spanned(bs, m)
      BY <2>5 DEF Span, Spanned
    <2> HIDE DEF P, Q
    <2>11. AddedAt(a, P \cup Q) = AddedAt(a, P) + AddedAt(a, Q)
      BY <1>0, <2>8, <2>9, SumDisjoint DEF AddedAt
    <2>12. g[m] = AddedAt(a, P) + AddedAt(a, Q)
      <3> HIDE DEF values, g
      <3> QED
        BY <2>5, <2>6, <2>7 DEF P, Q
    <2> QED
      BY <2>2, <2>10, <2>11, <2>12
  <1> QED
    BY <1>1, <1>2

(* Add leaves the window sound, whether it finds the current bucket, takes *)
(* an empty slot or overwrites the oldest.                                 *)
LEMMA AddSound ==
    ASSUME WindowInv, NEW v \in Nat, WindowAdd(v)
    PROVE  WindowInv'
  <1> DEFINE bs == Pruned
             i  == SlidingSlot(bs)
             new == [added EXCEPT ![now] = added[now] + v]
             b == IF bs[i].ts = BucketTime THEN bs[i] ELSE [ts |-> BucketTime, value |-> 0]
             after == [bs EXCEPT ![i] = [b EXCEPT !.value = b.value + v]]
  <1>1. WindowSound(bs, added, now) /\ head \in Slots
    BY PrunedSound DEF WindowInv
  <1>2. buckets' = after /\ added' = new /\ now' = now /\ head' \in {head, i}
    BY DEF WindowAdd
  <1>3. BucketTime = Trunc(now)
    BY DEF BucketTime, Trunc
  <1> HIDE DEF bs
  <1>4. /\ i \in Slots
        /\ \/ bs[i].ts = Trunc(now)
           \/ /\ \A j \in Slots : bs[j].ts # Trunc(now)
              /\ \/ bs[i].ts = ZeroTime
                 \/ \A j \in Slots : bs[j].ts # ZeroTime /\ bs[i].ts <= bs[j].ts
    BY <1>1, <1>3, SlotPicked
  <1> HIDE DEF i
  <1>5. /\ now \in Instants /\ now \in Nat /\ Trunc(now) \in Nat /\ Trunc(now) <= now /\ now < Trunc(now) + BucketSize
        /\ \E k \in Nat : Trunc(now) = BucketSize * k
        /\ Window \in Nat /\ BucketSize \in Nat /\ Window >= BucketSize
    <2>1. now \in Instants
      BY <1>1 DEF WindowSound, WindowTypes
    <2>2. now \in Nat
      BY <2>1, WindowAssumption DEF Instants, WindowAssumption
    <2> QED
      BY <2>1, <2>2, TruncFacts, WindowSize
  <1>6. bs \in [Slots -> [ts : Int, value : Nat]] /\ added \in [Instants -> Nat]
    BY <1>1 DEF WindowSound, WindowTypes
  <1>7. new \in [Instants -> Nat] /\ \A t \in Instants : new[t] = added[t] + (IF t = now THEN v ELSE 0)
    BY <1>5, <1>6
  <1>8. b \in [ts : Int, value : Nat] /\ b.ts = Trunc(now)
    BY <1>3, <1>4, <1>5, <1>6
  <1>9. b.value = AddedAt(added, Span(Trunc(now)))
    <2>1. CASE bs[i].ts = Trunc(now)
      BY <1>1, <1>3, <1>4, <2>1 DEF WindowSound, BucketsExact
    <2>2. CASE bs[i].ts # Trunc(now)
      <3>1. b.value = 0
        BY <1>3, <2>2
      <3>2. ASSUME NEW t \in Span(Trunc(now)), added[t] > 0 PROVE t \in {}
        <4>1. t \in Instants /\ Trunc(t) = Trunc(now)
          BY DEF Span
        <4>2. Trunc(t) <= now - Window
          BY <1>1, <1>4, <2>2, <3>2, <4>1 DEF WindowSound, RecentCovered
        <4> QED
          BY <1>5, <4>1, <4>2
      <3>3. Span(Trunc(now)) \in SUBSET Instants /\ {} \in SUBSET Instants
        BY DEF Span
      <3> DEFINE S == Span(Trunc(now))
      <3> HIDE DEF S
      <3>4. AddedAt(added, S) <= AddedAt(added, {})
        BY <1>6, <3>2, <3>3, WindowSize, SumGrows DEF AddedAt, S
      <3>5. AddedAt(added, {}) = 0
        BY <1>6, WindowSize, SumUnfolds DEF AddedAt
      <3>6. AddedAt(added, S) \in Nat
        BY <1>6, <3>3, AddedType DEF S
      <3>7. AddedAt(added, S) = 0
        BY <3>4, <3>5, <3>6
      <3> QED
        BY <3>1, <3>7 DEF S
    <2> QED
      BY <2>1, <2>2
  <1> HIDE DEF b
  <1>10. /\ after \in [Slots -> [ts : Int, value : Nat]]
         /\ after[i].ts = Trunc(now) /\ after[i].value = b.value + v
         /\ \A j \in Slots : j # i => after[j] = bs[j]
    BY <1>4, <1>6, <1>8
  <1> HIDE DEF after, new
  <1>11. \A j \in Slots : j # i => bs[j].ts # Trunc(now)
    <2>1. Trunc(now) # ZeroTime
      BY <1>5 DEF ZeroTime
    <2> QED
      BY <1>1, <1>4, <2>1 DEF WindowSound, OneBucketASpan
  <1>12. WindowTypes(after, new, now)
    BY <1>5, <1>7, <1>10 DEF WindowTypes
  <1>13. Aligned(after, now)
    BY <1>1, <1>5, <1>10 DEF WindowSound, Aligned
  <1>14. OneBucketASpan(after)
    BY <1>1, <1>10, <1>11 DEF WindowSound, OneBucketASpan
  <1>15. BucketsExact(after, new)
    <2>1. SUFFICES ASSUME NEW j \in Slots PROVE after[j].value = AddedAt(new, Span(after[j].ts))
      BY DEF BucketsExact
    <2> DEFINE S == Span(after[j].ts)
    <2>2. S \in SUBSET Instants /\ (now \in S <=> j = i)
      BY <1>5, <1>10, <1>11 DEF Span
    <2>3. after[j].value = AddedAt(added, S) + (IF j = i THEN v ELSE 0)
      <3>1. CASE j = i
        BY <1>9, <1>10, <3>1
      <3>2. CASE j # i
        <4>1. after[j].value = AddedAt(added, S) /\ after[j].value \in Nat
          BY <1>1, <1>10, <3>2 DEF WindowSound, BucketsExact
        <4> QED
          BY <3>2, <4>1
      <3> QED
        BY <3>1, <3>2
    <2> HIDE DEF S
    <2>4. AddedAt(new, S) = AddedAt(added, S) + (IF now \in S THEN v ELSE 0)
      <3>1. IsFiniteSet(Instants) /\ now \in Instants
        BY <1>5, WindowSize
      <3>2. SumOver(new, Instants)[S] = SumOver(added, Instants)[S] + (IF now \in S THEN v ELSE 0)
        <4>1. new \in [Instants -> Nat] /\ HasMore(new, added, Instants, now, v)
          BY <1>7 DEF HasMore
        <4>2. AddedAt(added, S) \in Nat
          BY <1>6, <2>2, AddedType
        <4>3. /\ now \in S => SumOver(new, Instants)[S] = SumOver(added, Instants)[S] + v
              /\ now \notin S => SumOver(new, Instants)[S] = SumOver(added, Instants)[S]
          BY <1>6, <2>2, <3>1, <4>1, SumChanges
        <4> QED
          BY <4>2, <4>3 DEF AddedAt
      <3> QED
        BY <3>2 DEF AddedAt
    <2> QED
      BY <2>2, <2>3, <2>4 DEF S
  <1>16. RecentCovered(after, new, now)
    <2>1. SUFFICES ASSUME NEW t \in Instants, new[t] > 0
                   PROVE  t <= now /\ (Trunc(t) <= now - Window \/ \E j \in Slots : after[j].ts = Trunc(t))
      BY DEF RecentCovered
    <2>2. CASE t = now
      BY <1>4, <1>5, <1>10, <2>2
    <2>3. CASE t # now
      <3>1. added[t] > 0
        BY <1>6, <1>7, <2>1, <2>3
      <3>2. t <= now /\ (Trunc(t) <= now - Window \/ \E j \in Slots : bs[j].ts = Trunc(t))
        BY <1>1, <3>1 DEF WindowSound, RecentCovered
      <3>3. ASSUME NEW j \in Slots, bs[j].ts = Trunc(t)
            PROVE  Trunc(t) <= now - Window \/ \E l \in Slots : after[l].ts = Trunc(t)
        <4>1. CASE j # i
          BY <1>10, <3>3, <4>1
        <4>2. CASE j = i /\ bs[i].ts = Trunc(now)
          BY <1>4, <1>10, <3>3, <4>2
        <4>3. CASE j = i /\ bs[i].ts # Trunc(now)
          <5>1. bs[i].ts # ZeroTime
            BY <3>3, <4>3, TruncFacts DEF ZeroTime
          <5>2. \A l \in Slots : bs[l].ts # ZeroTime /\ bs[l].ts # Trunc(now) /\ bs[i].ts <= bs[l].ts
            BY <1>4, <4>3, <5>1
          <5>3. bs[i].ts <= now - Window
            BY <1>1, <1>4, <5>2, OldestHasLeft
          <5> QED
            BY <3>3, <4>3, <5>3
        <4> QED
          BY <4>1, <4>2, <4>3
      <3> QED
        BY <3>2, <3>3
    <2> QED
      BY <2>2, <2>3
  <1>17. WindowSound(after, new, now)
    BY <1>12, <1>13, <1>14, <1>15, <1>16 DEF WindowSound
  <1> QED
    BY <1>1, <1>2, <1>4, <1>17 DEF WindowInv

(* Every step keeps the window sound. *)
THEOREM WindowInvariance == WindowSpec => []WindowInv
  <1>1. ASSUME NEW n \in Instants PROVE WindowSound([i \in Slots |-> EmptyBucket], [t \in 0..WindowHorizon |-> 0], n)
    <2> DEFINE bs == [i \in Slots |-> EmptyBucket]
               none == [t \in 0..WindowHorizon |-> 0]
    <2>1. none \in [Instants -> Nat] /\ \A t \in Instants : none[t] = 0
      BY DEF Instants
    <2>2. bs \in [Slots -> [ts : Int, value : Nat]] /\ \A i \in Slots : bs[i].ts = ZeroTime /\ bs[i].value = 0
      BY DEF EmptyBucket, ZeroTime
    <2> HIDE DEF bs, none
    <2>3. BucketsExact(bs, none)
      <3>1. SumOver(none, Instants)[{}] = 0
        BY <2>1, WindowSize, SumUnfolds
      <3> QED
        BY <2>2, <3>1, NoSpan DEF BucketsExact, AddedAt
    <2>4. WindowTypes(bs, none, n) /\ Aligned(bs, n) /\ OneBucketASpan(bs) /\ RecentCovered(bs, none, n)
      BY <2>1, <2>2 DEF WindowTypes, Aligned, OneBucketASpan, RecentCovered
    <2>5. WindowSound(bs, none, n)
      BY <2>3, <2>4 DEF WindowSound
    <2> QED
      BY <2>5 DEF bs, none
  <1>2. 0 \in Slots /\ 0 \in Instants
    BY WindowSize, WindowAssumption DEF Slots, Instants, WindowAssumption
  <1>3. WindowInit => WindowInv
    BY <1>1, <1>2 DEF WindowInit, WindowInv
  <1>4. WindowInv /\ [WindowNext]_windowVars => WindowInv'
    <2>1. SUFFICES ASSUME WindowInv, [WindowNext]_windowVars PROVE WindowInv'
      OBVIOUS
    <2>2. ASSUME NEW v \in Values, WindowAdd(v) PROVE WindowInv'
      <3>1. v \in Nat
        BY WindowAssumption DEF WindowAssumption
      <3> QED
        BY <2>1, <2>2, <3>1, AddSound
    <2>3. CASE WindowSum
      <3>1. WindowSound(Pruned, added, now)
        BY <2>1, PrunedSound DEF WindowInv
      <3>2. buckets' = Pruned /\ now' = now /\ head' = head /\ added' = added
        BY <2>3 DEF WindowSum
      <3> HIDE DEF Pruned
      <3> QED
        BY <2>1, <3>1, <3>2 DEF WindowInv
    <2>4. CASE WindowReset
      <3>1. now \in Instants
        BY <2>1 DEF WindowInv, WindowSound, WindowTypes
      <3> QED
        BY <1>1, <1>2, <2>4, <3>1 DEF WindowReset, WindowInv
    <2>5. CASE WindowTick
      <3>1. now' = now + 1 /\ now' \in Instants /\ now \in Int /\ buckets' = buckets /\ head' = head /\ added' = added
        BY <2>1, <2>5, WindowAssumption DEF WindowTick, WindowInv, WindowSound, WindowTypes, Instants, WindowAssumption
      <3>2. WindowSound(buckets, added, now)
        BY <2>1 DEF WindowInv
      <3>3. WindowTypes(buckets, added, now')
        BY <3>1, <3>2 DEF WindowSound, WindowTypes
      <3>4. Aligned(buckets, now')
        BY <3>1, <3>2 DEF WindowSound, WindowTypes, Aligned
      <3>5. RecentCovered(buckets, added, now')
        <4>1. SUFFICES ASSUME NEW t \in Instants, added[t] > 0
                       PROVE  t <= now' /\ (Trunc(t) <= now' - Window \/ \E i \in Slots : buckets[i].ts = Trunc(t))
          BY DEF RecentCovered
        <4>2. t <= now /\ (Trunc(t) <= now - Window \/ \E i \in Slots : buckets[i].ts = Trunc(t))
          BY <3>2, <4>1 DEF WindowSound, RecentCovered
        <4>3. t \in Int /\ Trunc(t) \in Nat /\ Window \in Nat
          BY TruncFacts, WindowSize DEF Instants
        <4> QED
          BY <3>1, <4>2, <4>3
      <3> QED
        BY <2>1, <3>1, <3>2, <3>3, <3>4, <3>5 DEF WindowInv, WindowSound
    <2>6. CASE UNCHANGED windowVars
      BY <2>1, <2>6 DEF windowVars, WindowInv
    <2> QED
      BY <2>1, <2>2, <2>3, <2>4, <2>5, <2>6 DEF WindowNext
  <1> QED
    BY <1>3, <1>4, PTL DEF WindowSpec

(* WindowIsAccurate (pkg/limits/ratelimit/sliding_window.go,               *)
(* pkg/limits/budget/window.go): whatever the number of buckets, their     *)
(* size and the amounts, and however long nobody calls the window, Sum     *)
(* counts all that was added within the window less its oldest bucket and  *)
(* nothing older, and the head of SlidingWindow is only a shortcut.        *)
THEOREM WindowCountsRight == WindowSpec => []WindowIsAccurate
  <1>1. WindowInv => WindowIsAccurate
    <2>1. SUFFICES ASSUME WindowInv PROVE WindowIsAccurate
      OBVIOUS
    <2> DEFINE bs == Pruned
    <2>2. /\ WindowSound(bs, added, now) /\ head \in Slots
          /\ \A i \in Slots : bs[i].ts # ZeroTime => bs[i].ts >= now - Window
      BY <2>1, PrunedSound DEF WindowInv
    <2> HIDE DEF bs
    <2>3. HeadIsOnlyAShortcut
      BY <2>2, SlotPicked DEF HeadIsOnlyAShortcut, bs
    <2>4. /\ now \in Int /\ Window \in Int /\ BucketSize \in Int
          /\ added \in [Instants -> Nat] /\ bs \in [Slots -> [ts : Int, value : Nat]] /\ IsFiniteSet(Instants)
      BY <2>2, WindowSize DEF WindowSound, WindowTypes, Instants
    <2>5. \A from, to : AddedIn(from, to) = AddedAt(added, {t \in Instants : from <= t /\ t <= to})
      <3>1. SUFFICES ASSUME NEW from, NEW to
                     PROVE  AddedIn(from, to) = AddedAt(added, {t \in Instants : from <= t /\ t <= to})
        OBVIOUS
      <3> DEFINE T == {t \in 0..WindowHorizon : from <= t /\ t <= to}
                 part == [t \in T |-> added[t]]
      <3>2. AddedIn(from, to) = SumOver(part, T)[T]
        BY DEF AddedIn, MapThenSumSet, MapThenFoldSet, SumOver, IsSum, First
      <3>3. T \in SUBSET Instants /\ T \in SUBSET T /\ part \in [T -> Nat] /\ \A t \in T : part[t] = added[t]
        BY <2>4 DEF Instants
      <3>4. IsFiniteSet(T)
        BY <2>4, <3>3, FS_Subset
      <3>5. T = {t \in Instants : from <= t /\ t <= to}
        BY DEF Instants
      <3> HIDE DEF T, part
      <3>6. SumOver(part, T)[T] = SumOver(added, Instants)[T]
        BY <2>4, <3>3, <3>4, SumAgrees
      <3> QED
        BY <3>2, <3>5, <3>6 DEF AddedAt
    <2> DEFINE held == Spanned(bs, Slots)
    <2>6. WindowTotal(bs) = AddedAt(added, held)
      BY <2>2, TotalIsSpanned
    <2>7. NeverOvercounts
      <3> DEFINE T == {t \in Instants : now - Window <= t /\ t <= now}
      <3>1. ASSUME NEW t \in held, added[t] > 0 PROVE t \in T
        <4>1. t \in Instants /\ \E i \in Slots : bs[i].ts = Trunc(t)
          BY DEF Spanned
        <4>2. t \in Int /\ Trunc(t) \in Nat /\ Trunc(t) <= t
          BY <4>1, TruncFacts DEF Instants
        <4>3. t <= now
          BY <2>2, <3>1, <4>1 DEF WindowSound, RecentCovered
        <4>4. Trunc(t) >= now - Window
          BY <2>2, <4>1, <4>2 DEF ZeroTime
        <4> QED
          BY <2>4, <4>1, <4>2, <4>3, <4>4
      <3>2. held \in SUBSET Instants /\ T \in SUBSET Instants
        BY DEF Spanned
      <3>3. AddedIn(now - Window, now) = AddedAt(added, T)
        BY <2>5
      <3> HIDE DEF held, T
      <3>4. AddedAt(added, held) <= AddedAt(added, T)
        BY <2>4, <3>1, <3>2, SumGrows DEF AddedAt
      <3> QED
        BY <2>6, <3>3, <3>4 DEF NeverOvercounts, bs
    <2>8. RemembersRecent
      <3> DEFINE T == {t \in Instants : now - Window + BucketSize <= t /\ t <= now}
      <3>1. ASSUME NEW t \in T, added[t] > 0 PROVE t \in held
        <4>1. t \in Instants /\ t \in Int /\ Trunc(t) \in Nat /\ t < Trunc(t) + BucketSize
          BY TruncFacts DEF Instants
        <4>2. ~(Trunc(t) <= now - Window)
          BY <2>4, <4>1
        <4>3. \E i \in Slots : bs[i].ts = Trunc(t)
          BY <2>2, <3>1, <4>1, <4>2 DEF WindowSound, RecentCovered
        <4> QED
          BY <4>1, <4>3 DEF Spanned
      <3>2. held \in SUBSET Instants /\ T \in SUBSET Instants
        BY DEF Spanned
      <3>3. AddedIn(now - Window + BucketSize, now) = AddedAt(added, T)
        BY <2>5
      <3> HIDE DEF held, T
      <3>4. AddedAt(added, T) <= AddedAt(added, held)
        BY <2>4, <3>1, <3>2, SumGrows DEF AddedAt
      <3>5. AddedAt(added, T) \in Nat /\ AddedAt(added, held) \in Nat
        BY <2>4, <3>2, AddedType
      <3> QED
        BY <2>6, <3>3, <3>4, <3>5 DEF RemembersRecent, bs
    <2> QED
      BY <2>3, <2>7, <2>8 DEF WindowIsAccurate
  <1> QED
    BY <1>1, WindowInvariance, PTL
=============================================================================
