--------------------------- MODULE Services_proofs ---------------------------
(***************************************************************************)
(* The services around the core, each on its own: the storage of limit     *)
(* states, the registry of providers, the life of the process, secrets,    *)
(* certificates and the configuration.  They share no state, so each has   *)
(* its own specification here, which is that of its behaviours in          *)
(* Services_MC.  The last sections are about routing: the router, with the *)
(* specification Spec of its own module, routes only where it may and      *)
(* counts every request once, for every number of requests and providers,  *)
(* every strategy and every sequence of pools; the round-robin strategy    *)
(* gives every provider its share.                                         *)
(***************************************************************************)
EXTENDS Router, RoundRobin, Configuration, LimitsStorage, ProviderManager, Lifecycle, Secrets, CertReloader, FiniteSetTheorems,
        NaturalsInduction, TLAPS

-----------------------------------------------------------------------------
(* The storage of limit states *)

StorageSpec == StorageInit /\ [][StorageNext]_storageVars

LimitState == [payload : Payloads, updated : Nat, created : Nat]

(* The memory backend has no key that the table lacks, and the same state  *)
(* to the second for each it has, but for the creation of one saved over;  *)
(* what it lacks it has forgotten.                                         *)
StorageTypes ==
    /\ storageClock \in Nat \ {0}
    /\ memStates \in [DOMAIN memStates -> LimitState]
    /\ sqlStates \in [DOMAIN sqlStates -> LimitState]
Mirrored ==
    \A k \in DOMAIN memStates :
       /\ k \in DOMAIN sqlStates
       /\ sqlStates[k].payload = memStates[k].payload /\ sqlStates[k].updated = Unix(memStates[k].updated)
       /\ k \in overwritten \/ sqlStates[k].created = Unix(memStates[k].created)
Accounted == DOMAIN sqlStates \ DOMAIN memStates \subseteq forgotten
WithinBound == IsFiniteSet(DOMAIN memStates) /\ Cardinality(DOMAIN memStates) <= MaxStates

StorageInv == StorageTypes /\ Mirrored /\ Accounted /\ WithinBound

(* Dropping keys from both backends alike, or more from the memory one. *)
LEMMA FewerStates ==
    ASSUME StorageInv, UNCHANGED storageClock,
           NEW S, memStates' = Drop(memStates, S),
           NEW T, sqlStates' = Drop(sqlStates, T), T \cap DOMAIN memStates \subseteq S,
           (forgotten \cup (S \ T)) \cap DOMAIN sqlStates' \subseteq forgotten',
           overwritten \cap DOMAIN memStates' \subseteq overwritten'
    PROVE  StorageInv'
  <1> USE DEF StorageInv, Drop, Restrict
  <1>1. DOMAIN memStates' = DOMAIN memStates \ S /\ DOMAIN sqlStates' = DOMAIN sqlStates \ T
    OBVIOUS
  <1>2. \A k \in DOMAIN memStates' : memStates'[k] = memStates[k]
    OBVIOUS
  <1>3. \A k \in DOMAIN sqlStates' : sqlStates'[k] = sqlStates[k]
    OBVIOUS
  <1>4. StorageTypes'
    BY DEF StorageTypes
  <1>5. Mirrored'
    BY <1>1, <1>2, <1>3 DEF Mirrored
  <1>6. Accounted'
    BY <1>1 DEF Accounted
  <1>7. WithinBound'
    <2>1. /\ IsFiniteSet(DOMAIN memStates') /\ Cardinality(DOMAIN memStates') <= Cardinality(DOMAIN memStates)
          /\ Cardinality(DOMAIN memStates') \in Nat /\ Cardinality(DOMAIN memStates) \in Nat
      BY <1>1, FS_Subset, FS_CardinalityType DEF WithinBound
    <2> QED
      BY <2>1, StorageAssumption DEF WithinBound, StorageAssumption
  <1> QED
    BY <1>4, <1>5, <1>6, <1>7

(* Save makes room before it adds, so the bound holds, and both backends   *)
(* get the same state.                                                     *)
LEMMA SaveKeepsStates ==
    ASSUME StorageInv, NEW k \in StateKeys, NEW p \in Payloads, NEW u \in Nat, NEW c \in Nat, SaveState(k, p, u, c)
    PROVE  StorageInv'
  <1> DEFINE updated == Stamp(u)
             created == Stamp(c)
             kept == KeptCreated(k, created)
             new == [payload |-> p, updated |-> updated, created |-> created]
             row == [payload |-> p, updated |-> Unix(updated), created |-> kept]
             D == DOMAIN memStates
  <1> USE DEF StorageInv
  <1>1. PICK gone \in (IF Cardinality(D) >= MaxStates THEN {{v} : v \in evictOldest} ELSE {{}}) :
           /\ memStates' = Put(Drop(memStates, gone), k, new)
           /\ forgotten' = (forgotten \cup gone) \ {k}
    BY DEF SaveState, memorySave
  <1>2. /\ sqlStates' = Put(sqlStates, k, row) /\ UNCHANGED storageClock
        /\ overwritten' = IF k \in DOMAIN sqlStates THEN overwritten \cup {k} ELSE overwritten \ {k}
    BY DEF SaveState, sqliteSave
  <1>3. updated \in Nat /\ Unix(updated) \in Nat /\ created \in Nat /\ Unix(created) \in Nat
    BY DEF StorageTypes, Unix, Stamp
  <1>4. kept \in Nat /\ (k \notin DOMAIN sqlStates => kept = Unix(created))
    BY <1>3 DEF StorageTypes, KeptCreated, LimitState
  <1> HIDE DEF updated, created, kept
  <1>5. /\ new \in LimitState /\ new.payload = p /\ new.updated = updated /\ new.created = created
         /\ row \in LimitState /\ row.payload = p /\ row.updated = Unix(updated) /\ row.created = kept
    BY <1>3, <1>4 DEF LimitState
  <1> HIDE DEF new, row
  <1>6. /\ DOMAIN memStates' = (D \ gone) \cup {k} /\ DOMAIN sqlStates' = DOMAIN sqlStates \cup {k}
        /\ memStates'[k] = new /\ sqlStates'[k] = row
        /\ \A x \in DOMAIN memStates' : x # k => memStates'[x] = memStates[x]
        /\ \A x \in DOMAIN sqlStates' : x # k => sqlStates'[x] = sqlStates[x]
    BY <1>1, <1>2 DEF Put, Drop, Restrict
  <1>7. StorageTypes'
    BY <1>1, <1>2, <1>5 DEF StorageTypes, Put, Drop, Restrict
  <1>8. Mirrored'
    <2> SUFFICES ASSUME NEW x \in DOMAIN memStates'
                 PROVE  /\ x \in DOMAIN sqlStates'
                        /\ sqlStates'[x].payload = memStates'[x].payload
                        /\ sqlStates'[x].updated = Unix(memStates'[x].updated)
                        /\ x \in overwritten' \/ sqlStates'[x].created = Unix(memStates'[x].created)
      BY DEF Mirrored
    <2>1. CASE x = k
      BY <1>2, <1>6, <1>4, <1>5, <2>1
    <2>2. CASE x # k
      BY <1>2, <1>6, <2>2 DEF Mirrored
    <2> QED
      BY <2>1, <2>2
  <1>9. Accounted'
    BY <1>1, <1>6 DEF Accounted
  <1>10. WithinBound'
    <2>1. Cardinality(D) \in Nat /\ IsFiniteSet(D) /\ Cardinality(D) <= MaxStates
      BY FS_CardinalityType DEF WithinBound
    <2>2. CASE Cardinality(D) >= MaxStates
      <3>1. PICK v \in D : gone = {v}
        BY <1>1, <2>2 DEF evictOldest
      <3>2. IsFiniteSet(D \ {v}) /\ Cardinality(D \ {v}) = Cardinality(D) - 1
        BY <2>1, <3>1, FS_RemoveElement
      <3>3. /\ IsFiniteSet((D \ {v}) \cup {k})
            /\ Cardinality((D \ {v}) \cup {k}) <= Cardinality(D)
        <4> DEFINE E == D \ {v}
        <4>1. IsFiniteSet(E) /\ Cardinality(E) = Cardinality(D) - 1
          BY <3>2
        <4> HIDE DEF E
        <4>2. /\ IsFiniteSet(E \cup {k})
              /\ Cardinality(E \cup {k}) = IF k \in E THEN Cardinality(E) ELSE Cardinality(E) + 1
          BY <4>1, FS_AddElement
        <4> QED
          BY <2>1, <4>1, <4>2 DEF E
      <3> QED
        BY <1>6, <2>1, <3>1, <3>3, StorageAssumption DEF WithinBound, StorageAssumption
    <2>3. CASE Cardinality(D) < MaxStates
      <3>1. gone = {}
        BY <1>1, <2>1, <2>3, StorageAssumption DEF StorageAssumption
      <3>2. /\ IsFiniteSet(D \cup {k})
            /\ Cardinality(D \cup {k}) = IF k \in D THEN Cardinality(D) ELSE Cardinality(D) + 1
        BY <2>1, FS_AddElement
      <3>3. Cardinality(D \cup {k}) <= MaxStates
        BY <2>1, <2>3, <3>2, StorageAssumption DEF StorageAssumption
      <3>4. DOMAIN memStates' = D \cup {k}
        BY <1>6, <3>1
      <3> QED
        BY <3>2, <3>3, <3>4 DEF WithinBound
    <2> QED
      BY <2>1, <2>2, <2>3, StorageAssumption DEF StorageAssumption
  <1> QED
    BY <1>7, <1>8, <1>9, <1>10

(* Whole seconds keep the order of times. *)
LEMMA Seconds ==
    ASSUME NEW t \in Nat, NEW u \in Nat
    PROVE  /\ Unix(t) \in Nat /\ Unix(u) \in Nat
           /\ Unix(u) < Unix(t) => u < t
           /\ u < t => Unix(u) <= Unix(t)
  BY DEF Unix

(* Every call keeps the backends in step. *)
LEMMA StepStorage ==
    ASSUME StorageInv, [StorageNext]_storageVars
    PROVE  StorageInv'
  <1>0. storageClock \in Nat \ {0}
    BY DEF StorageInv, StorageTypes
  <1>1. ASSUME NEW k \in StateKeys, NEW p \in Payloads, NEW t \in Times, SaveState(k, p, t.updated, t.created)
        PROVE  StorageInv'
    <2>1. t.updated \in Nat /\ t.created \in Nat
      BY DEF Times
    <2> QED
      BY <1>1, <2>1, SaveKeepsStates
  <1>2. ASSUME NEW k \in StateKeys, DeleteState(k) PROVE StorageInv'
    <2>1. /\ memStates' = Drop(memStates, {k}) /\ sqlStates' = Drop(sqlStates, {k})
          /\ forgotten' = forgotten \ {k} /\ overwritten' = overwritten \ {k} /\ UNCHANGED storageClock
          /\ DOMAIN memStates' = DOMAIN memStates \ {k} /\ DOMAIN sqlStates' = DOMAIN sqlStates \ {k}
      BY <1>2 DEF DeleteState, Drop, Restrict
    <2> QED
      BY <2>1, FewerStates
  <1>3. ASSUME NEW t \in 1..storageClock, CleanupStates(t) PROVE StorageInv'
    <2> DEFINE S == memoryOld(t)
               T == sqliteOld(t)
    <2>1. /\ memStates' = Drop(memStates, S) /\ sqlStates' = Drop(sqlStates, T)
          /\ UNCHANGED storageClock
          /\ forgotten' = (forgotten \cup {k \in S : Unix(memStates[k].updated) = Unix(t)}) \ T
          /\ overwritten' = overwritten \ T
          /\ DOMAIN memStates' = DOMAIN memStates \ S /\ DOMAIN sqlStates' = DOMAIN sqlStates \ T
      BY <1>3 DEF CleanupStates, Drop, Restrict
    <2>2. ASSUME NEW k \in DOMAIN memStates
          PROVE  /\ k \in T => k \in S
                 /\ k \in S \ T => Unix(memStates[k].updated) = Unix(t)
      <3>1. /\ k \in DOMAIN sqlStates /\ sqlStates[k].updated = Unix(memStates[k].updated)
            /\ memStates[k].updated \in Nat
        <4>1. memStates[k] \in LimitState
          BY DEF StorageInv, StorageTypes
        <4>2. k \in DOMAIN sqlStates /\ sqlStates[k].updated = Unix(memStates[k].updated)
          BY DEF StorageInv, Mirrored
        <4> QED
          BY <4>1, <4>2 DEF LimitState
      <3>2. k \in T <=> Unix(memStates[k].updated) < Unix(t)
        BY <3>1 DEF sqliteOld
      <3>3. k \in S <=> memStates[k].updated < t
        BY DEF memoryOld
      <3> QED
        <4> DEFINE u == memStates[k].updated
        <4>1. /\ Unix(t) \in Nat /\ Unix(u) \in Nat
              /\ Unix(u) < Unix(t) => u < t
              /\ u < t => Unix(u) <= Unix(t)
          BY <1>0, <3>1, Seconds
        <4> HIDE DEF u, S, T
        <4> QED
          BY <3>1, <3>2, <3>3, <4>1 DEF u
    <2>3. S \subseteq DOMAIN memStates
      BY DEF memoryOld
    <2>4. T \cap DOMAIN memStates \subseteq S
      BY <2>2, <2>3
    <2> HIDE DEF S, T
    <2>5. /\ (forgotten \cup (S \ T)) \cap DOMAIN sqlStates' \subseteq forgotten'
          /\ overwritten \cap DOMAIN memStates' \subseteq overwritten'
      BY <2>1, <2>2, <2>3, <2>4
    <2> QED
      BY <2>1, <2>4, <2>5, FewerStates
  <1>4. CASE cleanupLoop
    <2> DEFINE S == memoryOld(storageClock - Retention)
    <2>1. /\ memStates' = Drop(memStates, S) /\ forgotten' = forgotten \cup S
          /\ UNCHANGED <<sqlStates, storageClock, overwritten>>
      BY <1>4 DEF cleanupLoop
    <2>2. sqlStates' = Drop(sqlStates, {})
      BY <2>1 DEF Drop, Restrict, StorageInv, StorageTypes
    <2> HIDE DEF S
    <2>3. (forgotten \cup (S \ {})) \cap DOMAIN sqlStates' \subseteq forgotten'
      BY <2>1
    <2>4. {} \cap DOMAIN memStates \subseteq S
      OBVIOUS
    <2> QED
      BY <2>1, <2>2, <2>3, <2>4, FewerStates
  <1>5. CASE StorageTick \/ UNCHANGED storageVars
    BY <1>0, <1>5 DEF StorageTick, storageVars, StorageInv, StorageTypes, Mirrored, Accounted, WithinBound
  <1> QED
    BY <1>1, <1>2, <1>3, <1>4, <1>5 DEF StorageNext

(* To the second, the memory and the SQLite backend answer Load and List   *)
(* alike, but for what the memory backend gave up for want of room, by its *)
(* own cleanup or by a cleanup within one second, and but for CreatedAt of *)
(* a state that was saved over, which SQLite keeps and the memory backend  *)
(* replaces; the memory backend stays within its bound: for every set of   *)
(* keys, every bound and every sequence of calls (storage/memory.go,       *)
(* storage/sqlite.go).                                                     *)
THEOREM BackendsStayInStep == StorageSpec => []BackendsAgree
  <1>1. StorageInit => StorageInv
    <2> SUFFICES ASSUME StorageInit PROVE StorageInv
      OBVIOUS
    <2>1. DOMAIN memStates = {} /\ DOMAIN sqlStates = {}
      BY DEF StorageInit
    <2>2. WithinBound
      BY <2>1, FS_EmptySet, StorageAssumption DEF WithinBound, StorageAssumption
    <2>3. StorageTypes
      BY <2>1 DEF StorageInit, StorageTypes
    <2> QED
      BY <2>1, <2>2, <2>3 DEF StorageInv, Mirrored, Accounted
  <1>2. StorageInv => BackendsAgree
    <2> SUFFICES ASSUME StorageInv PROVE BackendsAgree
      OBVIOUS
    <2>1. ASSUME NEW k \in StateKeys
          PROVE  /\ Gone(k) \/ SameState(memoryLoad(k), sqliteLoad(k))
                 /\ Gone(k) \/ k \in overwritten \/ memoryLoad(k).created = sqliteLoad(k).created
      <3>1. CASE k \in DOMAIN memStates
        <4> DEFINE m == memStates[k]
                   l == [[m EXCEPT !.updated = Unix(m.updated)] EXCEPT !.created = Unix(m.created)]
        <4>1. /\ k \in DOMAIN sqlStates /\ m \in LimitState
              /\ sqlStates[k].payload = m.payload /\ sqlStates[k].updated = Unix(m.updated)
              /\ k \in overwritten \/ sqlStates[k].created = Unix(m.created)
          BY <3>1 DEF StorageInv, StorageTypes, Mirrored
        <4>2. memoryLoad(k) = l /\ sqliteLoad(k) = sqlStates[k]
          BY <3>1, <4>1 DEF memoryLoad, sqliteLoad, LimitState
        <4> HIDE DEF m
        <4>3. l.payload = m.payload /\ l.updated = Unix(m.updated) /\ l.created = Unix(m.created)
          BY <4>1 DEF LimitState
        <4> HIDE DEF l
        <4> QED
          BY <4>1, <4>2, <4>3 DEF SameState
      <3>2. CASE k \notin DOMAIN memStates
        BY <3>2 DEF StorageInv, Accounted, memoryLoad, sqliteLoad, Gone, SameState
      <3> QED
        BY <3>1, <3>2
    <2>2. \A k \in StateKeys : memoryList(k.dimension) \subseteq sqliteList(k.dimension)
      BY DEF StorageInv, Mirrored, memoryList, sqliteList
    <2>3. Cardinality(DOMAIN memStates) <= MaxStates
      BY DEF StorageInv, WithinBound
    <2> QED
      BY <2>1, <2>2, <2>3 DEF BackendsAgree
  <1> QED
    BY <1>1, <1>2, StepStorage, PTL DEF StorageSpec

-----------------------------------------------------------------------------
(* The registry of providers *)

ManagerSpec == ManagerInit /\ [][ManagerNext]_managerVars

Config == [name : STRING, type : STRING, url : STRING, key : STRING]
Instance == [name : STRING, type : {ProviderType(c) : c \in Config}, checker : {"running", "stopping", "stopped"}]
Running(all) == {i \in DOMAIN all : all[i].checker = "running"}

ManagerTypes ==
    /\ instances \in Seq(Instance)
    /\ providers \in [DOMAIN providers -> DOMAIN instances]
    /\ loading \in Seq(Config)

ManagerInv == ManagerTypes /\ CheckersAreManaged

(* Close stops the checkers of the providers it is called for, and touches *)
(* no other.                                                               *)
LEMMA CloseStops ==
    ASSUME ManagerTypes, NEW S \in SUBSET DOMAIN instances, NEW rest \in CloseProviders(S, instances)
    PROVE  /\ rest \in Seq(Instance) /\ Len(rest) = Len(instances) /\ DOMAIN rest = DOMAIN instances
           /\ Running(rest) = Running(instances) \ S
           /\ \A i \in DOMAIN rest : rest[i].name = instances[i].name
  <1> USE DEF ManagerTypes
  <1>1. PICK c \in [S -> {"stopping", "stopped"}] :
          rest = [i \in DOMAIN instances |->
                    IF i \in S /\ instances[i].checker = "running"
                    THEN [instances[i] EXCEPT !.checker = c[i]] ELSE instances[i]]
    BY DEF CloseProviders
  <1>2. DOMAIN instances = 1..Len(instances) /\ Len(instances) \in Nat
    OBVIOUS
  <1>3. \A i \in DOMAIN instances : instances[i] \in Instance
    OBVIOUS
  <1>4. \A i \in DOMAIN instances : rest[i] \in Instance /\ rest[i].name = instances[i].name
    BY <1>1, <1>3 DEF Instance
  <1>5. rest \in Seq(Instance) /\ Len(rest) = Len(instances) /\ DOMAIN rest = DOMAIN instances
    BY <1>1, <1>2, <1>4
  <1>6. ASSUME NEW i \in DOMAIN instances
        PROVE  rest[i].checker = "running" <=> instances[i].checker = "running" /\ i \notin S
    BY <1>1, <1>3 DEF Instance
  <1>7. Running(rest) = Running(instances) \ S
    BY <1>5, <1>6 DEF Running
  <1> QED
    BY <1>4, <1>5, <1>7

(* Adding replaces: the old provider of the name is stopped before there   *)
(* is a new one, and if there is none the name is gone.                    *)
LEMMA AddManages ==
    ASSUME ManagerInv, NEW config \in Config, Add(config), UNCHANGED managerCtx, loading' \in Seq(Config)
    PROVE  ManagerInv'
  <1> USE DEF ManagerInv, ManagerTypes
  <1> DEFINE name == config.name
             old == IF name \in DOMAIN providers THEN {providers[name]} ELSE {}
             new == NewProviderWithHealthCheck(config)
             n == Len(instances) + 1
  <1>1. old \in SUBSET DOMAIN instances
    OBVIOUS
  <1>2. PICK rest \in CloseProviders(old, instances) :
          IF NewProvider(config)
          THEN /\ instances' = Append(rest, new)
               /\ providers' = [k \in DOMAIN providers \cup {name} |-> IF k = name THEN n ELSE providers[k]]
          ELSE instances' = rest /\ providers' = Without(name)
    BY DEF Add
  <1>3. /\ rest \in Seq(Instance) /\ Len(rest) = Len(instances) /\ DOMAIN rest = DOMAIN instances
        /\ Running(rest) = Running(instances) \ old
        /\ \A i \in DOMAIN rest : rest[i].name = instances[i].name
    BY <1>1, <1>2, CloseStops
  <1>4. new \in Instance /\ new.checker = "running" /\ new.name = name
    <2>1. config.name \in STRING
      BY DEF Config
    <2>2. ProviderType(config) \in {ProviderType(c) : c \in Config}
      OBVIOUS
    <2>3. new = [name |-> name, type |-> ProviderType(config), checker |-> "running"]
      BY DEF NewProviderWithHealthCheck
    <2> QED
      BY <2>1, <2>2, <2>3 DEF Instance
  <1>5. managerCtx = "live" =>
          /\ Running(instances) = Range(providers)
          /\ \A k \in DOMAIN providers : instances[providers[k]].name = k
    BY DEF CheckersAreManaged, Running
  <1>6. managerCtx = "live" =>
          \A k \in DOMAIN providers : k # name => providers[k] \notin old
    BY <1>5
  <1>7. CASE NewProvider(config)
    <2> HIDE DEF new
    <2>1. /\ instances' = Append(rest, new)
          /\ providers' = [k \in DOMAIN providers \cup {name} |-> IF k = name THEN n ELSE providers[k]]
      BY <1>2, <1>7
    <2>2. /\ instances' \in Seq(Instance) /\ DOMAIN instances' = DOMAIN rest \cup {n}
          /\ n \notin DOMAIN rest /\ instances'[n] = new
          /\ \A i \in DOMAIN rest : instances'[i] = rest[i]
      BY <1>3, <1>4, <2>1
    <2>3. ManagerTypes'
      BY <1>3, <2>1, <2>2
    <2>4. Running(instances') = Running(rest) \cup {n}
      BY <1>4, <2>2 DEF Running
    <2>5. CheckersAreManaged'
      <3> SUFFICES ASSUME managerCtx = "live"
                   PROVE  /\ Running(instances') = Range(providers')
                          /\ \A k \in DOMAIN providers' : instances'[providers'[k]].name = k
        BY DEF CheckersAreManaged, Running
      <3>1. Range(providers') = (Range(providers) \ old) \cup {n}
        <4>1. ASSUME NEW k \in DOMAIN providers' PROVE providers'[k] \in (Range(providers) \ old) \cup {n}
          BY <1>6, <2>1 DEF Range
        <4>2. ASSUME NEW x \in (Range(providers) \ old) \cup {n} PROVE \E k \in DOMAIN providers' : providers'[k] = x
          <5>1. CASE x = n
            BY <2>1, <5>1
          <5>2. CASE x # n
            <6>1. PICK k \in DOMAIN providers : providers[k] = x
              BY <4>2, <5>2 DEF Range
            <6>2. k # name
              BY <4>2, <5>2, <6>1
            <6> QED
              BY <2>1, <6>1, <6>2
          <5> QED
            BY <5>1, <5>2
        <4> QED
          BY <4>1, <4>2, ZenonT(60) DEF Range
      <3>2. \A k \in DOMAIN providers' : instances'[providers'[k]].name = k
        BY <1>3, <1>4, <1>5, <2>1, <2>2
      <3> QED
        BY <1>3, <1>5, <2>4, <3>1, <3>2
    <2> QED
      BY <2>3, <2>5
  <1>8. CASE ~NewProvider(config)
    <2>1. instances' = rest /\ providers' = Without(name)
      BY <1>2, <1>8
    <2>2. DOMAIN providers' = DOMAIN providers \ {name} /\ \A k \in DOMAIN providers' : providers'[k] = providers[k]
      BY <2>1 DEF Without, Restrict
    <2>3. ManagerTypes'
      BY <1>3, <2>1 DEF Without, Restrict
    <2>4. CheckersAreManaged'
      <3> SUFFICES ASSUME managerCtx = "live"
                   PROVE  /\ Running(instances') = Range(providers')
                          /\ \A k \in DOMAIN providers' : instances'[providers'[k]].name = k
        BY DEF CheckersAreManaged, Running
      <3>1. Range(providers') = Range(providers) \ old
        BY <1>6, <2>2 DEF Range
      <3>2. \A k \in DOMAIN providers' : instances'[providers'[k]].name = k
        BY <1>3, <1>5, <2>1, <2>2
      <3> QED
        BY <1>3, <1>5, <2>1, <3>1, <3>2
    <2> QED
      BY <2>3, <2>4
  <1> QED
    BY <1>7, <1>8

(* Every operation leaves exactly the checkers of what is served running. *)
LEMMA StepManager ==
    ASSUME ManagerInv, [ManagerNext]_managerVars
    PROVE  ManagerInv'
  <1> USE DEF ManagerInv, ManagerTypes
  <1>0. ProviderConfigs \subseteq Config /\ ConfigLists \subseteq Seq(Config)
    BY ManagerAssumption DEF ManagerAssumption, Config
  <1>00. managerCtx = "live" =>
           /\ Running(instances) = Range(providers)
           /\ \A k \in DOMAIN providers : instances[providers[k]].name = k
    BY DEF CheckersAreManaged, Running
  <1>1. ASSUME NEW c \in ProviderConfigs, AddProvider(c) PROVE ManagerInv'
    BY <1>0, <1>1, AddManages DEF AddProvider
  <1>2. ASSUME NEW l \in ConfigLists, LoadFromConfig(l) PROVE ManagerInv'
    BY <1>0, <1>2 DEF LoadFromConfig, CheckersAreManaged
  <1>3. CASE LoadNext
    <2>1. Head(loading) \in Config /\ loading' \in Seq(Config)
      BY <1>3 DEF LoadNext
    <2> QED
      BY <1>3, <2>1, AddManages DEF LoadNext
  <1>4. ASSUME NEW name \in DOMAIN providers, RemoveProvider(name) PROVE ManagerInv'
    <2>1. /\ instances' \in CloseProviders({providers[name]}, instances) /\ providers' = Without(name)
          /\ UNCHANGED <<managerCtx, loading>>
      BY <1>4 DEF RemoveProvider
    <2>2. {providers[name]} \in SUBSET DOMAIN instances
      OBVIOUS
    <2>3. /\ instances' \in Seq(Instance) /\ DOMAIN instances' = DOMAIN instances
          /\ Running(instances') = Running(instances) \ {providers[name]}
          /\ \A i \in DOMAIN instances' : instances'[i].name = instances[i].name
      BY <2>1, <2>2, CloseStops
    <2>4. DOMAIN providers' = DOMAIN providers \ {name} /\ \A k \in DOMAIN providers' : providers'[k] = providers[k]
      BY <2>1 DEF Without, Restrict
    <2>5. ManagerTypes'
      BY <2>1, <2>3 DEF Without, Restrict
    <2>6. CheckersAreManaged'
      <3> SUFFICES ASSUME managerCtx = "live"
                   PROVE  /\ Running(instances') = Range(providers')
                          /\ \A k \in DOMAIN providers' : instances'[providers'[k]].name = k
        BY <2>1 DEF CheckersAreManaged, Running
      <3>1. Range(providers') = Range(providers) \ {providers[name]}
        BY <1>00, <2>4 DEF Range
      <3> QED
        BY <1>00, <2>3, <2>4, <3>1
    <2> QED
      BY <2>5, <2>6
  <1>5. CASE CloseManager
    <2>1. /\ managerCtx' = "cancelled" /\ instances' \in CloseProviders(Range(providers), instances)
          /\ providers' = <<>> /\ UNCHANGED loading
      BY <1>5 DEF CloseManager
    <2>2. Range(providers) \in SUBSET DOMAIN instances
      BY DEF Range
    <2>3. instances' \in Seq(Instance)
      BY <2>1, <2>2, CloseStops
    <2>4. providers' \in [DOMAIN providers' -> DOMAIN instances']
      BY <2>1
    <2> QED
      BY <2>1, <2>3, <2>4 DEF CheckersAreManaged
  <1>6. ASSUME NEW i \in DOMAIN instances, CheckerStops(i) PROVE ManagerInv'
    <2>1. /\ instances' = [instances EXCEPT ![i].checker = "stopped"]
          /\ UNCHANGED <<providers, managerCtx, loading>>
          /\ managerCtx = "live" => instances[i].checker = "stopping"
      BY <1>6 DEF CheckerStops
    <2>2. \A k \in DOMAIN instances : instances[k] \in Instance
      OBVIOUS
    <2>3. /\ DOMAIN instances' = DOMAIN instances
          /\ \A k \in DOMAIN instances : k # i => instances'[k] = instances[k]
          /\ instances'[i] = [instances[i] EXCEPT !.checker = "stopped"]
      BY <2>1
    <2>4. instances'[i] \in Instance /\ instances'[i].name = instances[i].name /\ instances'[i].checker = "stopped"
      BY <2>2, <2>3 DEF Instance
    <2>5. instances' \in Seq(Instance)
      <3>1. instances' \in [1..Len(instances) -> Instance]
        BY <2>1, <2>2, <2>3, <2>4
      <3> QED
        BY <3>1
    <2>6. managerCtx = "live" => Running(instances') = Running(instances)
      BY <2>1, <2>3, <2>4 DEF Running
    <2>7. CheckersAreManaged'
      <3> SUFFICES ASSUME managerCtx = "live"
                   PROVE  /\ Running(instances') = Range(providers')
                          /\ \A k \in DOMAIN providers' : instances'[providers'[k]].name = k
        BY <2>1 DEF CheckersAreManaged, Running
      <3> QED
        BY <1>00, <2>1, <2>3, <2>4, <2>6
    <2> QED
      BY <2>1, <2>3, <2>5, <2>7
  <1>7. CASE UNCHANGED managerVars
    BY <1>7 DEF managerVars, CheckersAreManaged
  <1> QED
    BY <1>1, <1>2, <1>3, <1>4, <1>5, <1>6, <1>7 DEF ManagerNext

(* Until the manager is closed, the health checkers that run are those of  *)
(* the providers it serves, for every list of configurations and every     *)
(* sequence of additions, replacements, failures and removals              *)
(* (AddProvider, LoadFromConfig, RemoveProvider and Close of               *)
(* providerfactory/manager.go).                                            *)
THEOREM CheckersStayManaged == ManagerSpec => []CheckersAreManaged
  <1>1. ManagerInit => ManagerInv
    BY DEF ManagerInit, ManagerInv, ManagerTypes, CheckersAreManaged, Range
  <1>2. ManagerInv => CheckersAreManaged
    BY DEF ManagerInv
  <1> QED
    BY <1>1, <1>2, StepManager, PTL DEF ManagerSpec

-----------------------------------------------------------------------------
(* The life of the process *)

LifeSpec == (\E s \in Settings : LifeInit(s)) /\ [][LifeNext]_lifeVars

Writers == {"recorder", "pruner"}
Components == Writers \cup {"manager", "engine", "storage", "cancel"}

(* Every writer of evidence that is open was opened after the storage, so  *)
(* that the storage is further down among the deferred closes; while the   *)
(* components are opened, those still to come follow it too.               *)
StorageBeneath ==
    /\ toOpen \in Seq(Components) /\ deferred \in Seq(Components)
    /\ \A i \in DOMAIN deferred : deferred[i] \in Writers =>
          \E j \in DOMAIN deferred : j > i /\ deferred[j] = "storage"
    /\ mainAt \in {"loading", "opening"} =>
          \A i \in DOMAIN toOpen : toOpen[i] \in Writers =>
             Open("storage") \/ \E j \in DOMAIN toOpen : j < i /\ toOpen[j] = "storage"

(* No request is under way and none can come: the listener is gone, or     *)
(* Start has returned without one.                                         *)
Quiet ==
    /\ inFlight = 0
    /\ \/ listener \in {"closed", "failed"}
       \/ listener \in {"none", "created"} /\ startAt \in {"none", "returned"}

(* The server comes up in order, and whoever ends it leaves it quiet,      *)
(* unless there is an excuse.                                              *)
ServerInOrder ==
    /\ inFlight \in Nat
    /\ startAt \in {"none", "launched", "creating"} <=> listener = "none"
    /\ startAt = "configuring" => listener \in {"created", "closed"} /\ inFlight = 0
    /\ listener \in {"none", "created", "starting"} => inFlight = 0
    /\ mainAt \in {"loading", "opening"} => startAt = "none"
    /\ startErr => startAt = "returned"
    /\ ~excuse =>
          /\ listener = "failed" => inFlight = 0
          /\ once # "unused" => listener \in {"closed", "failed"}
          /\ once = "done" => inFlight = 0
          /\ startErr \/ mainAt = "unwinding" => Quiet

(* A sequence names the storage before every writer of evidence. *)
StorageFirst(t) == \A i \in DOMAIN t : t[i] \in Writers => \E j \in DOMAIN t : j < i /\ t[j] = "storage"
HasStorage(t) == \E j \in DOMAIN t : t[j] = "storage"

(* What is appended to such a sequence may begin with a writer only when   *)
(* the storage has been named.                                             *)
LEMMA StorageFirstConcat ==
    ASSUME NEW t \in Seq(Components), NEW u \in Seq(Components), StorageFirst(t), HasStorage(t) \/ StorageFirst(u)
    PROVE  /\ t \o u \in Seq(Components)
           /\ StorageFirst(t \o u)
           /\ HasStorage(t) \/ HasStorage(u) => HasStorage(t \o u)
  <1> DEFINE v == t \o u
  <1>1. v \in Seq(Components) /\ Len(v) = Len(t) + Len(u) /\ Len(t) \in Nat /\ Len(u) \in Nat
    OBVIOUS
  <1>2. \A i \in 1..Len(t) : v[i] = t[i]
    OBVIOUS
  <1>3. \A i \in 1..Len(u) : v[Len(t) + i] = u[i]
    OBVIOUS
  <1>4. DOMAIN v = 1..Len(v) /\ DOMAIN t = 1..Len(t) /\ DOMAIN u = 1..Len(u)
    BY <1>1
  <1> HIDE DEF v
  <1>5. ASSUME NEW i \in DOMAIN v, v[i] \in Writers
        PROVE  \E j \in DOMAIN v : j < i /\ v[j] = "storage"
    <2>1. CASE i <= Len(t)
      BY <1>1, <1>2, <1>4, <1>5, <2>1 DEF StorageFirst
    <2>2. CASE i > Len(t) /\ HasStorage(t)
      BY <1>1, <1>2, <1>4, <1>5, <2>2 DEF HasStorage
    <2>3. CASE i > Len(t) /\ StorageFirst(u)
      <3>1. PICK k \in 1..Len(u) : i = Len(t) + k
        <4>1. i - Len(t) \in 1..Len(u) /\ i = Len(t) + (i - Len(t))
          BY <1>1, <1>4, <1>5, <2>3
        <4> QED BY <4>1
      <3>2. PICK j \in 1..Len(u) : j < k /\ u[j] = "storage"
        BY <1>1, <1>3, <1>4, <1>5, <2>3, <3>1 DEF StorageFirst
      <3>3. Len(t) + j \in DOMAIN v /\ Len(t) + j < i /\ v[Len(t) + j] = "storage"
        BY <1>1, <1>3, <1>4, <3>1, <3>2
      <3> QED BY <3>3
    <2> QED
      BY <1>1, <1>4, <2>1, <2>2, <2>3
  <1>6. HasStorage(t) => HasStorage(v)
    BY <1>1, <1>2, <1>4 DEF HasStorage
  <1>7. HasStorage(u) => HasStorage(v)
    <2>1. \A j \in 1..Len(u) : Len(t) + j \in DOMAIN v
      BY <1>1, <1>4
    <2> QED
      BY <1>3, <1>4, <2>1 DEF HasStorage
  <1> QED
    BY <1>1, <1>5, <1>6, <1>7 DEF v, StorageFirst

(* The empty sequence, and one component that writes nothing. *)
LEMMA StorageFirstBase ==
    /\ <<>> \in Seq(Components) /\ StorageFirst(<<>>)
    /\ \A c \in Components : <<c>> \in Seq(Components) /\ (c \notin Writers => StorageFirst(<<c>>))
  <1>1. <<>> \in Seq(Components) /\ StorageFirst(<<>>)
    BY DEF StorageFirst
  <1>2. ASSUME NEW c \in Components
        PROVE  <<c>> \in Seq(Components) /\ (c \notin Writers => StorageFirst(<<c>>))
    <2>1. <<c>> \in Seq(Components) /\ DOMAIN <<c>> = {1} /\ <<c>>[1] = c
      OBVIOUS
    <2> QED
      BY <2>1 DEF StorageFirst
  <1> QED
    BY <1>1, <1>2

(* The storage is opened before what writes to it. *)
LEMMA InitBeneath ==
    ASSUME NEW s \in Settings, LifeInit(s)
    PROVE  StorageBeneath
  <1> DEFINE M == <<"manager">>
             P == IF s.policy THEN <<"engine">> ELSE <<>>
             E == IF s.evidence THEN <<"storage", "recorder">> ELSE <<>>
             R == IF s.evidence /\ s.schedule THEN <<"pruner">> ELSE <<>>
  <1>1. toOpen = ((M \o P) \o E) \o R /\ deferred = <<>>
    BY DEF LifeInit, Opened
  <1>2. M \in Seq(Components) /\ StorageFirst(M)
    BY StorageFirstBase DEF Components, Writers
  <1>3. P \in Seq(Components) /\ StorageFirst(P)
    <2>1. CASE s.policy
      <3>1. P = <<"engine">>
        BY <2>1
      <3> QED
        BY <3>1, StorageFirstBase DEF Components, Writers
    <2>2. CASE ~s.policy
      <3>1. P = <<>>
        BY <2>2
      <3> QED
        BY <3>1, StorageFirstBase
    <2> QED
      BY <2>1, <2>2
  <1>4. E \in Seq(Components) /\ StorageFirst(E) /\ (s.evidence => HasStorage(E))
    <2>1. CASE s.evidence
      <3> DEFINE F == <<"storage", "recorder">>
      <3>1. F \in Seq(Components) /\ DOMAIN F = {1, 2} /\ F[1] = "storage" /\ F[2] = "recorder"
        BY DEF Components, Writers
      <3>2. E = F
        BY <2>1
      <3> HIDE DEF F
      <3>3. StorageFirst(F) /\ HasStorage(F)
        BY <3>1 DEF StorageFirst, HasStorage, Writers
      <3> QED
        BY <3>1, <3>2, <3>3
    <2>2. CASE ~s.evidence
      <3>1. E = <<>>
        BY <2>2
      <3> QED
        BY <2>2, <3>1, StorageFirstBase
    <2> QED
      BY <2>1, <2>2
  <1>5. R \in Seq(Components) /\ (s.evidence \/ StorageFirst(R))
    <2>1. CASE s.evidence /\ s.schedule
      <3>1. R = <<"pruner">>
        BY <2>1
      <3> QED
        BY <2>1, <3>1, StorageFirstBase DEF Components, Writers
    <2>2. CASE ~(s.evidence /\ s.schedule)
      <3>1. R = <<>>
        BY <2>2
      <3> QED
        BY <3>1, StorageFirstBase
    <2> QED
      BY <2>1, <2>2
  <1> HIDE DEF M, P, E, R
  <1>6. M \o P \in Seq(Components) /\ StorageFirst(M \o P)
    BY <1>2, <1>3, StorageFirstConcat
  <1>7. (M \o P) \o E \in Seq(Components) /\ StorageFirst((M \o P) \o E) /\ (s.evidence => HasStorage((M \o P) \o E))
    <2> DEFINE N == M \o P
    <2> HIDE DEF N
    <2>1. N \in Seq(Components) /\ StorageFirst(N)
      BY <1>6 DEF N
    <2>2. N \o E \in Seq(Components) /\ StorageFirst(N \o E) /\ (s.evidence => HasStorage(N \o E))
      BY <1>4, <2>1, StorageFirstConcat
    <2> QED
      BY <2>2 DEF N
  <1>8. toOpen \in Seq(Components) /\ StorageFirst(toOpen)
    <2> DEFINE N == (M \o P) \o E
    <2> HIDE DEF N
    <2>1. N \in Seq(Components) /\ StorageFirst(N) /\ (s.evidence => HasStorage(N))
      BY <1>7 DEF N
    <2>2. N \o R \in Seq(Components) /\ StorageFirst(N \o R)
      BY <1>5, <2>1, StorageFirstConcat
    <2> QED
      BY <1>1, <2>2 DEF N
  <1>9. deferred \in Seq(Components) /\ DOMAIN deferred = {}
    BY <1>1
  <1> QED
    BY <1>8, <1>9 DEF StorageBeneath, StorageFirst

(* Every writer among the deferred closes d comes before the storage. *)
StorageLast(d) == \A i \in DOMAIN d : d[i] \in Writers => \E j \in DOMAIN d : j > i /\ d[j] = "storage"

(* Deferring another close. *)
LEMMA StorageLastDefer ==
    ASSUME NEW d \in Seq(Components), NEW c \in Components, StorageLast(d), c \in Writers => HasStorage(d)
    PROVE  /\ <<c>> \o d \in Seq(Components)
           /\ StorageLast(<<c>> \o d)
           /\ c = "storage" \/ HasStorage(d) => HasStorage(<<c>> \o d)
  <1> DEFINE e == <<c>> \o d
  <1>1. /\ e \in Seq(Components) /\ Len(e) = Len(d) + 1 /\ Len(d) \in Nat
        /\ DOMAIN e = 1..Len(e) /\ DOMAIN d = 1..Len(d)
        /\ e[1] = c
    OBVIOUS
  <1>2. \A i \in 1..Len(d) : i + 1 \in 1..Len(e) /\ e[i + 1] = d[i]
    OBVIOUS
  <1> HIDE DEF e
  <1>3. HasStorage(d) => \E j \in DOMAIN e : j > 1 /\ e[j] = "storage"
    BY <1>1, <1>2 DEF HasStorage
  <1>4. ASSUME NEW i \in DOMAIN e, e[i] \in Writers
        PROVE  \E j \in DOMAIN e : j > i /\ e[j] = "storage"
    <2>1. CASE i = 1
      BY <1>1, <1>3, <1>4, <2>1
    <2>2. CASE i # 1
      <3>1. PICK k \in 1..Len(d) : i = k + 1
        <4>1. i - 1 \in 1..Len(d) /\ i = (i - 1) + 1
          BY <1>1, <2>2
        <4> QED BY <4>1
      <3>2. PICK j \in 1..Len(d) : j > k /\ d[j] = "storage"
        BY <1>1, <1>2, <1>4, <3>1 DEF StorageLast
      <3>3. j + 1 \in DOMAIN e /\ j + 1 > i /\ e[j + 1] = "storage"
        BY <1>1, <1>2, <3>1, <3>2
      <3> QED BY <3>3
    <2> QED
      BY <2>1, <2>2
  <1>5. c = "storage" => HasStorage(e)
    BY <1>1 DEF HasStorage
  <1>6. HasStorage(d) => HasStorage(e)
    BY <1>3 DEF HasStorage
  <1> QED
    BY <1>1, <1>4, <1>5, <1>6 DEF e, StorageLast

(* Running the next deferred close. *)
LEMMA StorageLastTail ==
    ASSUME NEW d \in Seq(Components), d # <<>>, StorageLast(d)
    PROVE  Tail(d) \in Seq(Components) /\ StorageLast(Tail(d))
  <1> DEFINE e == Tail(d)
  <1>1. /\ e \in Seq(Components) /\ Len(d) = Len(e) + 1 /\ Len(e) \in Nat
        /\ DOMAIN e = 1..Len(e) /\ DOMAIN d = 1..Len(d)
    OBVIOUS
  <1>2. \A i \in 1..Len(e) : i + 1 \in 1..Len(d) /\ e[i] = d[i + 1]
    OBVIOUS
  <1> HIDE DEF e
  <1>3. ASSUME NEW i \in DOMAIN e, e[i] \in Writers
        PROVE  \E j \in DOMAIN e : j > i /\ e[j] = "storage"
    <2>1. PICK j \in DOMAIN d : j > i + 1 /\ d[j] = "storage"
      BY <1>1, <1>2, <1>3 DEF StorageLast
    <2>2. j - 1 \in DOMAIN e /\ j - 1 > i /\ e[j - 1] = d[(j - 1) + 1] /\ (j - 1) + 1 = j
      BY <1>1, <1>2, <2>1
    <2> QED
      BY <2>1, <2>2
  <1> QED
    BY <1>1, <1>3 DEF e, StorageLast

(* Every step keeps the storage beneath what writes to it. *)
LEMMA StepBeneath ==
    ASSUME StorageBeneath, [LifeNext]_lifeVars
    PROVE  StorageBeneath'
  <1>1. toOpen \in Seq(Components) /\ deferred \in Seq(Components) /\ StorageLast(deferred)
    BY DEF StorageBeneath, StorageLast
  <1>2. ASSUME UNCHANGED <<toOpen, deferred>>, mainAt' \in {"loading", "opening"} => mainAt \in {"loading", "opening"}
        PROVE  StorageBeneath'
    BY <1>2 DEF StorageBeneath, Open
  <1>3. CASE LoadConfiguration
    BY <1>2, <1>3 DEF LoadConfiguration
  <1>4. CASE OpenComponent
    <2> DEFINE h == Head(toOpen)
    <2>1. mainAt = "opening" /\ toOpen # <<>> /\ toOpen' = Tail(toOpen)
      BY <1>4 DEF OpenComponent
    <2>2. /\ toOpen' \in Seq(Components) /\ h \in Components /\ h = toOpen[1] /\ 1 \in DOMAIN toOpen
          /\ DOMAIN toOpen = 1..Len(toOpen) /\ DOMAIN toOpen' = 1..(Len(toOpen) - 1) /\ Len(toOpen) \in Nat
      BY <1>1, <2>1
    <2>3. \A i \in DOMAIN toOpen' : i + 1 \in DOMAIN toOpen /\ toOpen'[i] = toOpen[i + 1]
      BY <1>1, <2>1
    <2> HIDE DEF h
    <2>4. \A i \in DOMAIN toOpen : toOpen[i] \in Writers =>
             HasStorage(deferred) \/ \E j \in DOMAIN toOpen : j < i /\ toOpen[j] = "storage"
      BY <2>1 DEF StorageBeneath, Open, HasStorage
    <2>5. h \in Writers => HasStorage(deferred)
      BY <2>2, <2>4
    <2>6. ASSUME h # "storage" \/ HasStorage(deferred'), HasStorage(deferred) => HasStorage(deferred'),
                 NEW i \in DOMAIN toOpen', toOpen'[i] \in Writers, ~HasStorage(deferred')
          PROVE  \E j \in DOMAIN toOpen' : j < i /\ toOpen'[j] = "storage"
      <3>1. PICK j \in DOMAIN toOpen : j < i + 1 /\ toOpen[j] = "storage"
        BY <2>3, <2>4, <2>6
      <3>2. j # 1
        BY <2>2, <2>6, <3>1
      <3>3. j - 1 \in DOMAIN toOpen' /\ j - 1 < i /\ toOpen'[j - 1] = toOpen[(j - 1) + 1] /\ (j - 1) + 1 = j
        BY <2>2, <2>3, <3>1, <3>2
      <3> QED
        BY <3>1, <3>3
    <2>7. CASE deferred' = <<h>> \o deferred /\ mainAt' = mainAt
      <3>1. deferred' \in Seq(Components) /\ StorageLast(deferred')
            /\ (h = "storage" \/ HasStorage(deferred) => HasStorage(deferred'))
        BY <1>1, <2>2, <2>5, <2>7, StorageLastDefer
      <3> QED
        BY <2>2, <2>6, <3>1 DEF StorageBeneath, StorageLast, HasStorage, Open
    <2>8. CASE h \in {"engine", "pruner"} /\ UNCHANGED <<deferred, mainAt>>
      <3>1. deferred' \in Seq(Components) /\ StorageLast(deferred') /\ h # "storage"
            /\ (HasStorage(deferred) => HasStorage(deferred'))
        BY <1>1, <2>8
      <3> QED
        BY <2>2, <2>6, <3>1 DEF StorageBeneath, StorageLast, HasStorage, Open
    <2>9. CASE mainAt' = "unwinding" /\ deferred' = deferred
      BY <1>1, <2>2, <2>9 DEF StorageBeneath, StorageLast
    <2> QED
      BY <1>4, <2>7, <2>8, <2>9 DEF OpenComponent, h
  <1>5. CASE LaunchServer
    <2>1. deferred' = <<"cancel">> \o deferred /\ "cancel" \in Components /\ "cancel" \notin Writers
          /\ mainAt' = "sleeping" /\ toOpen' = toOpen
      BY <1>5 DEF LaunchServer, Components, Writers
    <2>2. deferred' \in Seq(Components) /\ StorageLast(deferred')
      BY <1>1, <2>1, StorageLastDefer
    <2> QED
      BY <1>1, <2>1, <2>2 DEF StorageBeneath, StorageLast
  <1>6. CASE Unwind
    <2>1. CASE deferred = <<>>
      BY <1>2, <1>6, <2>1 DEF Unwind
    <2>2. CASE deferred # <<>>
      <3>1. deferred' = Tail(deferred) /\ mainAt' = "unwinding" /\ toOpen' = toOpen
        BY <1>6, <2>2 DEF Unwind
      <3>2. deferred' \in Seq(Components) /\ StorageLast(deferred')
        BY <1>1, <2>2, <3>1, StorageLastTail
      <3> QED
        BY <1>1, <3>1, <3>2 DEF StorageBeneath, StorageLast
    <2> QED
      BY <2>1, <2>2
  <1>7. CASE WaitForShutdown \/ MainSeesError \/ MainSeesSignal
    BY <1>2, <1>7 DEF WaitForShutdown, MainSeesError, MainSeesSignal
  <1>8. CASE StartStep \/ ListenAndServe \/ ServeFails \/ RequestArrives \/ RequestEnds
    BY <1>2, <1>8 DEF StartStep, StartRuns, StartCreates, StartListens, StartSelects, ListenAndServe, ServeFails,
                      RequestArrives, RequestEnds, mainVars
  <1>9. CASE Signal
    BY <1>2, <1>9 DEF Signal
  <1>10. ASSUME NEW who \in {"main", "start"}, Shutdown(who)
         PROVE  StorageBeneath'
    BY <1>2, <1>10 DEF Shutdown, EnterShutdown, Drained, DrainTimesOut, ShutdownWasDone, Leave, shutdownVars
  <1>11. CASE UNCHANGED lifeVars
    BY <1>2, <1>11 DEF lifeVars
  <1> QED
    BY <1>3, <1>4, <1>5, <1>6, <1>7, <1>8, <1>9, <1>10, <1>11 DEF LifeNext, MainStep

(* The server comes up and goes down in order. *)
LEMMA StepServer ==
    ASSUME ServerInOrder, [LifeNext]_lifeVars
    PROVE  ServerInOrder'
  <1> USE DEF ServerInOrder, Quiet
  <1>1. CASE LoadConfiguration \/ OpenComponent \/ LaunchServer
    BY <1>1 DEF LoadConfiguration, OpenComponent, LaunchServer, serverVars
  <1>2. CASE WaitForShutdown \/ MainSeesError \/ MainSeesSignal \/ Unwind
    BY <1>2 DEF WaitForShutdown, MainSeesError, MainSeesSignal, Unwind, serverVars
  <1>3. CASE StartRuns \/ StartCreates
    BY <1>3 DEF StartRuns, StartCreates, mainVars
  <1>4. CASE StartListens
    BY <1>4 DEF StartListens, mainVars
  <1>5. CASE StartSelects
    BY <1>5 DEF StartSelects, mainVars
  <1>6. CASE ListenAndServe \/ ServeFails
    BY <1>6 DEF ListenAndServe, ServeFails, mainVars
  <1>7. ASSUME NEW who \in {"main", "start"}, Shutdown(who)
        PROVE  ServerInOrder'
    <2>1. CASE EnterShutdown(who)
      BY <1>7, <2>1 DEF EnterShutdown, InShutdown, Alive, Leave, shutdownVars
    <2>2. CASE Drained(who)
      BY <1>7, <2>2 DEF Drained, InShutdown, Alive, Leave, shutdownVars
    <2>3. CASE DrainTimesOut(who)
      BY <1>7, <2>3 DEF DrainTimesOut, InShutdown, Alive, Leave, shutdownVars
    <2>4. CASE ShutdownWasDone(who)
      BY <1>7, <2>4 DEF ShutdownWasDone, InShutdown, Alive, Leave, shutdownVars
    <2> QED
      BY <1>7, <2>1, <2>2, <2>3, <2>4 DEF Shutdown
  <1>8. CASE RequestArrives \/ RequestEnds
    BY <1>8 DEF RequestArrives, RequestEnds, mainVars
  <1>9. CASE Signal
    BY <1>9 DEF Signal
  <1>10. CASE UNCHANGED lifeVars
    BY <1>10 DEF lifeVars
  <1> QED
    BY <1>1, <1>2, <1>3, <1>4, <1>5, <1>6, <1>7, <1>8, <1>9, <1>10 DEF LifeNext, MainStep, StartStep

(* The process is torn down in order, in every configuration, with any     *)
(* number of requests and signals: the deferred closes of runServer        *)
(* (run.go:104-221) close the recorder and the pruner before the storage,  *)
(* and they run under a request only when Shutdown (server.go:127-160)     *)
(* timed out, serving failed, or there was no server yet to stop.          *)
THEOREM TearDownInOrder == LifeSpec => []TornDownInOrder
  <1>1. (\E s \in Settings : LifeInit(s)) => StorageBeneath /\ ServerInOrder
    <2>1. ASSUME NEW s \in Settings, LifeInit(s)
          PROVE  StorageBeneath /\ ServerInOrder
      <3>1. ServerInOrder
        BY <2>1 DEF LifeInit, ServerInOrder
      <3> QED
        BY <2>1, <3>1, InitBeneath
    <2> QED BY <2>1
  <1>2. (StorageBeneath /\ ServerInOrder) /\ [LifeNext]_lifeVars => (StorageBeneath /\ ServerInOrder)'
    BY StepBeneath, StepServer
  <1>3. StorageBeneath /\ ServerInOrder => TornDownInOrder
    BY DEF StorageBeneath, ServerInOrder, Quiet, TornDownInOrder, Open, Writers
  <1> QED
    BY <1>1, <1>2, <1>3, PTL DEF LifeSpec

-----------------------------------------------------------------------------
(* Secrets *)

SecretsSpec == SecretsInit /\ [][SecretsNext]_secretVars

(* The watcher has still to clear the cache, or will never again. *)
News == events \cap {"write", "create"} # {} \/ watcher # "idle"

(* Content v of the file n that is not what the file holds now. *)
Stale(n, v) == secretFiles[n] \notin {0, v}

(* Who holds an old content, the cache or a lookup on its way to the       *)
(* cache, has news coming or was passed by it.                             *)
SecretsInv ==
    /\ secretFiles \in [SecretNames -> Nat]
    /\ DOMAIN fileCache \subseteq SecretNames
    /\ DOMAIN lookups = Lookups
    /\ \A g \in Lookups : lookups[g].at # "idle" => lookups[g].name \in SecretNames
    /\ \A n \in DOMAIN fileCache : Stale(n, fileCache[n]) => News \/ n \in straddled
    /\ \A g \in Lookups :
          lookups[g].at = "read" /\ Stale(lookups[g].name, lookups[g].value) => News \/ lookups[g].name \in straddled

(* A lookup that moves on with the caches and the files as they are. *)
LEMMA LookupMoves ==
    ASSUME SecretsInv, UNCHANGED <<secretFiles, fileCache, events, watcher, straddled>>,
           NEW g \in Lookups, NEW r, lookups' = [lookups EXCEPT ![g] = r],
           r.at # "idle" => r.name \in SecretNames,
           r.at = "read" => ~Stale(r.name, r.value)
    PROVE  SecretsInv'
  <1>1. DOMAIN lookups' = Lookups /\ lookups'[g] = r /\ \A h \in Lookups : h # g => lookups'[h] = lookups[h]
    BY DEF SecretsInv
  <1>2. News' = News /\ \A n, v : Stale(n, v)' = Stale(n, v)
    BY DEF News, Stale
  <1> QED
    BY <1>1, <1>2 DEF SecretsInv, News, Stale

(* Every step keeps whoever holds an old content in sight of the news. *)
LEMMA StepSecrets ==
    ASSUME SecretsInv, [SecretsNext]_secretVars
    PROVE  SecretsInv'
  <1> DEFINE Rec(at, name, value) == [at |-> at, name |-> name, value |-> value]
  <1>1. ASSUME NEW g \in Lookups, NEW n \in SecretNames, GetSecret(g, n)
        PROVE  SecretsInv'
    <2> DEFINE r == Rec("asking", n, 0)
    <2>1. lookups' = [lookups EXCEPT ![g] = r] /\ UNCHANGED <<secretFiles, fileCache, events, watcher, straddled>>
      BY <1>1 DEF GetSecret, To
    <2>2. r.at = "asking" /\ r.name = n
      OBVIOUS
    <2> HIDE DEF r
    <2> QED
      BY <2>1, <2>2, LookupMoves
  <1>2. ASSUME NEW g \in Lookups, FileSupports(g) \/ FileGetSecret(g)
        PROVE  SecretsInv'
    <2>1. lookups[g].name \in SecretNames
      BY <1>2 DEF FileSupports, FileGetSecret, SecretsInv
    <2>2. PICK r : /\ lookups' = [lookups EXCEPT ![g] = r]
                   /\ r.at \in {"idle", "supported", "got", "reading"} /\ (r.at # "idle" => r.name = lookups[g].name)
      BY <1>2 DEF FileSupports, FileGetSecret, NextProvider, To, Asleep
    <2>3. UNCHANGED <<secretFiles, fileCache, events, watcher, straddled>>
      BY <1>2 DEF FileSupports, FileGetSecret
    <2> QED
      BY <2>1, <2>2, <2>3, LookupMoves
  <1>3. ASSUME NEW g \in Lookups, ReadSecretFile(g)
        PROVE  SecretsInv'
    <2>1. lookups[g].name \in SecretNames
      BY <1>3 DEF ReadSecretFile, SecretsInv
    <2>2. PICK r : /\ lookups' = [lookups EXCEPT ![g] = r]
                   /\ r.at \in {"idle", "got", "read"} /\ (r.at # "idle" => r.name = lookups[g].name)
                   /\ r.at = "read" => r.value = secretFiles[r.name]
      BY <1>3 DEF ReadSecretFile, NextProvider, To, Asleep
    <2>3. UNCHANGED <<secretFiles, fileCache, events, watcher, straddled>>
      BY <1>3 DEF ReadSecretFile
    <2>4. r.at = "read" => ~Stale(r.name, r.value)
      BY <2>2 DEF Stale
    <2> QED
      BY <2>1, <2>2, <2>3, <2>4, LookupMoves
  <1>4. ASSUME NEW g \in Lookups, CacheFile(g)
        PROVE  SecretsInv'
    <2> DEFINE n == lookups[g].name
               v == lookups[g].value
    <2>1. n \in SecretNames /\ (Stale(n, v) => News \/ n \in straddled)
      BY <1>4 DEF CacheFile, SecretsInv
    <2>2. /\ DOMAIN fileCache' = DOMAIN fileCache \cup {n}
          /\ \A k \in DOMAIN fileCache' : fileCache'[k] = IF k = n THEN v ELSE fileCache[k]
      BY <1>4 DEF CacheFile
    <2>3. /\ DOMAIN lookups' = Lookups
          /\ lookups'[g].at = "got" /\ lookups'[g].name = n
          /\ \A h \in Lookups : h # g => lookups'[h] = lookups[h]
      BY <1>4 DEF CacheFile, To, SecretsInv
    <2>4. UNCHANGED <<secretFiles, events, watcher, straddled>>
      BY <1>4 DEF CacheFile
    <2> HIDE DEF n, v
    <2> QED
      BY <2>1, <2>2, <2>3, <2>4 DEF SecretsInv, Stale, News
  <1>5. ASSUME NEW g \in Lookups, CacheSecret(g)
        PROVE  SecretsInv'
    <2>1. lookups' = [lookups EXCEPT ![g] = Asleep] /\ UNCHANGED <<secretFiles, fileCache, events, watcher, straddled>>
      BY <1>5 DEF CacheSecret
    <2>2. Asleep.at = "idle"
      BY DEF Asleep
    <2> QED
      BY <2>1, <2>2, LookupMoves
  <1>6. CASE watchLoop \/ CloseWatcher
    <2>1. UNCHANGED <<secretFiles, fileCache, lookups, straddled>> /\ (News => News')
      BY <1>6 DEF watchLoop, CloseWatcher, News
    <2> QED
      BY <2>1 DEF SecretsInv, Stale
  <1>7. CASE WatcherRefreshes \/ RefreshSecrets
    <2>1. UNCHANGED <<secretFiles, lookups>> /\ fileCache' = <<>>
          /\ straddled' = {lookups[g].name : g \in {h \in Lookups : lookups[h].at = "read"}}
      BY <1>7 DEF WatcherRefreshes, RefreshSecrets, ClearFileCache
    <2>2. DOMAIN fileCache' = {} /\ \A g \in Lookups : lookups[g].at = "read" => lookups[g].name \in straddled'
      BY <2>1
    <2> QED
      BY <2>1, <2>2 DEF SecretsInv
  <1>8. CASE ClearSecretCache \/ SecretTick \/ UNCHANGED secretVars
    BY <1>8 DEF ClearSecretCache, SecretTick, secretVars, SecretsInv, Stale, News
  <1>9. ASSUME NEW n \in SecretNames, NEW kind \in {"write", "create"}, Rewrite(n, kind)
        PROVE  SecretsInv'
    <2>1. News' /\ secretFiles' \in [SecretNames -> Nat] /\ UNCHANGED <<fileCache, lookups, straddled>>
      BY <1>9 DEF Rewrite, Notify, News, SecretsInv
    <2> QED
      BY <2>1 DEF SecretsInv
  <1>10. ASSUME NEW n \in SecretNames, RemoveSecretFile(n)
         PROVE  SecretsInv'
    <2>1. /\ secretFiles' \in [SecretNames -> Nat] /\ secretFiles'[n] = 0
          /\ \A k \in SecretNames : k # n => secretFiles'[k] = secretFiles[k]
      BY <1>10 DEF RemoveSecretFile, SecretsInv
    <2>2. UNCHANGED <<fileCache, lookups, straddled>> /\ (News => News')
      BY <1>10 DEF RemoveSecretFile, Notify, News
    <2> QED
      BY <2>1, <2>2 DEF SecretsInv, Stale
  <1> QED
    BY <1>1, <1>2, <1>3, <1>4, <1>5, <1>6, <1>7, <1>8, <1>9, <1>10 DEF SecretsNext

(* For any number of secrets and of concurrent lookups: what the file      *)
(* provider keeps of a file that was rewritten goes when the watcher has   *)
(* seen the news, except what a lookup read before the cache was cleared   *)
(* and stored after it (file.go:98-170, 221-258).                          *)
THEOREM SecretsFollow == SecretsSpec => []SecretsFollowFiles
  <1>1. SecretsInit => SecretsInv
    <2> SUFFICES ASSUME SecretsInit PROVE SecretsInv
      OBVIOUS
    <2>1. secretFiles \in [SecretNames -> Nat] /\ DOMAIN fileCache = {} /\ DOMAIN lookups = Lookups
      BY DEF SecretsInit
    <2>2. \A g \in Lookups : lookups[g].at = "idle"
      BY DEF SecretsInit, Asleep
    <2> QED
      BY <2>1, <2>2 DEF SecretsInv
  <1>2. SecretsInv => SecretsFollowFiles
    BY DEF SecretsInv, SecretsFollowFiles, Stale, News
  <1> QED
    BY <1>1, <1>2, StepSecrets, PTL DEF SecretsSpec

-----------------------------------------------------------------------------
(* Certificates *)

CertSpec == (\E v \in DOMAIN KeyOf \ ExpiredCerts : CertInit(v)) /\ [][CertNext]_certVars

(* A certificate file other than the one that is served has a later time    *)
(* than the one that is served, so that needsReload sees it.                *)
ReplacementIsNoticed ==
    /\ certFile.version # serving.version => certFile.time > serving.certTime
    /\ serving.version \in DOMAIN KeyOf \ ExpiredCerts

(* The times are taken before the files are read, so what has the time of  *)
(* the file has its content, and what is older may have any.               *)
CertInv ==
    /\ writes \in Nat /\ certFile.time \in 1..writes /\ keyFile.time \in 1..writes
    /\ certFile.version \in DOMAIN KeyOf \cup {0}
    /\ serving.certTime \in 1..certFile.time
    /\ serving.version \in DOMAIN KeyOf \ ExpiredCerts
    /\ serving.certTime = certFile.time => serving.version = certFile.version
    /\ reloader \in {"certificate", "key"} => stat[1] \in 1..certFile.time
    /\ reloader = "key" => /\ certRead \in DOMAIN KeyOf
                           /\ stat[1] = certFile.time => certRead = certFile.version

(* A replacement is noticed at the next tick, however the writes of the     *)
(* two files and the steps of reload interleave: reload notes the times     *)
(* before it reads (reload.go:54-132).  And only a certificate that         *)
(* ValidateCertificate accepted is served.                                  *)
THEOREM ReplacementsAreNoticed == CertSpec => []ReplacementIsNoticed
  <1>1. (\E v \in DOMAIN KeyOf \ ExpiredCerts : CertInit(v)) => CertInv
    BY DEF CertInit, CertInv
  <1>2. ASSUME CertInv, [CertNext]_certVars
        PROVE  CertInv'
    <2>1. CASE needsReload
      BY <1>2, <2>1 DEF CertInv, needsReload
    <2>2. CASE StatFiles
      BY <1>2, <2>2 DEF CertInv, StatFiles
    <2>3. CASE ReadCertificate
      BY <1>2, <2>3 DEF CertInv, ReadCertificate
    <2>4. CASE ReadKey
      BY <1>2, <2>4 DEF CertInv, ReadKey
    <2>5. ASSUME NEW v \in DOMAIN KeyOf \cup {0}, ReplaceCert(v)
          PROVE  CertInv'
      BY <1>2, <2>5 DEF CertInv, ReplaceCert
    <2>6. ASSUME NEW k \in Range(KeyOf) \cup {0}, ReplaceKey(k)
          PROVE  CertInv'
      BY <1>2, <2>6 DEF CertInv, ReplaceKey
    <2>7. CASE UNCHANGED certVars
      BY <1>2, <2>7 DEF CertInv, certVars
    <2> QED
      BY <1>2, <2>1, <2>2, <2>3, <2>4, <2>5, <2>6, <2>7 DEF CertNext, Reloading
  <1>3. CertInv => ReplacementIsNoticed
    BY DEF CertInv, ReplacementIsNoticed
  <1> QED
    BY <1>1, <1>2, <1>3, PTL DEF CertSpec

-----------------------------------------------------------------------------
(* The configuration *)

(* A set of numbers that has zero, and with a number the next, has all. *)
LEMMA NatInduct ==
    ASSUME NEW T \in SUBSET Nat, 0 \in T, \A n \in T : n + 1 \in T
    PROVE  T = Nat
  <1> DEFINE Bad == Nat \ T
  <1>1. SUFFICES ASSUME Bad # {} PROVE FALSE
    OBVIOUS
  <1>2. PICK x \in Bad : \A y \in Bad : ~(<<y, x>> \in OpToRel(<, Nat))
    BY <1>1, NatLessThanWellFounded, WFMin
  <1>3. \A y \in Bad : ~(y < x)
    BY <1>2 DEF OpToRel
  <1>4. x # 0 /\ x - 1 \in Nat /\ x - 1 \notin Bad
    BY <1>3
  <1> QED
    BY <1>4

(* One step of the walk along the downgrades. *)
WalkStep(w, downgrades) ==
    IF w.at \in w.visited \/ w.at \notin DOMAIN downgrades THEN w
    ELSE [at |-> downgrades[w.at], visited |-> w.visited \cup {w.at}]
WalkFrom(walk, model, downgrades) ==
    walk = [n \in Nat |-> IF n = 0 THEN [at |-> model, visited |-> {}] ELSE WalkStep(walk[n - 1], downgrades)]

(* The recursion of the walk has a solution: it is built up step by step. *)
LEMMA WalkExists ==
    ASSUME NEW model, NEW downgrades
    PROVE  \E walk : WalkFrom(walk, model, downgrades)
  <1> DEFINE Start == [at |-> model, visited |-> {}]
             Good(g, n) == /\ DOMAIN g = 0..n /\ g[0] = Start
                           /\ \A k \in 1..n : g[k] = WalkStep(g[k - 1], downgrades)
             T == {n \in Nat : \E g : Good(g, n)}
  <1> HIDE DEF Start
  <1>1. 0 \in T
    <2>1. Good([k \in 0..0 |-> Start], 0)
      OBVIOUS
    <2> QED
      BY <2>1
  <1>2. ASSUME NEW n \in T PROVE n + 1 \in T
    <2>1. PICK g : Good(g, n)
      BY <1>2
    <2> DEFINE h == [k \in 0..n + 1 |-> IF k = n + 1 THEN WalkStep(g[n], downgrades) ELSE g[k]]
    <2>2. n \in Nat
      OBVIOUS
    <2>3. DOMAIN h = 0..n + 1 /\ h[0] = Start
      BY <2>1, <2>2
    <2>4. ASSUME NEW k \in 1..n + 1 PROVE h[k] = WalkStep(h[k - 1], downgrades)
      <3>1. CASE k = n + 1
        BY <2>2, <3>1
      <3>2. CASE k # n + 1
        <4>1. k \in 1..n /\ k - 1 \in 0..n /\ k \in 0..n + 1 /\ k - 1 \in 0..n + 1 /\ k - 1 # n + 1
          BY <2>2, <3>2
        <4>2. h[k] = g[k] /\ h[k - 1] = g[k - 1]
          BY <3>2, <4>1
        <4> QED
          BY <2>1, <4>1, <4>2
      <3> QED
        BY <3>1, <3>2
    <2> HIDE DEF h
    <2>5. Good(h, n + 1)
      BY <2>3, <2>4
    <2> QED
      BY <2>2, <2>5
  <1>3. T = Nat
    <2> HIDE DEF T
    <2>1. T \in SUBSET Nat
      BY DEF T
    <2> QED
      BY <1>1, <1>2, <2>1, NatInduct
  <1> DEFINE G == [n \in Nat |-> CHOOSE g : Good(g, n)]
             Same(n) == \A m \in Nat : m >= n => G[m][n] = G[n][n]
  <1>4. \A n \in Nat : Good(G[n], n)
    <2> SUFFICES ASSUME NEW n \in Nat PROVE Good(G[n], n)
      OBVIOUS
    <2>1. \E g : Good(g, n)
      BY <1>3
    <2> HIDE DEF Good
    <2> QED
      BY <2>1
  <1> HIDE DEF G
  <1> DEFINE U == {n \in Nat : \A m \in Nat : m >= n => G[m][n] = G[n][n]}
  <1>5. 0 \in U
    BY <1>4
  <1>6. ASSUME NEW n \in U PROVE n + 1 \in U
    <2>1. ASSUME NEW m \in Nat, m >= n + 1 PROVE G[m][n + 1] = G[n + 1][n + 1]
      <3>1. G[m][n + 1] = WalkStep(G[m][n], downgrades) /\ G[n + 1][n + 1] = WalkStep(G[n + 1][n], downgrades)
        <4>1. n + 1 \in 1..m /\ n + 1 \in 1..(n + 1) /\ (n + 1) - 1 = n /\ n + 1 \in Nat
          BY <2>1
        <4> QED
          BY <1>4, <4>1, <2>1
      <3>2. G[m][n] = G[n][n] /\ G[n + 1][n] = G[n][n]
        BY <2>1
      <3> QED
        BY <3>1, <3>2
    <2> QED
      BY <2>1
  <1>7. U = Nat
    <2> HIDE DEF U
    <2>1. U \in SUBSET Nat
      BY DEF U
    <2> QED
      BY <1>5, <1>6, <2>1, NatInduct
  <1> DEFINE W == [n \in Nat |-> G[n][n]]
  <1>8. ASSUME NEW n \in Nat, n # 0 PROVE W[n] = WalkStep(W[n - 1], downgrades)
    <2>1. n - 1 \in Nat /\ n \in 1..n /\ n >= n - 1
      BY <1>8
    <2>2. G[n][n] = WalkStep(G[n][n - 1], downgrades)
      BY <1>4, <2>1
    <2>3. G[n][n - 1] = G[n - 1][n - 1]
      BY <1>7, <2>1
    <2> QED
      BY <2>1, <2>2, <2>3
  <1>9. W[0] = Start
    BY <1>4
  <1>10. W = [n \in Nat |-> IF n = 0 THEN Start ELSE WalkStep(W[n - 1], downgrades)]
    <2>1. \A n \in Nat : W[n] = IF n = 0 THEN Start ELSE WalkStep(W[n - 1], downgrades)
      BY <1>8, <1>9
    <2> QED
      BY <2>1
  <1> HIDE DEF W
  <1>11. WalkFrom(W, model, downgrades)
    BY <1>10, SMTT(60) DEF WalkFrom, Start
  <1> QED
    BY <1>11

(* The walk of the code is that recursion. *)
LEMMA WalkUnfolds ==
    ASSUME NEW model, NEW downgrades
    PROVE  LET walk == DowngradeWalk(model, downgrades) IN
           /\ walk[0] = [at |-> model, visited |-> {}]
           /\ \A n \in Nat : walk[n + 1] = WalkStep(walk[n], downgrades)
  <1> DEFINE walk == DowngradeWalk(model, downgrades)
  <1>1. WalkFrom(walk, model, downgrades)
    <2>1. \E w : WalkFrom(w, model, downgrades)
      BY WalkExists
    <2> QED
      BY <2>1 DEF WalkFrom, DowngradeWalk, WalkStep
  <1> HIDE DEF walk
  <1>2. walk[0] = [at |-> model, visited |-> {}]
    BY <1>1 DEF WalkFrom
  <1>3. ASSUME NEW n \in Nat PROVE walk[n + 1] = WalkStep(walk[n], downgrades)
    <2>1. n + 1 \in Nat /\ n + 1 # 0 /\ (n + 1) - 1 = n
      OBVIOUS
    <2> QED
      BY <1>1, <2>1 DEF WalkFrom
  <1> QED
    BY <1>2, <1>3, SMTT(60) DEF walk

(* Models that only downgrade to one another are found: the walk from any  *)
(* of them meets a new one at every step until it meets one again, and     *)
(* there are not more of them than steps.                                  *)
LEMMA CirclesAreFound ==
    ASSUME NEW downgrades, IsFiniteSet(DOMAIN downgrades),
           NEW S \in SUBSET DOMAIN downgrades, NEW m \in S, \A x \in S : downgrades[x] \in S
    PROVE  checkCircularDowngrade(m, downgrades)
  <1> DEFINE walk == DowngradeWalk(m, downgrades)
             Going(n) == /\ walk[n].at \in S /\ walk[n].visited \subseteq S
                         /\ walk[n].at \in walk[n].visited \/ Cardinality(walk[n].visited) = n
             T == {n \in Nat : Going(n)}
             size == Cardinality(DOMAIN downgrades)
  <1>1. /\ walk[0] = [at |-> m, visited |-> {}]
        /\ \A n \in Nat : walk[n + 1] = WalkStep(walk[n], downgrades)
    BY WalkUnfolds
  <1> HIDE DEF walk
  <1>2. 0 \in T
    BY <1>1, FS_EmptySet
  <1>3. ASSUME NEW n \in T PROVE n + 1 \in T
    <2> DEFINE w == walk[n]
    <2>1. Going(n) /\ n \in Nat
      OBVIOUS
    <2>2. CASE w.at \in w.visited
      <3>1. walk[n + 1] = w
        BY <1>1, <2>1, <2>2 DEF WalkStep
      <3> QED
        BY <2>1, <2>2, <3>1
    <2>3. CASE w.at \notin w.visited
      <3>1. walk[n + 1] = [at |-> downgrades[w.at], visited |-> w.visited \cup {w.at}]
        BY <1>1, <2>1, <2>3 DEF WalkStep
      <3>2. IsFiniteSet(w.visited)
        BY <2>1, FS_Subset
      <3>3. Cardinality(w.visited \cup {w.at}) = n + 1
        BY <2>1, <2>3, <3>2, FS_AddElement
      <3> QED
        BY <2>1, <3>1, <3>3
    <2> QED
      BY <2>2, <2>3
  <1>4. T = Nat
    <2> HIDE DEF T
    <2>1. T \in SUBSET Nat
      BY DEF T
    <2> QED
      BY <1>2, <1>3, <2>1, NatInduct
  <1>5. size \in Nat
    BY FS_CardinalityType
  <1>6. Going(size + 1)
    BY <1>4, <1>5
  <1>7. Cardinality(walk[size + 1].visited) <= size
    BY <1>6, FS_Subset
  <1>8. walk[size + 1].at \in walk[size + 1].visited
    BY <1>5, <1>6, <1>7
  <1> QED
    BY <1>8 DEF walk, checkCircularDowngrade

(* What an empty set of errors says of the fields that were looked at. *)
LEMMA NoneMissing ==
    ASSUME NEW c, NEW s, NEW fs, Required(c, s, fs) = {}, NEW f \in fs
    PROVE  Field(c, s, f) # ""
  <1>1. Field(c, s, f) = "" => <<s, f>> \in Required(c, s, fs)
    BY DEF Required
  <1> QED
    BY <1>1

(* And of the field that has to have one of some values. *)
LEMMA IsOneOf ==
    ASSUME NEW c, NEW s, NEW f, NEW values, OneOf(c, s, f, values) = {}
    PROVE  Field(c, s, f) \in values
  <1>1. Field(c, s, f) \notin values => <<s, f>> \in OneOf(c, s, f, values)
    BY DEF OneOf
  <1> QED
    BY <1>1

(* What starting up needs of the evidence settings. *)
LEMMA ValidEvidence ==
    ASSUME NEW c, validateEvidence(c) = {}, Field(c, "evidence", "enabled")
    PROVE  LET backend == Field(c, "evidence", "backend") IN
           /\ backend \in {"sqlite", "postgres", "s3"}
           /\ backend = "sqlite" => Field(c, "sqlite", "path") # ""
           /\ backend = "postgres" => Field(c, "postgres", "host") # "" /\ Field(c, "postgres", "port") # 0
           /\ backend = "s3" => Field(c, "s3", "bucket") # ""
  <1> DEFINE backend == Field(c, "evidence", "backend")
             one == OneOf(c, "evidence", "backend", {"sqlite", "postgres", "s3"})
             sqlite == Required(c, "sqlite", {"path"})
             missing == Required(c, "postgres", {"host", "database", "user"})
             port == OneOf(c, "postgres", "port", 1..MaxPort)
             mode == OneOf(c, "postgres", "ssl_mode", {"disable", "require", "verify-ca", "verify-full"})
             bucket == Required(c, "s3", {"bucket", "region"})
             days == OneOf(c, "retention", "days", 0..MaxRetentionDays)
  <1>1. validateEvidence(c) = one \cup (IF backend = "sqlite" THEN sqlite ELSE {})
            \cup (IF backend = "postgres" THEN missing \cup port \cup mode ELSE {})
            \cup (IF backend = "s3" THEN bucket ELSE {}) \cup days
    BY DEF validateEvidence, When
  <1>2. backend \in {"sqlite", "postgres", "s3"}
    <2>1. one = {}
      <3> HIDE DEF one, sqlite, missing, port, mode, bucket, days, backend
      <3> QED
        BY <1>1
    <2> QED
      BY <2>1, IsOneOf
  <1>3. ASSUME backend = "sqlite" PROVE Field(c, "sqlite", "path") # ""
    <2>1. sqlite = {}
      <3> HIDE DEF one, sqlite, missing, port, mode, bucket, days, backend
      <3> QED
        BY <1>1, <1>3
    <2> QED
      BY <2>1, NoneMissing
  <1>4. ASSUME backend = "postgres" PROVE Field(c, "postgres", "host") # "" /\ Field(c, "postgres", "port") # 0
    <2>1. missing = {} /\ port = {}
      <3> HIDE DEF one, sqlite, missing, port, mode, bucket, days, backend
      <3> QED
        BY <1>1, <1>4
    <2> DEFINE fields == {"host", "database", "user"}
               ports == 1..MaxPort
    <2>2. Required(c, "postgres", fields) = {} /\ "host" \in fields /\ OneOf(c, "postgres", "port", ports) = {} /\ 0 \notin ports
      BY <2>1
    <2> HIDE DEF fields, ports
    <2>3. Field(c, "postgres", "host") # ""
      BY <2>2, NoneMissing
    <2>4. Field(c, "postgres", "port") \in ports
      BY <2>2, IsOneOf
    <2> QED
      BY <2>2, <2>3, <2>4
  <1>5. ASSUME backend = "s3" PROVE Field(c, "s3", "bucket") # ""
    <2>1. bucket = {}
      <3> HIDE DEF one, sqlite, missing, port, mode, bucket, days, backend
      <3> QED
        BY <1>1, <1>5
    <2> DEFINE fields == {"bucket", "region"}
    <2>2. Required(c, "s3", fields) = {} /\ "bucket" \in fields
      BY <2>1
    <2> HIDE DEF fields
    <2> QED
      BY <2>2, NoneMissing
  <1> QED
    BY <1>2, <1>3, <1>4, <1>5

(* A configuration that passes validation has what the parts of the        *)
(* process need to start.                                                  *)
LEMMA ValidStarts ==
    ASSUME NEW c, Validate(c) = {}
    PROVE  Startable(c)
  <1>1. validateProviders(c) = {} /\ validatePolicy(c) = {} /\ validateEvidence(c) = {} /\ validateSecurity(c) = {}
    BY DEF Validate
  <1>2. c.providers # <<>>
    <2>1. DOMAIN c.providers # {}
      BY <1>1 DEF validateProviders, When
    <2> QED
      BY <2>1
  <1>3. \A n \in DOMAIN c.providers : ProviderField(c.providers[n], "base_url") \notin {"", "malformed"}
    BY <1>1 DEF validateProviders
  <1>4. Field(c, "policy", "mode") \in {"file", "git"}
    <2>1. OneOf(c, "policy", "mode", {"file", "git"}) = {}
      BY <1>1 DEF validatePolicy
    <2> QED
      BY <2>1, IsOneOf
  <1>5. ASSUME Field(c, "policy", "mode") = "file" PROVE Field(c, "policy", "file_path") # ""
    <2>1. Required(c, "policy", {"file_path"}) = {}
      BY <1>1, <1>5 DEF validatePolicy, When
    <2> QED
      BY <2>1, NoneMissing
  <1>6. ASSUME Field(c, "policy", "mode") = "git"
        PROVE  Field(c, "policy", "git_repo") # "" /\ Field(c, "policy", "git_branch") # ""
    <2> DEFINE fields == {"git_repo", "git_branch", "git_path"}
    <2>1. Required(c, "policy", fields) = {} /\ "git_repo" \in fields /\ "git_branch" \in fields
      BY <1>1, <1>6 DEF validatePolicy, When
    <2> HIDE DEF fields
    <2> QED
      BY <2>1, NoneMissing
  <1>7. ASSUME Field(c, "tls", "enabled") PROVE Field(c, "tls", "cert_file") # "" /\ Field(c, "tls", "key_file") # ""
    <2> DEFINE fields == {"cert_file", "key_file"}
    <2>1. Required(c, "tls", fields) = {} /\ "cert_file" \in fields /\ "key_file" \in fields
      BY <1>1, <1>7 DEF validateSecurity, When
    <2> HIDE DEF fields
    <2> QED
      BY <2>1, NoneMissing
  <1>8. ASSUME Field(c, "mtls", "enabled") PROVE Field(c, "tls", "enabled") /\ Field(c, "mtls", "client_ca_file") # ""
    <2>1. Required(c, "mtls", {"client_ca_file"}) = {}
      BY <1>1, <1>8 DEF validateSecurity, When
    <2>2. Field(c, "tls", "enabled")
      BY <1>1, <1>8 DEF validateSecurity, When
    <2> QED
      BY <2>1, <2>2, NoneMissing
  <1>9. Field(c, "evidence", "enabled") =>
           LET backend == Field(c, "evidence", "backend") IN
           /\ backend \in {"sqlite", "postgres", "s3"}
           /\ backend = "sqlite" => Field(c, "sqlite", "path") # ""
           /\ backend = "postgres" => Field(c, "postgres", "host") # "" /\ Field(c, "postgres", "port") # 0
           /\ backend = "s3" => Field(c, "s3", "bucket") # ""
    BY <1>1, ValidEvidence
  <1> QED
    BY <1>2, <1>3, <1>4, <1>5, <1>6, <1>7, <1>8, <1>9 DEF Startable

(* Following the downgrades that passed validation ends. *)
LEMMA ValidDowngradesEnd ==
    ASSUME NEW c, IsFiniteSet(DOMAIN c.downgrades), Validate(c) = {}
    PROVE  DowngradesEnd(c)
  <1>1. validateEnforcement(c) = {}
    BY DEF Validate, validateLimits
  <1>2. \A m \in DOMAIN c.downgrades : ~checkCircularDowngrade(m, c.downgrades)
    <2> DEFINE circular == {m \in DOMAIN c.downgrades : checkCircularDowngrade(m, c.downgrades)}
               field == <<"enforcement", "model_downgrades">>
               complaints == {field : m \in circular}
    <2>1. complaints \subseteq validateEnforcement(c)
      <3> DEFINE rest == When(Field(c, "enforcement", "action") # "",
                                OneOf(c, "enforcement", "action", {"block", "queue", "downgrade", "alert"}))
                           \cup OneOf(c, "enforcement", "queue_depth", 0..MaxQueueDepth) \cup NonNegative(c, "enforcement", {"queue_timeout"})
      <3>1. validateEnforcement(c) = rest \cup complaints
        BY DEF validateEnforcement
      <3> HIDE DEF rest, complaints
      <3> QED
        BY <3>1
    <2> HIDE DEF field
    <2>2. circular = {}
      BY <1>1, <2>1
    <2> QED
      BY <2>2
  <1> SUFFICES ASSUME NEW S \in SUBSET DOMAIN c.downgrades, S # {}, \A m \in S : c.downgrades[m] \in S
               PROVE  FALSE
    BY DEF DowngradesEnd
  <1>3. PICK m \in S : TRUE
    OBVIOUS
  <1> DEFINE d == c.downgrades
  <1>4. IsFiniteSet(DOMAIN d) /\ S \in SUBSET DOMAIN d /\ \A x \in S : d[x] \in S
    OBVIOUS
  <1> HIDE DEF d
  <1>5. checkCircularDowngrade(m, d)
    BY <1>3, <1>4, CirclesAreFound
  <1> QED
    BY <1>2, <1>3, <1>5 DEF d

(* Budgets that passed validation fit the larger window. *)
LEMMA ValidBudgetsNest ==
    ASSUME NEW c, WellFormed(c), Validate(c) = {}
    PROVE  BudgetsNest(c)
  <1> SUFFICES ASSUME Field(c, "budgets", "enabled"), NEW id \in DOMAIN c.budgets,
                      0 \notin {c.budgets[id].hourly, c.budgets[id].daily, c.budgets[id].monthly}
               PROVE  c.budgets[id].hourly <= c.budgets[id].daily /\ c.budgets[id].daily <= c.budgets[id].monthly
    BY DEF BudgetsNest
  <1> DEFINE b == c.budgets[id]
  <1>1. validateLimits(c) = {}
    BY DEF Validate
  <1>2. validateBudgetLimits(id, b) = {}
    BY <1>1 DEF validateLimits, When
  <1>3. b.hourly \in Int /\ b.daily \in Int /\ b.monthly \in Int
    BY DEF WellFormed
  <1> HIDE DEF b
  <1>4. /\ ~(b.hourly < 0 \/ b.daily < 0 \/ b.monthly < 0)
        /\ ~(b.hourly > 0 /\ b.daily > 0 /\ b.hourly > b.daily)
        /\ ~(b.daily > 0 /\ b.monthly > 0 /\ b.daily > b.monthly)
    BY <1>2 DEF validateBudgetLimits
  <1>5. b.hourly # 0 /\ b.daily # 0 /\ b.monthly # 0
    BY DEF b
  <1>6. b.hourly <= b.daily /\ b.daily <= b.monthly
    BY <1>3, <1>4, <1>5
  <1> QED
    BY <1>6 DEF b

(* Settings that override all of the others are what they were. *)
LEMMA OverlayAll ==
    ASSUME NEW f, f = [x \in DOMAIN f |-> f[x]], NEW g, DOMAIN g \subseteq DOMAIN f
    PROVE  Overlay(f, g) = f
  BY DEF Overlay

(* The zero value of the kind of a setting. *)
ZeroAt(k) == ZeroValue[Schema[k[1]][k[2]]]
NoneZero(f) == \A k \in DOMAIN f : f[k] # ZeroAt(k)

(* NonZero drops the zeros and nothing else. *)
LEMMA NonZeroDrops ==
    ASSUME NEW f
    PROVE  /\ NoneZero(NonZero(f))
           /\ NoneZero(f) /\ f = [x \in DOMAIN f |-> f[x]] => NonZero(f) = f
  <1>1. NoneZero(NonZero(f))
    BY DEF NoneZero, NonZero, ZeroAt, Restrict
  <1>2. ASSUME NoneZero(f), f = [x \in DOMAIN f |-> f[x]] PROVE NonZero(f) = f
    <2>1. {k \in DOMAIN f : f[k] # ZeroValue[Schema[k[1]][k[2]]]} = DOMAIN f
      BY <1>2 DEF NoneZero, ZeroAt
    <2> QED
      BY <1>2, <2>1 DEF NonZero, Restrict
  <1> QED
    BY <1>1, <1>2

(* Two settings without zeros have none together. *)
LEMMA OverlayNoneZero ==
    ASSUME NEW f, NEW g, NoneZero(f), NoneZero(g)
    PROVE  NoneZero(Overlay(f, g))
  BY DEF NoneZero, Overlay

(* No default of a section is the zero value of its field. *)
NoDefaultZero(defaults, kinds) == \A f \in DOMAIN defaults : defaults[f] # ZeroValue[kinds[f]]

(* A table of which no section has a zero default has none. *)
LEMMA FlatNoneZero ==
    ASSUME NEW t, \A s \in DOMAIN t : NoDefaultZero(t[s], Schema[s])
    PROVE  NoneZero(Flat(t))
  <1> SUFFICES ASSUME NEW k \in DOMAIN Flat(t) PROVE Flat(t)[k] # ZeroAt(k)
    BY DEF NoneZero
  <1>1. PICK s \in DOMAIN t : \E f \in DOMAIN t[s] : k = <<s, f>>
    BY DEF Flat
  <1>2. PICK f \in DOMAIN t[s] : k = <<s, f>>
    BY <1>1
  <1>3. k[1] = s /\ k[2] = f
    BY <1>2
  <1>4. Flat(t)[k] = t[k[1]][k[2]]
    BY DEF Flat
  <1> QED
    BY <1>2, <1>3, <1>4 DEF ZeroAt, NoDefaultZero

(* The zero values, each of its own type. *)
LEMMA Zeros == ZeroValue["str"] = "" /\ ZeroValue["num"] = 0 /\ ZeroValue["flag"] = FALSE /\ ZeroValue["list"] = <<>>
  <1>1. ZeroValue["str"] = ""
    BY DEF ZeroValue
  <1>2. ZeroValue["num"] = 0
    BY DEF ZeroValue
  <1>3. ZeroValue["flag"] = FALSE
    BY DEF ZeroValue
  <1>4. ZeroValue["list"] = <<>>
    BY DEF ZeroValue
  <1> QED
    BY <1>1, <1>2, <1>3, <1>4

(* No default of the proxy and the policy source is the zero value of its field. *)
LEMMA ProxyAndPolicyDefaults == NoneZero(Flat([proxy |-> ProxyDefaults, policy |-> PolicyDefaults]))
  <1> DEFINE t == [proxy |-> ProxyDefaults, policy |-> PolicyDefaults]
  <1>1. NoDefaultZero(ProxyDefaults, ProxyConfig)
    <2>1. DOMAIN ProxyDefaults = {"listen_address", "read_timeout", "write_timeout", "idle_timeout", "max_header_bytes", "shutdown_timeout"}
      BY DEF ProxyDefaults
    <2>2. /\ ProxyConfig["listen_address"] = "str" /\ ProxyConfig["read_timeout"] = "num"
          /\ ProxyConfig["write_timeout"] = "num" /\ ProxyConfig["idle_timeout"] = "num"
          /\ ProxyConfig["max_header_bytes"] = "num" /\ ProxyConfig["shutdown_timeout"] = "num"
      BY DEF ProxyConfig
    <2>3. /\ ProxyDefaults["listen_address"] # "" /\ ProxyDefaults["read_timeout"] # 0
          /\ ProxyDefaults["write_timeout"] # 0 /\ ProxyDefaults["idle_timeout"] # 0
          /\ ProxyDefaults["max_header_bytes"] # 0 /\ ProxyDefaults["shutdown_timeout"] # 0
      BY SMT DEF ProxyDefaults
    <2> QED
      BY <2>1, <2>2, <2>3, Zeros DEF NoDefaultZero
  <1>2. NoDefaultZero(PolicyDefaults, PolicyConfig)
    <2>1. DOMAIN PolicyDefaults = {"mode", "file_path", "git_branch", "git_path"}
      BY DEF PolicyDefaults
    <2>2. /\ PolicyConfig["mode"] = "str" /\ PolicyConfig["file_path"] = "str" /\ PolicyConfig["git_branch"] = "str"
          /\ PolicyConfig["git_path"] = "str"
      BY DEF PolicyConfig
    <2>3. /\ PolicyDefaults["mode"] # "" /\ PolicyDefaults["file_path"] # "" /\ PolicyDefaults["git_branch"] # ""
          /\ PolicyDefaults["git_path"] # ""
      BY SMT DEF PolicyDefaults
    <2> QED
      BY <2>1, <2>2, <2>3, Zeros DEF NoDefaultZero
  <1>3. DOMAIN t = {"proxy", "policy"}
    OBVIOUS
  <1>4. /\ t["proxy"] = ProxyDefaults /\ t["policy"] = PolicyDefaults
    OBVIOUS
  <1>5. /\ Schema["proxy"] = ProxyConfig /\ Schema["policy"] = PolicyConfig
    BY DEF Schema
  <1> HIDE DEF t
  <1>6. \A s \in DOMAIN t : NoDefaultZero(t[s], Schema[s])
    BY <1>1, <1>2, <1>3, <1>4, <1>5
  <1>7. NoneZero(Flat(t))
    BY <1>6, FlatNoneZero
  <1> QED
    BY <1>7 DEF t

(* No default of evidence is the zero value of its field. *)
LEMMA EvidenceDefaultsNonZero == NoneZero(Flat(EvidenceDefaults))
  <1>1. NoDefaultZero([backend |-> "sqlite"], EvidenceConfig)
    <2> DEFINE d == [backend |-> "sqlite"]
    <2>1. DOMAIN d = {"backend"}
      OBVIOUS
    <2>2. /\ EvidenceConfig["backend"] = "str"
      BY DEF EvidenceConfig
    <2>3. /\ d["backend"] # ""
      BY SMT
    <2> HIDE DEF d
    <2>4. NoDefaultZero(d, EvidenceConfig)
      BY <2>1, <2>2, <2>3, Zeros DEF NoDefaultZero
    <2> QED
      BY <2>4 DEF d
  <1>2. NoDefaultZero(SQLiteDefaults, SQLiteConfig)
    <2>1. DOMAIN SQLiteDefaults = {"path", "max_open_conns", "max_idle_conns", "wal_mode", "busy_timeout"}
      BY DEF SQLiteDefaults
    <2>2. /\ SQLiteConfig["path"] = "str" /\ SQLiteConfig["max_open_conns"] = "num"
          /\ SQLiteConfig["max_idle_conns"] = "num" /\ SQLiteConfig["wal_mode"] = "flag"
          /\ SQLiteConfig["busy_timeout"] = "num"
      BY DEF SQLiteConfig
    <2>3. /\ SQLiteDefaults["path"] # "" /\ SQLiteDefaults["max_open_conns"] # 0
          /\ SQLiteDefaults["max_idle_conns"] # 0 /\ SQLiteDefaults["wal_mode"] # FALSE
          /\ SQLiteDefaults["busy_timeout"] # 0
      BY SMT DEF SQLiteDefaults
    <2> QED
      BY <2>1, <2>2, <2>3, Zeros DEF NoDefaultZero
  <1>3. NoDefaultZero(RecorderDefaults, RecorderConfig)
    <2>1. DOMAIN RecorderDefaults = {"async_buffer", "write_timeout", "hash_request", "hash_response", "redact_api_keys", "max_field_length"}
      BY DEF RecorderDefaults
    <2>2. /\ RecorderConfig["async_buffer"] = "num" /\ RecorderConfig["write_timeout"] = "num"
          /\ RecorderConfig["hash_request"] = "flag" /\ RecorderConfig["hash_response"] = "flag"
          /\ RecorderConfig["redact_api_keys"] = "flag" /\ RecorderConfig["max_field_length"] = "num"
      BY DEF RecorderConfig
    <2>3. /\ RecorderDefaults["async_buffer"] # 0 /\ RecorderDefaults["write_timeout"] # 0
          /\ RecorderDefaults["hash_request"] # FALSE /\ RecorderDefaults["hash_response"] # FALSE
          /\ RecorderDefaults["redact_api_keys"] # FALSE /\ RecorderDefaults["max_field_length"] # 0
      BY SMT DEF RecorderDefaults
    <2> QED
      BY <2>1, <2>2, <2>3, Zeros DEF NoDefaultZero
  <1>4. NoDefaultZero(RetentionDefaults, RetentionConfig)
    <2>1. DOMAIN RetentionDefaults = {"days", "prune_schedule", "archive_path"}
      BY DEF RetentionDefaults
    <2>2. /\ RetentionConfig["days"] = "num" /\ RetentionConfig["prune_schedule"] = "str"
          /\ RetentionConfig["archive_path"] = "str"
      BY DEF RetentionConfig
    <2>3. /\ RetentionDefaults["days"] # 0 /\ RetentionDefaults["prune_schedule"] # ""
          /\ RetentionDefaults["archive_path"] # ""
      BY SMT DEF RetentionDefaults
    <2> QED
      BY <2>1, <2>2, <2>3, Zeros DEF NoDefaultZero
  <1>5. NoDefaultZero(QueryDefaults, QueryConfig)
    <2>1. DOMAIN QueryDefaults = {"default_limit", "max_limit", "timeout"}
      BY DEF QueryDefaults
    <2>2. /\ QueryConfig["default_limit"] = "num" /\ QueryConfig["max_limit"] = "num"
          /\ QueryConfig["timeout"] = "num"
      BY DEF QueryConfig
    <2>3. /\ QueryDefaults["default_limit"] # 0 /\ QueryDefaults["max_limit"] # 0 /\ QueryDefaults["timeout"] # 0
      BY SMT DEF QueryDefaults
    <2> QED
      BY <2>1, <2>2, <2>3, Zeros DEF NoDefaultZero
  <1>6. NoDefaultZero(ExportDefaults, ExportConfig)
    <2>1. DOMAIN ExportDefaults = {"json_pretty", "csv_include_header", "max_export_size"}
      BY DEF ExportDefaults
    <2>2. /\ ExportConfig["json_pretty"] = "flag" /\ ExportConfig["csv_include_header"] = "flag"
          /\ ExportConfig["max_export_size"] = "num"
      BY DEF ExportConfig
    <2>3. /\ ExportDefaults["json_pretty"] # FALSE /\ ExportDefaults["csv_include_header"] # FALSE
          /\ ExportDefaults["max_export_size"] # 0
      BY SMT DEF ExportDefaults
    <2> QED
      BY <2>1, <2>2, <2>3, Zeros DEF NoDefaultZero
  <1>7. NoDefaultZero(PostgresDefaults, PostgresConfig)
    <2>1. DOMAIN PostgresDefaults = {"port", "ssl_mode"}
      BY DEF PostgresDefaults
    <2>2. /\ PostgresConfig["port"] = "num" /\ PostgresConfig["ssl_mode"] = "str"
      BY DEF PostgresConfig
    <2>3. /\ PostgresDefaults["port"] # 0 /\ PostgresDefaults["ssl_mode"] # ""
      BY SMT DEF PostgresDefaults
    <2> QED
      BY <2>1, <2>2, <2>3, Zeros DEF NoDefaultZero
  <1>8. DOMAIN EvidenceDefaults = {"evidence", "sqlite", "recorder", "retention", "query", "export", "postgres"}
    BY DEF EvidenceDefaults
  <1>9. /\ EvidenceDefaults["evidence"] = [backend |-> "sqlite"] /\ EvidenceDefaults["sqlite"] = SQLiteDefaults
        /\ EvidenceDefaults["recorder"] = RecorderDefaults /\ EvidenceDefaults["retention"] = RetentionDefaults
        /\ EvidenceDefaults["query"] = QueryDefaults /\ EvidenceDefaults["export"] = ExportDefaults
        /\ EvidenceDefaults["postgres"] = PostgresDefaults
    BY DEF EvidenceDefaults
  <1>10. /\ Schema["evidence"] = EvidenceConfig /\ Schema["sqlite"] = SQLiteConfig
        /\ Schema["recorder"] = RecorderConfig /\ Schema["retention"] = RetentionConfig
        /\ Schema["query"] = QueryConfig /\ Schema["export"] = ExportConfig /\ Schema["postgres"] = PostgresConfig
    BY DEF Schema
  <1> DEFINE t == EvidenceDefaults
  <1> HIDE DEF t
  <1>11. \A s \in DOMAIN t : NoDefaultZero(t[s], Schema[s])
    BY <1>1, <1>2, <1>3, <1>4, <1>5, <1>6, <1>7, <1>8, <1>9, <1>10 DEF t
  <1>12. NoneZero(Flat(t))
    BY <1>11, FlatNoneZero
  <1> QED
    BY <1>12 DEF t

(* No default of telemetry is the zero value of its field. *)
LEMMA TelemetryDefaultsNonZero == NoneZero(Flat(TelemetryDefaults))
  <1>1. NoDefaultZero([level |-> "info", format |-> "json"], LoggingConfig)
    <2> DEFINE d == [level |-> "info", format |-> "json"]
    <2>1. DOMAIN d = {"level", "format"}
      OBVIOUS
    <2>2. /\ LoggingConfig["level"] = "str" /\ LoggingConfig["format"] = "str"
      BY DEF LoggingConfig
    <2>3. /\ d["level"] # "" /\ d["format"] # ""
      BY SMT
    <2> HIDE DEF d
    <2>4. NoDefaultZero(d, LoggingConfig)
      BY <2>1, <2>2, <2>3, Zeros DEF NoDefaultZero
    <2> QED
      BY <2>4 DEF d
  <1>2. NoDefaultZero([path |-> "/metrics"], MetricsConfig)
    <2> DEFINE d == [path |-> "/metrics"]
    <2>1. DOMAIN d = {"path"}
      OBVIOUS
    <2>2. /\ MetricsConfig["path"] = "str"
      BY DEF MetricsConfig
    <2>3. /\ d["path"] # ""
      BY SMT
    <2> HIDE DEF d
    <2>4. NoDefaultZero(d, MetricsConfig)
      BY <2>1, <2>2, <2>3, Zeros DEF NoDefaultZero
    <2> QED
      BY <2>4 DEF d
  <1>3. NoDefaultZero([sample_ratio |-> 100], TracingConfig)
    <2> DEFINE d == [sample_ratio |-> 100]
    <2>1. DOMAIN d = {"sample_ratio"}
      OBVIOUS
    <2>2. /\ TracingConfig["sample_ratio"] = "num"
      BY DEF TracingConfig
    <2>3. /\ d["sample_ratio"] # 0
      BY SMT
    <2> HIDE DEF d
    <2>4. NoDefaultZero(d, TracingConfig)
      BY <2>1, <2>2, <2>3, Zeros DEF NoDefaultZero
    <2> QED
      BY <2>4 DEF d
  <1>4. DOMAIN TelemetryDefaults = {"logging", "metrics", "tracing"}
    BY DEF TelemetryDefaults
  <1>5. /\ TelemetryDefaults["logging"] = [level |-> "info", format |-> "json"]
        /\ TelemetryDefaults["metrics"] = [path |-> "/metrics"]
        /\ TelemetryDefaults["tracing"] = [sample_ratio |-> 100]
    BY DEF TelemetryDefaults
  <1>6. /\ Schema["logging"] = LoggingConfig /\ Schema["metrics"] = MetricsConfig
        /\ Schema["tracing"] = TracingConfig
    BY DEF Schema
  <1> DEFINE t == TelemetryDefaults
  <1> HIDE DEF t
  <1>7. \A s \in DOMAIN t : NoDefaultZero(t[s], Schema[s])
    BY <1>1, <1>2, <1>3, <1>4, <1>5, <1>6 DEF t
  <1>8. NoneZero(Flat(t))
    BY <1>7, FlatNoneZero
  <1> QED
    BY <1>8 DEF t

(* No default of processing is the zero value of its field. *)
LEMMA ProcessingDefaultsNonZero == NoneZero(Flat(ProcessingDefaults))
  <1>1. NoDefaultZero(TokensDefaults, TokensConfig)
    <2>1. DOMAIN TokensDefaults = {"estimator", "cache_size", "models"}
      BY DEF TokensDefaults
    <2>2. /\ TokensConfig["estimator"] = "str" /\ TokensConfig["cache_size"] = "num"
          /\ TokensConfig["models"] = "list"
      BY DEF TokensConfig
    <2>3. /\ TokensDefaults["estimator"] # "" /\ TokensDefaults["cache_size"] # 0 /\ TokensDefaults["models"] # <<>>
      BY SMT DEF TokensDefaults
    <2> QED
      BY <2>1, <2>2, <2>3, Zeros DEF NoDefaultZero
  <1>2. NoDefaultZero([pricing |-> <<"prices">>], [pricing |-> "list"])
    <2> DEFINE d == [pricing |-> <<"prices">>]
    <2> DEFINE k == [pricing |-> "list"]
    <2>1. DOMAIN d = {"pricing"}
      OBVIOUS
    <2>2. /\ k["pricing"] = "list"
      OBVIOUS
    <2>3. /\ d["pricing"] # <<>>
      BY SMT
    <2> HIDE DEF d, k
    <2>4. NoDefaultZero(d, k)
      BY <2>1, <2>2, <2>3, Zeros DEF NoDefaultZero
    <2> QED
      BY <2>4 DEF d, k
  <1>3. NoDefaultZero([types |-> <<"pii">>], [types |-> "list"])
    <2> DEFINE d == [types |-> <<"pii">>]
    <2> DEFINE k == [types |-> "list"]
    <2>1. DOMAIN d = {"types"}
      OBVIOUS
    <2>2. /\ k["types"] = "list"
      OBVIOUS
    <2>3. /\ d["types"] # <<>>
      BY SMT
    <2> HIDE DEF d, k
    <2>4. NoDefaultZero(d, k)
      BY <2>1, <2>2, <2>3, Zeros DEF NoDefaultZero
    <2> QED
      BY <2>4 DEF d, k
  <1>4. NoDefaultZero(SensitiveDefaults, SensitiveConfig)
    <2>1. DOMAIN SensitiveDefaults = {"severity_threshold", "categories"}
      BY DEF SensitiveDefaults
    <2>2. /\ SensitiveConfig["severity_threshold"] = "str" /\ SensitiveConfig["categories"] = "list"
      BY DEF SensitiveConfig
    <2>3. /\ SensitiveDefaults["severity_threshold"] # "" /\ SensitiveDefaults["categories"] # <<>>
      BY SMT DEF SensitiveDefaults
    <2> QED
      BY <2>1, <2>2, <2>3, Zeros DEF NoDefaultZero
  <1>5. NoDefaultZero(InjectionDefaults, InjectionConfig)
    <2>1. DOMAIN InjectionDefaults = {"confidence_threshold", "patterns"}
      BY DEF InjectionDefaults
    <2>2. /\ InjectionConfig["confidence_threshold"] = "num" /\ InjectionConfig["patterns"] = "list"
      BY DEF InjectionConfig
    <2>3. /\ InjectionDefaults["confidence_threshold"] # 0 /\ InjectionDefaults["patterns"] # <<>>
      BY SMT DEF InjectionDefaults
    <2> QED
      BY <2>1, <2>2, <2>3, Zeros DEF NoDefaultZero
  <1>6. NoDefaultZero(ConversationDefaults, ConversationConfig)
    <2>1. DOMAIN ConversationDefaults = {"warn_threshold", "max_context_window"}
      BY DEF ConversationDefaults
    <2>2. /\ ConversationConfig["warn_threshold"] = "num" /\ ConversationConfig["max_context_window"] = "list"
      BY DEF ConversationConfig
    <2>3. /\ ConversationDefaults["warn_threshold"] # 0 /\ ConversationDefaults["max_context_window"] # <<>>
      BY SMT DEF ConversationDefaults
    <2> QED
      BY <2>1, <2>2, <2>3, Zeros DEF NoDefaultZero
  <1>7. DOMAIN ProcessingDefaults = {"tokens", "costs", "pii", "sensitive", "injection", "conversation"}
    BY DEF ProcessingDefaults
  <1>8. /\ ProcessingDefaults["tokens"] = TokensDefaults /\ ProcessingDefaults["costs"] = [pricing |-> <<"prices">>]
        /\ ProcessingDefaults["pii"] = [types |-> <<"pii">>] /\ ProcessingDefaults["sensitive"] = SensitiveDefaults
        /\ ProcessingDefaults["injection"] = InjectionDefaults
        /\ ProcessingDefaults["conversation"] = ConversationDefaults
    BY DEF ProcessingDefaults
  <1>9. /\ Schema["tokens"] = TokensConfig /\ Schema["costs"] = [pricing |-> "list"]
        /\ Schema["pii"] = [types |-> "list"] /\ Schema["sensitive"] = SensitiveConfig
        /\ Schema["injection"] = InjectionConfig /\ Schema["conversation"] = ConversationConfig
    BY DEF Schema
  <1> DEFINE t == ProcessingDefaults
  <1> HIDE DEF t
  <1>10. \A s \in DOMAIN t : NoDefaultZero(t[s], Schema[s])
    BY <1>1, <1>2, <1>3, <1>4, <1>5, <1>6, <1>7, <1>8, <1>9 DEF t
  <1>11. NoneZero(Flat(t))
    BY <1>10, FlatNoneZero
  <1> QED
    BY <1>11 DEF t

(* No default of limits is the zero value of its field. *)
LEMMA LimitsDefaultsNonZero == NoneZero(Flat(LimitsDefaults))
  <1>1. NoDefaultZero([alert_threshold |-> 80], [enabled |-> "flag", alert_threshold |-> "num"])
    <2> DEFINE d == [alert_threshold |-> 80]
    <2> DEFINE k == [enabled |-> "flag", alert_threshold |-> "num"]
    <2>1. DOMAIN d = {"alert_threshold"}
      OBVIOUS
    <2>2. /\ k["alert_threshold"] = "num"
      OBVIOUS
    <2>3. /\ d["alert_threshold"] # 0
      BY SMT
    <2> HIDE DEF d, k
    <2>4. NoDefaultZero(d, k)
      BY <2>1, <2>2, <2>3, Zeros DEF NoDefaultZero
    <2> QED
      BY <2>4 DEF d, k
  <1>2. NoDefaultZero(EnforcementDefaults, EnforcementConfig)
    <2>1. DOMAIN EnforcementDefaults = {"action", "queue_depth", "queue_timeout"}
      BY DEF EnforcementDefaults
    <2>2. /\ EnforcementConfig["action"] = "str" /\ EnforcementConfig["queue_depth"] = "num"
          /\ EnforcementConfig["queue_timeout"] = "num"
      BY DEF EnforcementConfig
    <2>3. /\ EnforcementDefaults["action"] # "" /\ EnforcementDefaults["queue_depth"] # 0
          /\ EnforcementDefaults["queue_timeout"] # 0
      BY SMT DEF EnforcementDefaults
    <2> QED
      BY <2>1, <2>2, <2>3, Zeros DEF NoDefaultZero
  <1>3. NoDefaultZero([backend |-> "memory"], [backend |-> "str"])
    <2> DEFINE d == [backend |-> "memory"]
    <2> DEFINE k == [backend |-> "str"]
    <2>1. DOMAIN d = {"backend"}
      OBVIOUS
    <2>2. /\ k["backend"] = "str"
      OBVIOUS
    <2>3. /\ d["backend"] # ""
      BY SMT
    <2> HIDE DEF d, k
    <2>4. NoDefaultZero(d, k)
      BY <2>1, <2>2, <2>3, Zeros DEF NoDefaultZero
    <2> QED
      BY <2>4 DEF d, k
  <1>4. NoDefaultZero(LimitsSQLiteDefaults, LimitsSQLiteConfig)
    <2>1. DOMAIN LimitsSQLiteDefaults = {"path", "snapshot_interval"}
      BY DEF LimitsSQLiteDefaults
    <2>2. /\ LimitsSQLiteConfig["path"] = "str" /\ LimitsSQLiteConfig["snapshot_interval"] = "num"
      BY DEF LimitsSQLiteConfig
    <2>3. /\ LimitsSQLiteDefaults["path"] # "" /\ LimitsSQLiteDefaults["snapshot_interval"] # 0
      BY SMT DEF LimitsSQLiteDefaults
    <2> QED
      BY <2>1, <2>2, <2>3, Zeros DEF NoDefaultZero
  <1>5. NoDefaultZero(LimitsMemoryDefaults, LimitsMemoryConfig)
    <2>1. DOMAIN LimitsMemoryDefaults = {"max_entries", "cleanup_interval"}
      BY DEF LimitsMemoryDefaults
    <2>2. /\ LimitsMemoryConfig["max_entries"] = "num" /\ LimitsMemoryConfig["cleanup_interval"] = "num"
      BY DEF LimitsMemoryConfig
    <2>3. /\ LimitsMemoryDefaults["max_entries"] # 0 /\ LimitsMemoryDefaults["cleanup_interval"] # 0
      BY SMT DEF LimitsMemoryDefaults
    <2> QED
      BY <2>1, <2>2, <2>3, Zeros DEF NoDefaultZero
  <1>6. DOMAIN LimitsDefaults = {"budgets", "enforcement", "storage", "limits_sqlite", "limits_memory"}
    BY DEF LimitsDefaults
  <1>7. /\ LimitsDefaults["budgets"] = [alert_threshold |-> 80]
        /\ LimitsDefaults["enforcement"] = EnforcementDefaults /\ LimitsDefaults["storage"] = [backend |-> "memory"]
        /\ LimitsDefaults["limits_sqlite"] = LimitsSQLiteDefaults
        /\ LimitsDefaults["limits_memory"] = LimitsMemoryDefaults
    BY DEF LimitsDefaults
  <1>8. /\ Schema["budgets"] = [enabled |-> "flag", alert_threshold |-> "num"]
        /\ Schema["enforcement"] = EnforcementConfig /\ Schema["storage"] = [backend |-> "str"]
        /\ Schema["limits_sqlite"] = LimitsSQLiteConfig /\ Schema["limits_memory"] = LimitsMemoryConfig
    BY DEF Schema
  <1> DEFINE t == LimitsDefaults
  <1> HIDE DEF t
  <1>9. \A s \in DOMAIN t : NoDefaultZero(t[s], Schema[s])
    BY <1>1, <1>2, <1>3, <1>4, <1>5, <1>6, <1>7, <1>8 DEF t
  <1>10. NoneZero(Flat(t))
    BY <1>9, FlatNoneZero
  <1> QED
    BY <1>10 DEF t

(* So no default is the zero value of its field: a default that has been   *)
(* applied is not taken for a field that was left out.                     *)
LEMMA BaseDefaultsNonZero == NoneZero(BaseDefaults)
  <1> DEFINE A == Flat([proxy |-> ProxyDefaults, policy |-> PolicyDefaults])
             B == Flat(EvidenceDefaults)
             C == Flat(TelemetryDefaults)
             D == Flat(ProcessingDefaults)
             E == Flat(LimitsDefaults)
  <1>1. NoneZero(A) /\ NoneZero(B) /\ NoneZero(C) /\ NoneZero(D) /\ NoneZero(E)
    BY ProxyAndPolicyDefaults, EvidenceDefaultsNonZero, TelemetryDefaultsNonZero, ProcessingDefaultsNonZero, LimitsDefaultsNonZero
  <1>2. BaseDefaults = Overlay(A, Overlay(B, Overlay(C, Overlay(D, E))))
    BY DEF BaseDefaults
  <1> HIDE DEF A, B, C, D, E
  <1> QED
    BY <1>1, <1>2, OverlayNoneZero

(* The CORS defaults, with the flag that is set when nothing was.          *)
LEMMA CORSDefaultsNonZero ==
    ASSUME NEW c
    PROVE  NoneZero(applyCORSDefaults(c))
  <1> DEFINE on == [enabled |-> TRUE]
             all == Overlay(CORSDefaults, on)
             section == IF corsConfigured(c) THEN CORSDefaults ELSE all
             t == [cors |-> section]
  <1>1. NoDefaultZero(CORSDefaults, CORSConfig)
    <2>1. DOMAIN CORSDefaults = {"allowed_origins", "allowed_methods", "allowed_headers", "exposed_headers", "max_age"}
      BY DEF CORSDefaults
    <2>2. /\ CORSConfig["allowed_origins"] = "list" /\ CORSConfig["allowed_methods"] = "list"
          /\ CORSConfig["allowed_headers"] = "list" /\ CORSConfig["exposed_headers"] = "list" /\ CORSConfig["max_age"] = "num"
      BY DEF CORSConfig
    <2>3. /\ CORSDefaults["allowed_origins"] # <<>> /\ CORSDefaults["allowed_methods"] # <<>>
          /\ CORSDefaults["allowed_headers"] # <<>> /\ CORSDefaults["exposed_headers"] # <<>> /\ CORSDefaults["max_age"] # 0
      BY SMT DEF CORSDefaults
    <2> QED
      BY <2>1, <2>2, <2>3, Zeros DEF NoDefaultZero
  <1>2. NoDefaultZero(on, CORSConfig)
    <2>1. DOMAIN on = {"enabled"} /\ on["enabled"] = TRUE
      OBVIOUS
    <2>2. CORSConfig["enabled"] = "flag"
      BY DEF CORSConfig
    <2> HIDE DEF on
    <2> QED
      BY <2>1, <2>2, Zeros DEF NoDefaultZero
  <1> HIDE DEF on
  <1>3. NoDefaultZero(all, CORSConfig)
    BY <1>1, <1>2 DEF NoDefaultZero, Overlay
  <1> HIDE DEF all
  <1>4. NoDefaultZero(section, CORSConfig)
    BY <1>1, <1>3
  <1> HIDE DEF section
  <1>5. DOMAIN t = {"cors"} /\ t["cors"] = section /\ Schema["cors"] = CORSConfig
    BY DEF Schema
  <1> HIDE DEF t
  <1>6. \A s \in DOMAIN t : NoDefaultZero(t[s], Schema[s])
    BY <1>4, <1>5
  <1>7. NoneZero(Flat(t))
    BY <1>6, FlatNoneZero
  <1> QED
    BY <1>7 DEF t, section, all, on, applyCORSDefaults

(* The settings that get a default for CORS. *)
LEMMA CORSDomain ==
    ASSUME NEW c
    PROVE  LET base == {<<"cors", f>> : f \in DOMAIN CORSDefaults} IN
           /\ base \subseteq DOMAIN applyCORSDefaults(c)
           /\ corsConfigured(c) => DOMAIN applyCORSDefaults(c) = base
  <1> DEFINE section == IF corsConfigured(c) THEN CORSDefaults ELSE Overlay(CORSDefaults, [enabled |-> TRUE])
  <1>1. applyCORSDefaults(c) = Flat([cors |-> section])
    BY DEF applyCORSDefaults
  <1>2. DOMAIN CORSDefaults \subseteq DOMAIN section
    BY DEF Overlay
  <1>3. corsConfigured(c) => section = CORSDefaults
    OBVIOUS
  <1> HIDE DEF section
  <1>4. DOMAIN applyCORSDefaults(c) = {<<"cors", f>> : f \in DOMAIN section}
    BY <1>1 DEF Flat
  <1> QED
    BY <1>2, <1>3, <1>4

(* What a configuration with other settings and other providers is. *)
LEMMA ChangedConfig ==
    ASSUME NEW c, WellFormed(c), NEW S, NEW P
    PROVE  /\ Changed(c, S, P) = [set |-> S, providers |-> P, budgets |-> c.budgets, rates |-> c.rates, downgrades |-> c.downgrades]
           /\ Changed(c, S, P).set = S /\ Changed(c, S, P).providers = P
           /\ WellFormed(Changed(c, S, P))
  <1> DEFINE b == c.budgets
             q == c.rates
             d == c.downgrades
             new == [set |-> S, providers |-> P, budgets |-> b, rates |-> q, downgrades |-> d]
  <1>1. Changed(c, S, P) = new
    <2> DEFINE x == c.set
               y == c.providers
    <2>1. c = [set |-> x, providers |-> y, budgets |-> b, rates |-> q, downgrades |-> d]
      BY DEF WellFormed
    <2> HIDE DEF x, y, b, q, d
    <2>2. c \in [set : {x}, providers : {y}, budgets : {b}, rates : {q}, downgrades : {d}]
      BY <2>1
    <2>3. Changed(c, S, P) \in [set : {S}, providers : {P}, budgets : {b}, rates : {q}, downgrades : {d}]
      BY <2>2 DEF Changed
    <2>4. \A r \in [set : {S}, providers : {P}, budgets : {b}, rates : {q}, downgrades : {d}] : r = new
      OBVIOUS
    <2> QED
      BY <2>3, <2>4
  <1>2. WellFormed(new)
    BY DEF WellFormed
  <1>3. new.set = S /\ new.providers = P
    OBVIOUS
  <1> QED
    BY <1>1, <1>2, <1>3

(* Defaults do not change settings that they have been applied to. *)
LEMMA DefaultsSettle ==
    ASSUME NEW c, WellFormed(c)
    PROVE  LET d == ApplyDefaults(c) IN ApplyDefaults(d) = d
  <1> DEFINE d == ApplyDefaults(c)
             cors == applyCORSDefaults(c)
             given == Overlay(BaseDefaults, cors)
             fixed == Overlay(BaseDefaults, applyCORSDefaults(d))
  <1>1. /\ d.set = Overlay(NonZero(c.set), given)
        /\ d.providers = [n \in DOMAIN c.providers |-> applyProviderDefaults(c.providers[n])]
        /\ WellFormed(d)
    <2> DEFINE S == Overlay(NonZero(c.set), given)
               P == [n \in DOMAIN c.providers |-> applyProviderDefaults(c.providers[n])]
    <2>1. d = Changed(c, S, P)
      BY DEF ApplyDefaults
    <2> HIDE DEF S, P, d
    <2>2. d.set = S /\ d.providers = P /\ WellFormed(d)
      BY <2>1, ChangedConfig
    <2> QED
      BY <2>2 DEF S, P
  <1> HIDE DEF d
  <1>2. NoneZero(d.set)
    BY <1>1, NonZeroDrops, OverlayNoneZero, BaseDefaultsNonZero, CORSDefaultsNonZero
  <1>3. d.set = [x \in DOMAIN d.set |-> d.set[x]] /\ DOMAIN given \subseteq DOMAIN d.set
    BY <1>1 DEF Overlay
  <1>4. corsConfigured(d)
    <2> DEFINE k == <<"cors", "allowed_origins">>
    <2>1. k \in DOMAIN cors
      <3>1. "allowed_origins" \in DOMAIN CORSDefaults
        BY DEF CORSDefaults
      <3> QED
        BY <3>1, CORSDomain
    <2>2. k \in DOMAIN d.set
      BY <1>3, <2>1 DEF Overlay
    <2>3. Schema["cors"] = CORSConfig
      BY DEF Schema
    <2>4. CORSConfig["allowed_origins"] = "list"
      BY DEF CORSConfig
    <2>5. ZeroAt(k) = <<>>
      BY <2>3, <2>4, Zeros DEF ZeroAt
    <2>6. Field(d, "cors", "allowed_origins") # <<>>
      BY <1>2, <2>2, <2>5 DEF Field, NoneZero
    <2> QED
      BY <2>6 DEF corsConfigured
  <1>5. DOMAIN fixed \subseteq DOMAIN d.set
    <2>1. DOMAIN applyCORSDefaults(d) \subseteq DOMAIN cors
      BY <1>4, CORSDomain
    <2> QED
      BY <1>3, <2>1 DEF Overlay
  <1>6. Overlay(NonZero(d.set), fixed) = d.set
    <2>1. NonZero(d.set) = d.set
      BY <1>2, <1>3, NonZeroDrops
    <2> HIDE DEF fixed
    <2> QED
      BY <1>3, <1>5, <2>1, OverlayAll
  <1>7. ASSUME NEW p PROVE applyProviderDefaults(applyProviderDefaults(p)) = applyProviderDefaults(p)
    <2> DEFINE q == applyProviderDefaults(p)
    <2>1. \A f \in DOMAIN ProviderDefaults : ProviderDefaults[f] # ZeroValue[ProviderConfig[f]]
      <3>1. DOMAIN ProviderDefaults = {"timeout", "max_retries"}
        BY DEF ProviderDefaults
      <3>2. ProviderConfig["timeout"] = "num" /\ ProviderConfig["max_retries"] = "num"
        BY DEF ProviderConfig
      <3>3. ProviderDefaults["timeout"] # 0 /\ ProviderDefaults["max_retries"] # 0
        BY DEF ProviderDefaults
      <3> QED
        BY <3>1, <3>2, <3>3, Zeros
    <2>2. \A f \in DOMAIN q : q[f] # ZeroValue[ProviderConfig[f]]
      BY <2>1 DEF applyProviderDefaults, Overlay, Restrict
    <2>3. q = [x \in DOMAIN q |-> q[x]] /\ DOMAIN ProviderDefaults \subseteq DOMAIN q
      BY DEF applyProviderDefaults, Overlay
    <2> HIDE DEF q
    <2>4. {f \in DOMAIN q : q[f] # ZeroValue[ProviderConfig[f]]} = DOMAIN q
      BY <2>2
    <2>5. Restrict(q, {f \in DOMAIN q : q[f] # ZeroValue[ProviderConfig[f]]}) = q
      BY <2>3, <2>4 DEF Restrict
    <2>6. applyProviderDefaults(q) = q
      BY <2>3, <2>5, OverlayAll DEF applyProviderDefaults
    <2> QED
      BY <2>6 DEF q
  <1>8. [n \in DOMAIN d.providers |-> applyProviderDefaults(d.providers[n])] = d.providers
    BY <1>1, <1>7
  <1>9. ApplyDefaults(d) = Changed(d, d.set, d.providers)
    BY <1>6, <1>8 DEF ApplyDefaults
  <1>10. Changed(d, d.set, d.providers) = d
    BY <1>1, ChangedConfig DEF WellFormed
  <1> QED
    BY <1>9, <1>10 DEF d

-----------------------------------------------------------------------------
ConfigSpec == ConfigInit /\ [][ConfigNext]_configVars

(* What a load can give; a configuration that was loaded is well formed    *)
(* and passed validation after the environment had its say.                *)
LoadResults == {Failed} \cup {LoadConfigWithEnvOverrides(f, e) : f \in ConfigFiles, e \in Environments}
Valid(c) == WellFormed(c) /\ Validate(c) = {}
LoadedIsValid(r) == r.failed \in BOOLEAN /\ (~r.failed => Valid(r.config))

(* A load that succeeds passed the second validation, and neither the      *)
(* defaults nor the overrides touch the maps the assumption is about.      *)
LEMMA LoadsAreValid ==
    ASSUME NEW r \in LoadResults
    PROVE  LoadedIsValid(r)
  <1>1. CASE r = Failed
    BY <1>1 DEF Failed, LoadedIsValid
  <1>2. CASE r # Failed
    <2>1. PICK f \in ConfigFiles, e \in Environments : r = LoadConfigWithEnvOverrides(f, e)
      BY <1>2 DEF LoadResults
    <2> DEFINE a == ApplyDefaults(f.config)
               c == applyEnvOverrides(a, e)
    <2>2. f.readable /\ r = Loaded(c) /\ Validate(c) = {}
      BY <1>2, <2>1 DEF LoadConfigWithEnvOverrides, LoadConfig, Failed, Loaded
    <2>3. WellFormed(f.config)
      BY <2>2, ConfigAssumption DEF ConfigAssumption
    <2>4. WellFormed(a)
      BY <2>3, ChangedConfig DEF ApplyDefaults
    <2> HIDE DEF a
    <2>5. WellFormed(c)
      BY <2>4, ChangedConfig DEF applyEnvOverrides
    <2> HIDE DEF c
    <2> QED
      BY <2>2, <2>5 DEF LoadedIsValid, Loaded, Valid
  <1> QED
    BY <1>1, <1>2

(* What validation lets through is what the process can run on. *)
LEMMA ValidIsSound ==
    ASSUME NEW c, Valid(c)
    PROVE  Startable(c) /\ DowngradesEnd(c) /\ BudgetsNest(c) /\ LET d == ApplyDefaults(c) IN ApplyDefaults(d) = d
  <1>1. WellFormed(c) /\ Validate(c) = {} /\ IsFiniteSet(DOMAIN c.downgrades)
    BY DEF Valid, WellFormed
  <1>2. Startable(c)
    BY <1>1, ValidStarts
  <1>3. DowngradesEnd(c)
    BY <1>1, ValidDowngradesEnd
  <1>4. BudgetsNest(c)
    BY <1>1, ValidBudgetsNest
  <1>5. LET d == ApplyDefaults(c) IN ApplyDefaults(d) = d
    BY <1>1, DefaultsSettle
  <1> QED
    BY <1>2, <1>3, <1>4, <1>5

(* Every load gives a result of the file in the environment, and what is   *)
(* stored globally is one that succeeded.                                  *)
ConfigInv ==
    /\ configFile \in ConfigFiles /\ environ \in Environments
    /\ loader \in [Loaders -> [at : {"idle", "initialize", "reload"}, loaded : LoadResults, told : {"nothing", "nil", "error"}]]
    /\ globalConfig # Unset => Valid(globalConfig)

(* Every step keeps it: the only one that changes what is served stores a  *)
(* result of a load.                                                       *)
LEMMA ConfigStep ==
    ASSUME ConfigInv, [ConfigNext]_configVars
    PROVE  ConfigInv'
  <1> USE DEF ConfigInv
  <1>1. CASE UNCHANGED configVars
    BY <1>1 DEF configVars
  <1>2. CASE RewriteConfig
    BY <1>2 DEF RewriteConfig
  <1>3. LoadConfigWithEnvOverrides(configFile, environ) \in LoadResults /\ Failed \in LoadResults
    BY DEF LoadResults
  <1>4. ASSUME NEW l \in Loaders, Initialize(l) PROVE ConfigInv'
    BY <1>3, <1>4 DEF Initialize
  <1>5. ASSUME NEW l \in Loaders, ReloadConfig(l) PROVE ConfigInv'
    BY <1>3, <1>5 DEF ReloadConfig
  <1>6. ASSUME NEW l \in Loaders, StoreConfig(l) PROVE ConfigInv'
    <2>1. LoadedIsValid(loader[l].loaded)
      BY LoadsAreValid
    <2>2. globalConfig' # Unset => Valid(globalConfig')
      BY <1>6, <2>1 DEF StoreConfig, LoadedIsValid
    <2>3. /\ configFile' \in ConfigFiles /\ environ' \in Environments
          /\ loader' \in [Loaders -> [at : {"idle", "initialize", "reload"}, loaded : LoadResults, told : {"nothing", "nil", "error"}]]
      BY <1>3, <1>6 DEF StoreConfig
    <2> QED
      BY <2>2, <2>3
  <1> QED
    BY <1>1, <1>2, <1>4, <1>5, <1>6 DEF ConfigNext

(***************************************************************************)
(* Whatever the files and the environments hold, and however many          *)
(* goroutines initialise and reload while the file is edited, the          *)
(* configuration that GetConfig hands out is one the process can run on:   *)
(* what is needed to start is there, the downgrades end, the budgets nest, *)
(* and applying the defaults once more would change nothing.               *)
(* (config.Validate, LoadConfigWithEnvOverrides, Initialize, ReloadConfig) *)
(***************************************************************************)
THEOREM ConfigurationSound == ConfigSpec => []ServedConfigurationIsSound
  <1>1. ConfigInit => ConfigInv
    BY DEF ConfigInit, ConfigInv, LoadResults
  <1>2. ConfigInv /\ [ConfigNext]_configVars => ConfigInv'
    BY ConfigStep
  <1>3. ConfigInv => ServedConfigurationIsSound
    BY ValidIsSound DEF ConfigInv, ServedConfigurationIsSound
  <1> QED
    BY <1>1, <1>2, <1>3, PTL DEF ConfigSpec

-----------------------------------------------------------------------------
(***************************************************************************)
(* The router.  The first part is about the sum of the counters of the     *)
(* providers, which the statistics compare with the number of requests, as *)
(* the fold of the library computes it.                                    *)
(***************************************************************************)

First(s) == CHOOSE x \in s : TRUE
IsSum(g, f, S) ==
    g = [s \in SUBSET S |-> IF s = {} THEN 0 ELSE f[First(s)] + g[s \ {First(s)}]]
SumOver(f, S) == CHOOSE g : IsSum(g, f, S)

(* A family of subsets of a finite set has a minimal one. *)
LEMMA Minimal ==
    ASSUME NEW S, IsFiniteSet(S), NEW Family \in SUBSET (SUBSET S), Family # {}
    PROVE  \E m \in Family : \A t \in Family : t \subseteq m => t = m
  <1>1. IsWellFoundedOn(StrictSubsetOrdering(S), SUBSET S)
    BY FS_StrictSubsetOrderingWellFounded, FS_FiniteSubsetsOfFinite
  <1>2. PICK m \in Family : \A t \in Family : ~(<<t, m>> \in StrictSubsetOrdering(S))
    BY <1>1, WFMin
  <1>3. ASSUME NEW t \in Family, t \subseteq m PROVE t = m
    BY <1>2, <1>3 DEF StrictSubsetOrdering
  <1> QED
    BY <1>3

(* The recursion of the sum has a solution: it is built up by cardinality. *)
LEMMA SumExists ==
    ASSUME NEW S, IsFiniteSet(S), NEW f \in [S -> Nat]
    PROVE  \E g : IsSum(g, f, S)
  <1> DEFINE Small(n) == {s \in SUBSET S : Cardinality(s) <= n}
             Step(g, s) == IF s = {} THEN 0 ELSE f[First(s)] + g[s \ {First(s)}]
             T == {n \in Nat : \E g : g = [s \in Small(n) |-> Step(g, s)]}
  <1>0. \A s \in SUBSET S : IsFiniteSet(s) /\ Cardinality(s) \in Nat
    BY FS_Subset, FS_CardinalityType
  <1>1. ASSUME NEW n \in Nat, NEW s \in Small(n + 1), s # {}
        PROVE  s \ {First(s)} \in Small(n)
    <2>1. First(s) \in s
      BY <1>1 DEF First
    <2>2. Cardinality(s \ {First(s)}) = Cardinality(s) - 1
      BY <1>0, <2>1, FS_RemoveElement
    <2> QED
      BY <1>0, <2>2
  <1>2. 0 \in T
    <2> DEFINE g == [s \in Small(0) |-> 0]
    <2>1. \A s \in Small(0) : s = {}
      BY <1>0, FS_EmptySet
    <2>2. g = [s \in Small(0) |-> Step(g, s)]
      BY <2>1
    <2> QED
      BY <2>2
  <1>3. ASSUME NEW n \in T PROVE n + 1 \in T
    <2>1. PICK g : g = [s \in Small(n) |-> Step(g, s)]
      OBVIOUS
    <2> DEFINE h == [s \in Small(n + 1) |-> Step(g, s)]
    <2>2. \A s \in Small(n) : s \in Small(n + 1) /\ h[s] = g[s]
      <3>1. \A s \in Small(n) : s \in Small(n + 1)
        BY <1>0
      <3>2. \A s \in Small(n) : g[s] = Step(g, s)
        BY <2>1
      <3> QED
        BY <3>1, <3>2
    <2>3. \A s \in Small(n + 1) : Step(h, s) = Step(g, s)
      BY <1>1, <2>2
    <2>4. h = [s \in Small(n + 1) |-> Step(h, s)]
      BY <2>3
    <2>5. \E k : k = [s \in Small(n + 1) |-> Step(k, s)]
      <3> HIDE DEF h, Step, Small
      <3> QED
        BY <2>4
    <2>6. n + 1 \in Nat
      OBVIOUS
    <2> HIDE DEF Step, Small
    <2> QED
      BY <2>5, <2>6, Zenon
  <1>4. Cardinality(S) \in T
    <2>1. T \in SUBSET Nat
      OBVIOUS
    <2> HIDE DEF T
    <2> QED
      BY <1>0, <1>2, <1>3, <2>1, NatInduct
  <1>5. Small(Cardinality(S)) = SUBSET S
    BY FS_Subset
  <1>6. PICK g : g = [s \in SUBSET S |-> Step(g, s)]
    BY <1>4, <1>5
  <1> QED
    BY <1>6 DEF IsSum

(* So the sum over a set satisfies its recursion. *)
LEMMA SumUnfolds ==
    ASSUME NEW S, IsFiniteSet(S), NEW f \in [S -> Nat]
    PROVE  /\ SumOver(f, S)[{}] = 0
           /\ \A s \in SUBSET S : s # {} =>
                /\ First(s) \in s
                /\ SumOver(f, S)[s] = f[First(s)] + SumOver(f, S)[s \ {First(s)}]
  <1> DEFINE g == SumOver(f, S)
  <1>1. IsSum(g, f, S)
    BY SumExists DEF SumOver
  <1> HIDE DEF g
  <1>2. g[{}] = 0
    BY <1>1 DEF IsSum
  <1>3. ASSUME NEW s \in SUBSET S, s # {}
        PROVE  First(s) \in s /\ g[s] = f[First(s)] + g[s \ {First(s)}]
    BY <1>1, <1>3 DEF IsSum, First
  <1> QED
    BY <1>2, <1>3 DEF g

(* A sum of counters is a number. *)
LEMMA SumType ==
    ASSUME NEW S, IsFiniteSet(S), NEW f \in [S -> Nat]
    PROVE  SumOver(f, S) [S] \in Nat
  <1> DEFINE Wrong == {s \in SUBSET S : SumOver(f, S)[s] \notin Nat}
  <1>1. SUFFICES ASSUME Wrong # {} PROVE FALSE
    OBVIOUS
  <1>2. PICK m \in Wrong : \A t \in Wrong : t \subseteq m => t = m
    <2>1. Wrong \in SUBSET (SUBSET S)
      OBVIOUS
    <2> HIDE DEF Wrong
    <2> QED
      BY <1>1, <2>1, Minimal
  <1>3. m # {}
    BY SumUnfolds
  <1>4. First(m) \in m /\ SumOver(f, S)[m] = f[First(m)] + SumOver(f, S)[m \ {First(m)}]
    BY <1>3, SumUnfolds
  <1>5. SumOver(f, S)[m \ {First(m)}] \in Nat
    BY <1>2, <1>4
  <1> QED
    BY <1>4, <1>5

(* One more for one element is one more for every sum it is in. *)
LEMMA SumGrows ==
    ASSUME NEW S, IsFiniteSet(S), NEW f \in [S -> Nat], NEW c \in S, NEW more \in [S -> Nat],
           \A x \in S : more[x] = f[x] + (IF x = c THEN 1 ELSE 0)
    PROVE  SumOver(more, S)[S] = SumOver(f, S)[S] + 1
  <1> DEFINE g == SumOver(f, S)
             h == SumOver(more, S)
             Right(s) == g[s] \in Nat /\ h[s] = g[s] + (IF c \in s THEN 1 ELSE 0)
             Wrong == {s \in SUBSET S : ~Right(s)}
  <1>1. SUFFICES ASSUME Wrong # {} PROVE FALSE
    OBVIOUS
  <1>2. PICK m \in Wrong : \A t \in Wrong : t \subseteq m => t = m
    <2>1. Wrong \in SUBSET (SUBSET S)
      OBVIOUS
    <2> HIDE DEF Wrong
    <2> QED
      BY <1>1, <2>1, Minimal
  <1> DEFINE x == First(m)
  <1>3. m # {}
    <2>1. g[{}] = 0 /\ h[{}] = 0
      BY SumUnfolds
    <2>2. Right({})
      BY <2>1
    <2> QED
      BY <2>2
  <1>4. /\ x \in m
        /\ g[m] = f[x] + g[m \ {x}]
        /\ h[m] = more[x] + h[m \ {x}]
    <2>1. x \in m /\ g[m] = f[x] + g[m \ {x}]
      BY <1>3, SumUnfolds
    <2>2. h[m] = more[x] + h[m \ {x}]
      BY <1>3, SumUnfolds
    <2> QED
      BY <2>1, <2>2
  <1>5. Right(m \ {x})
    BY <1>2, <1>4
  <1>6. Right(m)
    <2> HIDE DEF g, h, x
    <2> QED
      BY <1>4, <1>5
  <1> QED
    BY <1>6

(* The sum of no requests at all. *)
LEMMA SumOfNothing ==
    ASSUME NEW S, IsFiniteSet(S), NEW f \in [S -> Nat], \A x \in S : f[x] = 0
    PROVE  SumOver(f, S)[S] = 0
  <1> DEFINE Wrong == {s \in SUBSET S : SumOver(f, S)[s] # 0}
  <1>1. SUFFICES ASSUME Wrong # {} PROVE FALSE
    OBVIOUS
  <1>2. PICK m \in Wrong : \A t \in Wrong : t \subseteq m => t = m
    <2>1. Wrong \in SUBSET (SUBSET S)
      OBVIOUS
    <2> HIDE DEF Wrong
    <2> QED
      BY <1>1, <2>1, Minimal
  <1>3. m # {}
    BY SumUnfolds
  <1>4. First(m) \in m /\ SumOver(f, S)[m] = f[First(m)] + SumOver(f, S)[m \ {First(m)}]
    BY <1>3, SumUnfolds
  <1>5. SumOver(f, S)[m \ {First(m)}] = 0
    BY <1>2, <1>4
  <1> QED
    BY <1>4, <1>5

-----------------------------------------------------------------------------
(* Routing *)

(* What a request is allowed at each point: the strategies run only when   *)
(* the policy names no target, and only a request with a key is stored.    *)
Precedence ==
    \A r \in Requests :
       /\ avail[r] \subseteq req[r].capable
       /\ pc[r] \in {"manual", "strategy", "pick"} => req[r].target = None
       /\ pc[r] = "store" => req[r].key # None

RouteInv == TypeOK /\ Precedence /\ RouteIsPermitted

(* The first fallback that is available is one of the names and available. *)
LEMMA FallbackIsAvailable ==
    ASSUME TypeOK, NEW r \in Requests, FirstFallback(r) # None
    PROVE  FirstFallback(r) \in avail[r] /\ FirstFallback(r) \in ToSet(req[r].fallback)
  <1> DEFINE usable == {i \in DOMAIN req[r].fallback : req[r].fallback[i] \in avail[r]}
  <1>1. req[r].fallback \in Seq(Providers)
    BY RouterAssumption DEF RouterAssumption, TypeOK, Kind
  <1>2. usable \in SUBSET Nat /\ usable # {}
    BY <1>1 DEF FirstFallback
  <1>3. PICK i \in usable : \A j \in usable : i <= j
    <2>1. PICK x \in usable : \A y \in usable : ~(<<y, x>> \in OpToRel(<, Nat))
      <3> HIDE DEF usable
      <3> QED
        BY <1>2, NatLessThanWellFounded, WFMin
    <2>2. \A y \in usable : ~(y < x)
      BY <1>2, <2>1 DEF OpToRel
    <2> QED
      BY <1>2, <2>2
  <1>4. Min(usable) \in usable
    <2> HIDE DEF usable
    <2> QED
      BY <1>3 DEF Min
  <1>5. FirstFallback(r) = req[r].fallback[Min(usable)]
    BY <1>2 DEF FirstFallback
  <1> QED
    BY <1>4, <1>5 DEF ToSet

(* The invariant holds at the start. *)
LEMMA InitRoutes == Init => RouteInv
  <1> SUFFICES ASSUME Init PROVE RouteInv
    OBVIOUS
  <1>1. (CHOOSE k \in Kinds : TRUE) \in Kinds
    BY RouterAssumption DEF RouterAssumption
  <1>2. TypeOK
    BY <1>1, RouterAssumption DEF Init, TypeOK, States, RouterAssumption
  <1>3. Precedence /\ RouteIsPermitted
    BY DEF Init, Precedence, RouteIsPermitted, Decided
  <1> QED
    BY <1>2, <1>3 DEF RouteInv

(* Every step of a request keeps the types: what it chooses is one of the  *)
(* providers that were left, and it stores a choice only under its key.    *)
LEMMA StepTypes ==
    ASSUME RouteInv, [Next]_vars
    PROVE  TypeOK'
  <1> USE RouterAssumption DEF RouteInv, TypeOK, States, Goto, Choose, locals, world, stats
  <1> SUFFICES ASSUME Next PROVE TypeOK'
    BY DEF vars
  <1>1. ASSUME NEW r \in Requests, Begin(r) PROVE TypeOK'
    BY <1>1 DEF Begin, RouterAssumption
  <1>2. ASSUME NEW r \in Requests, SelectCapable(r) PROVE TypeOK'
    BY <1>2 DEF SelectCapable
  <1>3. ASSUME NEW r \in Requests, FilterByHealth(r) PROVE TypeOK'
    BY <1>3 DEF FilterByHealth
  <1>4. ASSUME NEW r \in Requests, RouteWithPolicy(r) PROVE TypeOK'
    <2>1. FirstFallback(r) \in Providers \cup {None}
      BY FallbackIsAvailable
    <2> QED
      BY <1>4, <2>1 DEF RouteWithPolicy
  <1>5. ASSUME NEW r \in Requests, RouteManual(r) PROVE TypeOK'
    BY <1>5 DEF RouteManual
  <1>6. ASSUME NEW r \in Requests, Sticky(r) PROVE TypeOK'
    BY <1>6 DEF Sticky
  <1>7. ASSUME NEW r \in Requests, Manual(r) PROVE TypeOK'
    BY <1>7 DEF Manual
  <1>8. ASSUME NEW r \in Requests, HealthBased(r) PROVE TypeOK'
    BY <1>8 DEF HealthBased
  <1>9. ASSUME NEW r \in Requests, PlainRoundRobin(r) PROVE TypeOK'
    BY <1>9 DEF PlainRoundRobin
  <1>10. ASSUME NEW r \in Requests, Pick(r) PROVE TypeOK'
    BY <1>10 DEF Pick, Weighted
  <1>11. ASSUME NEW r \in Requests, Store(r) PROVE TypeOK'
    BY <1>11 DEF Store
  <1>12. ASSUME NEW r \in Requests, CountProvider(r) PROVE TypeOK'
    <2>1. chosen[r] \in Providers
      BY <1>12 DEF CountProvider, RouteIsPermitted, Decided
    <2> QED
      BY <1>12, <2>1 DEF CountProvider
  <1>13. ASSUME NEW r \in Requests, CountStrategy(r) PROVE TypeOK'
    BY <1>13 DEF CountStrategy
  <1>14. ASSUME NEW r \in Requests, CountError(r) PROVE TypeOK'
    BY <1>14 DEF CountError
  <1>15. ASSUME NEW p \in Providers, HealthChanges(p) PROVE TypeOK'
    BY <1>15 DEF HealthChanges
  <1>16. ASSUME NEW ps \in Pools, UpdateProviders(ps) PROVE TypeOK'
    BY <1>16 DEF UpdateProviders, RouterAssumption
  <1>17. ASSUME NEW k \in Keys, Forget(k) PROVE TypeOK'
    BY <1>17 DEF Forget
  <1> QED
    BY <1>1, <1>2, <1>3, <1>4, <1>5, <1>6, <1>7, <1>8, <1>9, <1>10, <1>11, <1>12, <1>13,
       <1>14, <1>15, <1>16, <1>17 DEF Next

(* What changes in the world after the filters does not reach a request:   *)
(* it goes on with the list it has.                                        *)
LEMMA StepRoutes ==
    ASSUME RouteInv, [Next]_vars
    PROVE  Precedence' /\ RouteIsPermitted'
  <1> USE RouterAssumption
      DEF RouteInv, TypeOK, Precedence, RouteIsPermitted, Decided, Goto, Choose, locals, world, stats
  <1>1. ASSUME NEW r \in Requests, Begin(r) PROVE Precedence' /\ RouteIsPermitted'
    BY <1>1 DEF Begin
  <1>2. ASSUME NEW r \in Requests, SelectCapable(r) PROVE Precedence' /\ RouteIsPermitted'
    BY <1>2 DEF SelectCapable
  <1>3. ASSUME NEW r \in Requests, FilterByHealth(r) PROVE Precedence' /\ RouteIsPermitted'
    BY <1>3 DEF FilterByHealth
  <1>4. ASSUME NEW r \in Requests, RouteWithPolicy(r) PROVE Precedence' /\ RouteIsPermitted'
    <2>1. FirstFallback(r) # None
            => FirstFallback(r) \in avail[r] /\ FirstFallback(r) \in ToSet(req[r].fallback)
      BY FallbackIsAvailable
    <2> QED
      BY <1>4, <2>1 DEF RouteWithPolicy
  <1>5. ASSUME NEW r \in Requests, RouteManual(r) PROVE Precedence' /\ RouteIsPermitted'
    BY <1>5 DEF RouteManual
  <1>6. ASSUME NEW r \in Requests, Sticky(r) PROVE Precedence' /\ RouteIsPermitted'
    BY <1>6 DEF Sticky
  <1>7. ASSUME NEW r \in Requests, Manual(r) PROVE Precedence' /\ RouteIsPermitted'
    BY <1>7 DEF Manual
  <1>8. ASSUME NEW r \in Requests, HealthBased(r) PROVE Precedence' /\ RouteIsPermitted'
    BY <1>8 DEF HealthBased
  <1>9. ASSUME NEW r \in Requests, PlainRoundRobin(r) PROVE Precedence' /\ RouteIsPermitted'
    BY <1>9 DEF PlainRoundRobin
  <1>10. ASSUME NEW r \in Requests, Pick(r) PROVE Precedence' /\ RouteIsPermitted'
    BY <1>10 DEF Pick, Weighted
  <1>11. ASSUME NEW r \in Requests, Store(r) PROVE Precedence' /\ RouteIsPermitted'
    BY <1>11 DEF Store
  <1>12. ASSUME NEW r \in Requests, CountProvider(r) PROVE Precedence' /\ RouteIsPermitted'
    BY <1>12 DEF CountProvider
  <1>13. ASSUME NEW r \in Requests, CountStrategy(r) PROVE Precedence' /\ RouteIsPermitted'
    BY <1>13 DEF CountStrategy
  <1>14. ASSUME NEW r \in Requests, CountError(r) PROVE Precedence' /\ RouteIsPermitted'
    BY <1>14 DEF CountError
  <1>15. ASSUME NEW p \in Providers, HealthChanges(p) PROVE Precedence' /\ RouteIsPermitted'
    BY <1>15 DEF HealthChanges
  <1>16. ASSUME NEW ps \in Pools, UpdateProviders(ps) PROVE Precedence' /\ RouteIsPermitted'
    BY <1>16 DEF UpdateProviders
  <1>17. ASSUME NEW k \in Keys, Forget(k) PROVE Precedence' /\ RouteIsPermitted'
    BY <1>17 DEF Forget
  <1>18. CASE UNCHANGED vars
    BY <1>18 DEF vars
  <1> QED
    BY <1>1, <1>2, <1>3, <1>4, <1>5, <1>6, <1>7, <1>8, <1>9, <1>10, <1>11, <1>12, <1>13,
       <1>14, <1>15, <1>16, <1>17, <1>18 DEF Next

(* Requests, cache, counters and pool keep their types (RouteRequest and   *)
(* UpdateProviders of router_impl.go).                                     *)
THEOREM RouterTypes == Spec => []TypeOK
  <1>1. RouteInv /\ [Next]_vars => RouteInv'
    BY StepTypes, StepRoutes DEF RouteInv
  <1>2. RouteInv => TypeOK
    BY DEF RouteInv
  <1> QED
    BY InitRoutes, <1>1, <1>2, PTL DEF Spec

(* A request goes only to a provider that supports its model, that passed  *)
(* its health filter and that the policy, if it routes, names: whatever    *)
(* other requests, health checks, UpdateProviders and the cache do while   *)
(* it is under way (RouteRequest, routeWithPolicy, tryFallbacks and the    *)
(* strategies).                                                            *)
THEOREM RoutesAreRoutedRight == Spec => []RouteIsPermitted
  <1>1. RouteInv /\ [Next]_vars => RouteInv'
    BY StepTypes, StepRoutes DEF RouteInv
  <1>2. RouteInv => RouteIsPermitted
    BY DEF RouteInv
  <1> QED
    BY InitRoutes, <1>1, <1>2, PTL DEF Spec

-----------------------------------------------------------------------------
(* Statistics *)

(* The sum that the statistics show is the one the lemmas speak of. *)
LEMMA RoutedIsSum == Routed = SumOver(perProvider, Providers)[Providers]
  BY DEF Routed, MapThenSumSet, MapThenFoldSet, SumOver, IsSum, First

(* It changes only with the counters. *)
LEMMA RoutedStays ==
    ASSUME UNCHANGED perProvider
    PROVE  Routed' = Routed
  <1>1. Routed' = SumOver(perProvider', Providers)[Providers]
    BY DEF Routed, MapThenSumSet, MapThenFoldSet, SumOver, IsSum, First
  <1> QED
    BY <1>1, RoutedIsSum

(* IncrementProvider adds one to the sum. *)
LEMMA RoutedGrows ==
    ASSUME TypeOK, TypeOK', NEW p \in Providers,
           perProvider' = [perProvider EXCEPT ![p] = @ + 1]
    PROVE  Routed' = Routed + 1
  <1>1. /\ perProvider \in [Providers -> Nat] /\ perProvider' \in [Providers -> Nat]
        /\ IsFiniteSet(Providers)
    BY RouterAssumption DEF TypeOK, RouterAssumption
  <1>2. \A x \in Providers : perProvider'[x] = perProvider[x] + (IF x = p THEN 1 ELSE 0)
    BY <1>1
  <1>3. SumOver(perProvider', Providers)[Providers] = SumOver(perProvider, Providers)[Providers] + 1
    BY <1>1, <1>2, SumGrows
  <1>4. Routed' = SumOver(perProvider', Providers)[Providers]
    BY DEF Routed, MapThenSumSet, MapThenFoldSet, SumOver, IsSum, First
  <1> QED
    BY <1>3, <1>4, RoutedIsSum

(* A step of one request moves it from one count to another. *)
LEMMA InFlightMoves ==
    ASSUME TypeOK, NEW r \in Requests, NEW state \in States, NEW T,
           pc' = [pc EXCEPT ![r] = state]
    PROVE  /\ InFlight(T) \in Nat
           /\ InFlight(T)' = InFlight(T) + (IF state \in T THEN 1 ELSE 0)
                                         - (IF pc[r] \in T THEN 1 ELSE 0)
  <1> DEFINE At == {q \in Requests : pc[q] \in T}
             Now == {q \in Requests : pc'[q] \in T}
  <1>1. IsFiniteSet(At) /\ Cardinality(At) \in Nat
    BY RouterAssumption, FS_Subset, FS_CardinalityType DEF RouterAssumption
  <1>2. InFlight(T) = Cardinality(At) /\ InFlight(T)' = Cardinality(Now)
    BY DEF InFlight
  <1>3. Now = IF state \in T THEN At \cup {r} ELSE At \ {r}
    BY DEF TypeOK
  <1>4. r \in At <=> pc[r] \in T
    OBVIOUS
  <1> HIDE DEF At, Now
  <1>5. /\ Cardinality(At \cup {r}) = IF r \in At THEN Cardinality(At) ELSE Cardinality(At) + 1
        /\ Cardinality(At \ {r}) = IF r \in At THEN Cardinality(At) - 1 ELSE Cardinality(At)
    BY <1>1, FS_AddElement, FS_RemoveElement
  <1> QED
    BY <1>1, <1>2, <1>3, <1>4, <1>5

Routing == States \ {"idle", "count"}
AtWork == InFlight(Routing)
Counting == InFlight({"count"})

Balanced == total = errors + Routed + AtWork /\ Routed = byStrategy + Counting

(* The same balance in the names used here. *)
LEMMA BalancedIsBalanced == StatsBalanced <=> Balanced
  BY DEF StatsBalanced, Balanced, AtWork, Counting, Routing

(* What a step of one request does to the two counts. *)
LEMMA CountsMove ==
    ASSUME TypeOK, NEW r \in Requests, NEW state \in States, Goto(r, state)
    PROVE  /\ AtWork \in Nat /\ Counting \in Nat
           /\ AtWork' = AtWork + (IF state \in Routing THEN 1 ELSE 0)
                               - (IF pc[r] \in Routing THEN 1 ELSE 0)
           /\ Counting' = Counting + (IF state = "count" THEN 1 ELSE 0)
                                   - (IF pc[r] = "count" THEN 1 ELSE 0)
  <1>1. pc' = [pc EXCEPT ![r] = state]
    BY DEF Goto
  <1>2. /\ InFlight(Routing) \in Nat
        /\ InFlight(Routing)' = InFlight(Routing) + (IF state \in Routing THEN 1 ELSE 0)
                                                - (IF pc[r] \in Routing THEN 1 ELSE 0)
    BY <1>1, InFlightMoves
  <1>3. /\ InFlight({"count"}) \in Nat
        /\ InFlight({"count"})' = InFlight({"count"}) + (IF state \in {"count"} THEN 1 ELSE 0)
                                                    - (IF pc[r] \in {"count"} THEN 1 ELSE 0)
    BY <1>1, InFlightMoves
  <1>4. AtWork' = InFlight(Routing)' /\ Counting' = InFlight({"count"})'
    BY DEF AtWork, Counting
  <1> QED
    BY <1>2, <1>3, <1>4 DEF AtWork, Counting

(* No request is counted before there is one. *)
LEMMA InitStats == Init => Balanced
  <1> SUFFICES ASSUME Init PROVE Balanced
    OBVIOUS
  <1>1. Routed = 0
    <2>1. perProvider \in [Providers -> Nat] /\ \A p \in Providers : perProvider[p] = 0
      BY DEF Init
    <2>2. IsFiniteSet(Providers)
      BY RouterAssumption DEF RouterAssumption
    <2> QED
      BY <2>1, <2>2, SumOfNothing, RoutedIsSum
  <1>2. AtWork = 0 /\ Counting = 0
    <2>1. {r \in Requests : pc[r] \in Routing} = {} /\ {r \in Requests : pc[r] \in {"count"}} = {}
      BY DEF Init, Routing
    <2> QED
      BY <2>1, FS_EmptySet DEF InFlight, AtWork, Counting
  <1> QED
    BY <1>1, <1>2 DEF Init, Balanced

(* A step inside RouteRequest that counts nothing. *)
LEMMA RoutingCountsNothing ==
    ASSUME TypeOK, Balanced, NEW r \in Requests, UNCHANGED stats,
           pc[r] \in Routing, NEW state \in Routing, Goto(r, state)
    PROVE  Balanced'
  <1>1. state \in States /\ state # "count" /\ pc[r] # "count"
    BY DEF Routing
  <1>2. AtWork' = AtWork /\ Counting' = Counting
    BY <1>1, CountsMove
  <1>3. Routed' = Routed
    BY RoutedStays DEF stats
  <1> QED
    BY <1>2, <1>3 DEF Balanced, stats

(* Every step keeps the balance: each return path of RouteRequest counts   *)
(* its request exactly once.                                               *)
LEMMA StepStats ==
    ASSUME RouteInv, Balanced, [Next]_vars
    PROVE  Balanced'
  <1>0. TypeOK /\ TypeOK' /\ Routed \in Nat
    <2>1. TypeOK /\ TypeOK'
      BY StepTypes DEF RouteInv
    <2>2. perProvider \in [Providers -> Nat] /\ IsFiniteSet(Providers)
      BY <2>1, RouterAssumption DEF TypeOK, RouterAssumption
    <2> QED
      BY <2>1, <2>2, SumType, RoutedIsSum
  <1>1. ASSUME NEW r \in Requests, Begin(r) PROVE Balanced'
    <2>1. PICK state \in {"select", "error"} : Goto(r, state)
      BY <1>1 DEF Begin
    <2>2. pc[r] = "idle" /\ state \in States /\ state \in Routing
      BY <1>1 DEF Begin, States, Routing
    <2>3. AtWork \in Nat /\ AtWork' = AtWork + 1 /\ Counting' = Counting
      BY <1>0, <2>1, <2>2, CountsMove DEF Routing
    <2>4. Routed' = Routed
      BY <1>1, RoutedStays DEF Begin
    <2> QED
      BY <1>0, <1>1, <2>3, <2>4 DEF Begin, Balanced, TypeOK
  <1>2. ASSUME NEW r \in Requests,
               \/ SelectCapable(r) \/ FilterByHealth(r) \/ RouteWithPolicy(r) \/ RouteManual(r)
               \/ Sticky(r) \/ Manual(r) \/ HealthBased(r) \/ PlainRoundRobin(r)
               \/ Pick(r) \/ Store(r)
        PROVE  Balanced'
    <2> USE DEF Routing, States, Goto, Choose
    <2>1. ASSUME SelectCapable(r)
          PROVE  UNCHANGED stats /\ pc[r] \in Routing /\ \E state \in Routing : Goto(r, state)
      BY <2>1 DEF SelectCapable
    <2>2. ASSUME FilterByHealth(r)
          PROVE  UNCHANGED stats /\ pc[r] \in Routing /\ \E state \in Routing : Goto(r, state)
      BY <2>2 DEF FilterByHealth
    <2>3. ASSUME RouteWithPolicy(r)
          PROVE  UNCHANGED stats /\ pc[r] \in Routing /\ \E state \in Routing : Goto(r, state)
      BY <2>3 DEF RouteWithPolicy
    <2>4. ASSUME RouteManual(r)
          PROVE  UNCHANGED stats /\ pc[r] \in Routing /\ \E state \in Routing : Goto(r, state)
      BY <2>4 DEF RouteManual
    <2>5. ASSUME Sticky(r)
          PROVE  UNCHANGED stats /\ pc[r] \in Routing /\ \E state \in Routing : Goto(r, state)
      BY <2>5 DEF Sticky
    <2>6. ASSUME Manual(r)
          PROVE  UNCHANGED stats /\ pc[r] \in Routing /\ \E state \in Routing : Goto(r, state)
      BY <2>6 DEF Manual
    <2>7. ASSUME HealthBased(r)
          PROVE  UNCHANGED stats /\ pc[r] \in Routing /\ \E state \in Routing : Goto(r, state)
      BY <2>7 DEF HealthBased
    <2>8. ASSUME PlainRoundRobin(r)
          PROVE  UNCHANGED stats /\ pc[r] \in Routing /\ \E state \in Routing : Goto(r, state)
      BY <2>8 DEF PlainRoundRobin
    <2>9. ASSUME Pick(r)
          PROVE  UNCHANGED stats /\ pc[r] \in Routing /\ \E state \in Routing : Goto(r, state)
      BY <2>9 DEF Pick
    <2>10. ASSUME Store(r)
          PROVE  UNCHANGED stats /\ pc[r] \in Routing /\ \E state \in Routing : Goto(r, state)
      BY <2>10 DEF Store
    <2>11. UNCHANGED stats /\ pc[r] \in Routing /\ \E state \in Routing : Goto(r, state)
      BY <1>2, <2>1, <2>2, <2>3, <2>4, <2>5, <2>6, <2>7, <2>8, <2>9, <2>10
    <2> QED
      BY <1>0, <2>11, RoutingCountsNothing
  <1>3. ASSUME NEW r \in Requests, CountProvider(r) PROVE Balanced'
    <2>1. chosen[r] \in Providers
      BY <1>3 DEF CountProvider, RouteInv, RouteIsPermitted, Decided, TypeOK
    <2>2. Routed' = Routed + 1
      BY <1>0, <1>3, <2>1, RoutedGrows DEF CountProvider
    <2>3. pc[r] = "provider" /\ "provider" \in Routing /\ "count" \in States /\ Goto(r, "count")
      BY <1>3 DEF CountProvider, States, Routing
    <2>4. AtWork \in Nat /\ Counting \in Nat /\ AtWork' = AtWork - 1 /\ Counting' = Counting + 1
      BY <1>0, <2>3, CountsMove DEF Routing
    <2> QED
      BY <1>0, <1>3, <2>2, <2>4 DEF CountProvider, Balanced, TypeOK
  <1>4. ASSUME NEW r \in Requests, CountStrategy(r) PROVE Balanced'
    <2>1. pc[r] = "count" /\ "idle" \in States /\ Goto(r, "idle")
      BY <1>4 DEF CountStrategy, States
    <2>2. AtWork \in Nat /\ Counting \in Nat /\ AtWork' = AtWork /\ Counting' = Counting - 1
      BY <1>0, <2>1, CountsMove DEF Routing
    <2>3. Routed' = Routed
      BY <1>4, RoutedStays DEF CountStrategy
    <2> QED
      BY <1>0, <1>4, <2>2, <2>3 DEF CountStrategy, Balanced, TypeOK
  <1>5. ASSUME NEW r \in Requests, CountError(r) PROVE Balanced'
    <2>1. pc[r] = "error" /\ "error" \in Routing /\ "idle" \in States /\ Goto(r, "idle")
      BY <1>5 DEF CountError, States, Routing
    <2>2. AtWork \in Nat /\ Counting \in Nat /\ AtWork' = AtWork - 1 /\ Counting' = Counting
      BY <1>0, <2>1, CountsMove DEF Routing
    <2>3. Routed' = Routed
      BY <1>5, RoutedStays DEF CountError
    <2> QED
      BY <1>0, <1>5, <2>2, <2>3 DEF CountError, Balanced, TypeOK
  <1>6. ASSUME UNCHANGED <<pc, stats>> PROVE Balanced'
    <2>1. Routed' = Routed
      BY <1>6, RoutedStays DEF stats
    <2>2. AtWork' = AtWork /\ Counting' = Counting
      BY <1>6 DEF AtWork, Counting, InFlight
    <2> QED
      BY <1>6, <2>1, <2>2 DEF Balanced, stats
  <1>7. ASSUME \/ \E p \in Providers : HealthChanges(p)
               \/ \E ps \in Pools : UpdateProviders(ps)
               \/ \E k \in Keys : Forget(k)
               \/ UNCHANGED vars
        PROVE  UNCHANGED <<pc, stats>>
    BY <1>7 DEF HealthChanges, UpdateProviders, Forget, vars
  <1> QED
    BY <1>1, <1>2, <1>3, <1>4, <1>5, <1>6, <1>7 DEF Next

(* Every request is counted once, as an error or for one provider and one  *)
(* strategy, although the counters are separate atomics and requests       *)
(* overlap: the numbers of the statistics differ by exactly the requests   *)
(* that are under way (the return paths of RouteRequest, stats.go).        *)
THEOREM StatisticsBalance == Spec => []StatsBalanced
  <1>1. Init => RouteInv /\ Balanced
    BY InitRoutes, InitStats
  <1>2. RouteInv /\ Balanced /\ [Next]_vars => RouteInv' /\ Balanced'
    BY StepTypes, StepRoutes, StepStats DEF RouteInv
  <1> QED
    BY <1>1, <1>2, BalancedIsBalanced, PTL DEF Spec

-----------------------------------------------------------------------------
(***************************************************************************)
(* The round-robin strategy.  The list of buildWeightedList has each       *)
(* provider as often as its share; selections in turn then are fair by     *)
(* division with remainder; and a selection out of turn, when the counter  *)
(* wraps, costs at most the square of a round.                             *)
(***************************************************************************)

(* The sum over a set may be taken apart at any of its elements. *)
LEMMA SumWithout ==
    ASSUME NEW S, IsFiniteSet(S), NEW f \in [S -> Nat], NEW s \in SUBSET S
    PROVE  SumOver(f, S)[s] \in Nat /\ \A x \in s : SumOver(f, S)[s] = f[x] + SumOver(f, S)[s \ {x}]
  <1> DEFINE g == SumOver(f, S)
             Right(t) == g[t] \in Nat /\ \A x \in t : g[t] = f[x] + g[t \ {x}]
             Wrong == {t \in SUBSET S : ~Right(t)}
  <1>1. SUFFICES ASSUME Wrong # {} PROVE FALSE
    OBVIOUS
  <1>2. PICK m \in Wrong : \A t \in Wrong : t \subseteq m => t = m
    <2>1. Wrong \in SUBSET (SUBSET S)
      OBVIOUS
    <2> HIDE DEF Wrong
    <2> QED
      BY <1>1, <2>1, Minimal
  <1> DEFINE c == First(m)
  <1>3. g[{}] = 0
    BY SumUnfolds
  <1>4. m # {}
    BY <1>3
  <1>5. c \in m /\ g[m] = f[c] + g[m \ {c}]
    BY <1>4, SumUnfolds
  <1> HIDE DEF c, g
  <1>6. \A x \in m : Right(m \ {x})
    BY <1>2
  <1>7. g[m] \in Nat
    BY <1>5, <1>6
  <1>8. ASSUME NEW x \in m PROVE g[m] = f[x] + g[m \ {x}]
    <2>1. CASE x = c
      BY <1>5, <2>1
    <2>2. CASE x # c
      <3> DEFINE rest == (m \ {c}) \ {x}
      <3>1. x \in m \ {c} /\ c \in m \ {x} /\ rest = (m \ {x}) \ {c}
        BY <1>5, <2>2
      <3>2. g[m \ {c}] = f[x] + g[rest]
        BY <1>5, <1>6, <3>1
      <3>3. g[m \ {x}] = f[c] + g[rest]
        BY <1>6, <3>1
      <3>4. g[rest] \in Nat
        BY <1>2, <1>5, <3>1
      <3>5. f[x] \in Nat /\ f[c] \in Nat
        BY <1>5
      <3> HIDE DEF rest
      <3> QED
        BY <1>5, <3>2, <3>3, <3>4, <3>5
    <2> QED
      BY <2>1, <2>2
  <1> QED
    BY <1>2, <1>7, <1>8

(* How often p is among the first n elements of a list. *)
At(list, p, n) == {j \in 1..n : list[j] = p}
Count(list, p, n) == Cardinality(At(list, p, n))

(* It is a number, grows with p and stays with every other. *)
LEMMA CountFacts ==
    ASSUME NEW list, NEW p, NEW n \in Nat
    PROVE  /\ IsFiniteSet(At(list, p, n)) /\ Count(list, p, n) \in Nat /\ Count(list, p, 0) = 0
           /\ Count(list, p, n + 1) = Count(list, p, n) + (IF list[n + 1] = p THEN 1 ELSE 0)
           /\ Count(list, p, n) <= n
  <1>1. IsFiniteSet(1..n) /\ Cardinality(1..n) = n
    BY FS_Interval
  <1>2. At(list, p, n) \in SUBSET (1..n)
    BY DEF At
  <1>3. IsFiniteSet(At(list, p, n)) /\ Count(list, p, n) \in Nat /\ Count(list, p, n) <= n
    BY <1>1, <1>2, FS_Subset, FS_CardinalityType DEF Count
  <1>4. At(list, p, 0) = {}
    BY DEF At
  <1>5. Count(list, p, 0) = 0
    BY <1>4, FS_EmptySet DEF Count
  <1>6. At(list, p, n + 1) = IF list[n + 1] = p THEN At(list, p, n) \cup {n + 1} ELSE At(list, p, n)
    BY DEF At
  <1>7. n + 1 \notin At(list, p, n)
    BY DEF At
  <1>8. Count(list, p, n + 1) = Count(list, p, n) + (IF list[n + 1] = p THEN 1 ELSE 0)
    <2>1. CASE list[n + 1] = p
      <3> DEFINE found == At(list, p, n)
      <3>1. Cardinality(found \cup {n + 1}) = Cardinality(found) + 1
        <4> HIDE DEF found
        <4> QED
          BY <1>3, <1>7, FS_AddElement DEF found
      <3> QED
        BY <1>6, <2>1, <3>1 DEF Count
    <2>2. CASE list[n + 1] # p
      BY <1>3, <1>6, <2>2 DEF Count
    <2> QED
      BY <2>1, <2>2
  <1> QED
    BY <1>3, <1>5, <1>8

(* Two lists that begin alike count alike. *)
LEMMA CountsAlike ==
    ASSUME NEW a, NEW b, NEW p, NEW n \in Nat, \A j \in 1..n : a[j] = b[j]
    PROVE  Count(a, p, n) = Count(b, p, n)
  <1>1. At(a, p, n) = At(b, p, n)
    BY DEF At
  <1> QED
    BY <1>1 DEF Count

(* The first r elements have no more of p, and no more of the others, than *)
(* all of them.                                                            *)
LEMMA CountsWithin ==
    ASSUME NEW list, NEW p, NEW n \in Nat, NEW r \in 0..n
    PROVE  Count(list, p, r) <= Count(list, p, n) /\ r - Count(list, p, r) <= n - Count(list, p, n)
  <1> DEFINE T == {k \in Nat : k >= r => /\ Count(list, p, r) <= Count(list, p, k)
                                         /\ r - Count(list, p, r) <= k - Count(list, p, k)}
  <1>1. r \in Nat /\ Count(list, p, r) \in Nat
    BY CountFacts
  <1>2. ASSUME NEW k \in T PROVE k + 1 \in T
    <2>1. k \in Nat
      OBVIOUS
    <2>2. CASE k + 1 = r
      BY <1>1, <2>2
    <2>3. CASE k + 1 # r
      <3>1. /\ Count(list, p, k) \in Nat
            /\ Count(list, p, k + 1) = Count(list, p, k) + (IF list[k + 1] = p THEN 1 ELSE 0)
        BY <2>1, CountFacts
      <3> QED
        BY <1>1, <2>1, <2>3, <3>1
    <2> QED
      BY <2>2, <2>3
  <1>3. 0 \in T
    BY <1>1, CountFacts
  <1>4. T \in SUBSET Nat
    OBVIOUS
  <1>5. T = Nat
    <2> HIDE DEF T
    <2> QED
      BY <1>2, <1>3, <1>4, NatInduct
  <1> QED
    BY <1>5

(* What one more place of a list adds to the count, on its own. *)
LEMMA CountNext ==
    ASSUME NEW list, NEW p, NEW n \in Nat
    PROVE  Count(list, p, n + 1) = Count(list, p, n) + (IF list[n + 1] = p THEN 1 ELSE 0)
  BY CountFacts

(* A list in which each provider of a set is as often as it counts. *)
Laid(list, f, s) ==
    /\ list \in Seq(Pool) /\ Len(list) = SumOver(f, Pool)[s]
    /\ \A p \in Pool : Count(list, p, Len(list)) = IF p \in s THEN f[p] ELSE 0

(* How long two lists joined are. *)
LEMMA JoinedLength ==
    ASSUME NEW S, NEW front \in Seq(S), NEW back \in Seq(S)
    PROVE  Len(front \o back) = Len(front) + Len(back)
  OBVIOUS

(* One more provider, as often as it counts, at the end of the list. *)
LEMMA LaidMore ==
    ASSUME NEW f \in [Pool -> Nat], NEW s \in SUBSET Pool, NEW x \in Pool, x \notin s, NEW list, Laid(list, f, s),
           NEW more \in Seq(Pool), Len(more) = f[x], \A j \in 1..f[x] : more[j] = x
    PROVE  Laid(list \o more, f, s \cup {x})
  <1> DEFINE longer == list \o more
             size == Len(list)
  <1>1. /\ list \in Seq(Pool) /\ size \in Nat /\ f[x] \in Nat
        /\ longer \in Seq(Pool) /\ Len(longer) = size + f[x]
        /\ \A j \in 1..size : longer[j] = list[j]
        /\ \A j \in 1..f[x] : longer[size + j] = x
    <2>1. list \in Seq(Pool) /\ size \in Nat /\ f[x] \in Nat
      BY DEF Laid
    <2>2. longer \in Seq(Pool) /\ Len(longer) = size + f[x] /\ \A j \in 1..size : longer[j] = list[j]
      <3>1. longer \in Seq(Pool)
        BY <2>1
      <3>2. Len(longer) = size + f[x]
        <4>1. Len(longer) = size + Len(more)
          BY <2>1, JoinedLength
        <4> QED
          BY <4>1
      <3>3. \A j \in 1..size : longer[j] = list[j]
        BY <2>1
      <3> QED
        BY <3>1, <3>2, <3>3
    <2>3. \A j \in 1..Len(more) : longer[size + j] = more[j]
      BY <2>1
    <2> QED
      BY <2>1, <2>2, <2>3
  <1>2. SumOver(f, Pool)[s \cup {x}] = f[x] + SumOver(f, Pool)[s] /\ SumOver(f, Pool)[s] = size
    <2>1. IsFiniteSet(Pool)
      BY RoundRobinAssumption DEF RoundRobinAssumption
    <2>2. s \cup {x} \in SUBSET Pool /\ (s \cup {x}) \ {x} = s /\ x \in s \cup {x}
      OBVIOUS
    <2> DEFINE t == s \cup {x}
    <2> HIDE DEF t
    <2>3. SumOver(f, Pool)[t] = f[x] + SumOver(f, Pool)[t \ {x}]
      BY <2>1, <2>2, SumWithout DEF t
    <2> QED
      BY <2>2, <2>3 DEF t, Laid
  <1> HIDE DEF longer, size
  <1>3. ASSUME NEW p \in Pool
        PROVE  Count(longer, p, size + f[x]) = IF p \in s \cup {x} THEN f[p] ELSE 0
    <2> DEFINE T == {k \in Nat : k <= f[x] => Count(longer, p, size + k) = Count(list, p, size) + (IF p = x THEN k ELSE 0)}
    <2>1. Count(list, p, size) = (IF p \in s THEN f[p] ELSE 0) /\ Count(list, p, size) \in Nat
      BY <1>1, CountFacts DEF Laid, size
    <2>2. 0 \in T
      <3>1. Count(longer, p, size) = Count(list, p, size) /\ size + 0 = size
        BY <1>1, CountsAlike
      <3> QED
        BY <2>1, <3>1
    <2>3. ASSUME NEW k \in T PROVE k + 1 \in T
      <3>1. SUFFICES ASSUME k + 1 <= f[x]
                     PROVE  Count(longer, p, size + (k + 1)) = Count(list, p, size) + (IF p = x THEN k + 1 ELSE 0)
        OBVIOUS
      <3>2. k \in Nat /\ size + k \in Nat /\ size + (k + 1) = (size + k) + 1 /\ k + 1 \in 1..f[x]
        <4>1. k \in Nat
          OBVIOUS
        <4> HIDE DEF T
        <4> QED
          BY <1>1, <3>1, <4>1
      <3>3. longer[(size + k) + 1] = x
        BY <1>1, <3>2
      <3>4. Count(longer, p, (size + k) + 1) = Count(longer, p, size + k) + (IF longer[(size + k) + 1] = p THEN 1 ELSE 0)
        <4> DEFINE at == size + k
        <4>1. at \in Nat
          BY <3>2
        <4> HIDE DEF at, T
        <4>2. Count(longer, p, at + 1) = Count(longer, p, at) + (IF longer[at + 1] = p THEN 1 ELSE 0)
          BY <4>1, CountNext
        <4> QED
          BY <4>2 DEF at
      <3>5. Count(longer, p, size + k) = Count(list, p, size) + (IF p = x THEN k ELSE 0)
        BY <3>1, <3>2, <1>1
      <3> QED
        BY <2>1, <3>2, <3>3, <3>4, <3>5
    <2>4. T \in SUBSET Nat
      OBVIOUS
    <2>5. f[x] \in T
      <3> HIDE DEF T
      <3> QED
        BY <1>1, <2>2, <2>3, <2>4, NatInduct
    <2> QED
      BY <1>1, <2>1, <2>5
  <1> QED
    BY <1>1, <1>2, <1>3 DEF Laid, longer

(* Lists joined one by one. *)
Joins(F, seqs, n) == F[1] = seqs[1] /\ \A i \in 2..n : F[i] = F[i - 1] \o seqs[i]

(* FlattenSeq joins them so. *)
LEMMA FlattenUnfolds ==
    ASSUME NEW seqs, NEW n \in Nat, n # 0, Len(seqs) = n
    PROVE  \E F : Joins(F, seqs, n) /\ FlattenSeq(seqs) = F[n]
  <1> DEFINE Value(F, i) == IF i = 1 THEN seqs[i] ELSE F[i - 1] \o seqs[i]
             T == {k \in Nat : \E F : F = [i \in 1..k |-> Value(F, i)]}
  <1>1. 0 \in T
    <2>1. [i \in 1..0 |-> 0] = [i \in 1..0 |-> Value([j \in 1..0 |-> 0], i)]
      OBVIOUS
    <2> QED
      BY <2>1
  <1>2. ASSUME NEW k \in T PROVE k + 1 \in T
    <2>1. PICK F : F = [i \in 1..k |-> Value(F, i)]
      OBVIOUS
    <2> DEFINE G == [i \in 1..k + 1 |-> Value(F, i)]
    <2>2. \A i \in 1..k : G[i] = F[i]
      <3>1. \A i \in 1..k : F[i] = Value(F, i)
        BY <2>1
      <3> QED
        BY <3>1
    <2>3. \A i \in 1..k + 1 : Value(G, i) = Value(F, i)
      <3> HIDE DEF G
      <3> QED
        BY <2>2
    <2>4. G = [i \in 1..k + 1 |-> Value(G, i)]
      BY <2>3
    <2>5. k + 1 \in Nat
      OBVIOUS
    <2> HIDE DEF G, Value
    <2> QED
      BY <2>4, <2>5, Zenon
  <1>3. T \in SUBSET Nat
    OBVIOUS
  <1>4. n \in T
    <2> HIDE DEF T
    <2> QED
      BY <1>1, <1>2, <1>3, NatInduct
  <1> DEFINE F == CHOOSE F : F = [i \in 1..Len(seqs) |-> Value(F, i)]
  <1>5. F = [i \in 1..n |-> Value(F, i)]
    <2> HIDE DEF Value
    <2> QED
      BY <1>4
  <1>6. FlattenSeq(seqs) = F[n]
    BY DEF FlattenSeq
  <1> HIDE DEF F
  <1>7. Joins(F, seqs, n)
    <2>1. \A i \in 1..n : F[i] = Value(F, i)
      <3> HIDE DEF Value
      <3> QED
        BY <1>5
    <2>2. 1 \in 1..n /\ \A i \in 2..n : i \in 1..n /\ i # 1
      OBVIOUS
    <2> QED
      BY <2>1, <2>2 DEF Joins
  <1> QED
    BY <1>6, <1>7

(* The order of the providers, the first i of them, and their shares. *)
Order == SetToSeq(Pool)
Firsts(i) == {Order[j] : j \in 1..i}
Shares == [p \in Pool |-> Share(p)]

(* The order has every provider once. *)
LEMMA OrderFacts ==
    /\ Len(Order) \in Nat /\ Len(Order) # 0 /\ Order \in Seq(Pool) /\ DOMAIN Order = 1..Len(Order)
    /\ \A i \in 1..Len(Order) : Order[i] \in Pool
    /\ Firsts(0) = {} /\ Firsts(Len(Order)) = Pool
    /\ \A i \in Nat : i + 1 <= Len(Order) =>
          Firsts(i) \in SUBSET Pool /\ Order[i + 1] \notin Firsts(i) /\ Firsts(i + 1) = Firsts(i) \cup {Order[i + 1]}
  <1> DEFINE n == Cardinality(Pool)
             D == 1..n
  <1>1. IsFiniteSet(Pool) /\ n \in Nat /\ n # 0 /\ ExistsBijection(D, Pool)
    BY RoundRobinAssumption, FS_CardinalityType DEF RoundRobinAssumption
  <1>2. \E f \in [D -> Pool] : IsInjective(f)
    BY <1>1 DEF ExistsBijection, Bijection, Injection, IsInjective
  <1>3. Order \in [D -> Pool] /\ IsInjective(Order)
    BY <1>2 DEF Order, SetToSeq
  <1>4. Order \in Injection(D, Pool)
    BY <1>3 DEF Injection, IsInjective
  <1>5. Order \in Surjection(D, Pool)
    <2>1. Cardinality(D) = n
      BY <1>1, FS_Interval
    <2> HIDE DEF D, n
    <2> QED
      BY <1>1, <1>4, <2>1, FS_Injection DEF n
  <1> HIDE DEF n
  <1>6. Order \in Seq(Pool) /\ Len(Order) = n /\ DOMAIN Order = 1..n
    BY <1>1, <1>3
  <1>7. Firsts(0) = {}
    BY DEF Firsts
  <1>8. Firsts(n) = Pool
    <2>1. \A p \in Pool : \E j \in 1..n : Order[j] = p
      BY <1>5 DEF Surjection
    <2> QED
      BY <1>3, <2>1 DEF Firsts
  <1>9. ASSUME NEW i \in Nat, i + 1 <= n
        PROVE  Firsts(i) \in SUBSET Pool /\ Order[i + 1] \notin Firsts(i) /\ Firsts(i + 1) = Firsts(i) \cup {Order[i + 1]}
    <2>1. \A j \in 1..i : j \in D /\ j # i + 1
      BY <1>1, <1>9
    <2>2. i + 1 \in D
      BY <1>1, <1>9
    <2>3. Firsts(i) \in SUBSET Pool
      BY <1>3, <2>1 DEF Firsts
    <2>4. Order[i + 1] \notin Firsts(i)
      BY <1>3, <2>1, <2>2 DEF Firsts, IsInjective
    <2>5. 1..i + 1 = (1..i) \cup {i + 1}
      OBVIOUS
    <2>6. Firsts(i + 1) = Firsts(i) \cup {Order[i + 1]}
      BY <2>5 DEF Firsts
    <2> QED
      BY <2>3, <2>4, <2>6
  <1> QED
    BY <1>1, <1>3, <1>6, <1>7, <1>8, <1>9

(* buildWeightedList has each provider as often as its weight. *)
LEMMA WeightsLaid ==
    ASSUME NEW parts, DOMAIN parts = DOMAIN Order, Len(parts) = Len(Order),
           \A i \in DOMAIN Order : parts[i] = [j \in 1..Weight[Order[i]] |-> Order[i]]
    PROVE  Laid(FlattenSeq(parts), Weight, Pool)
  <1> DEFINE last == Len(Order)
  <1>1. last \in Nat /\ last # 0 /\ Weight \in [Pool -> Nat]
    BY OrderFacts, RoundRobinAssumption DEF RoundRobinAssumption
  <1>2. PICK F : Joins(F, parts, last) /\ FlattenSeq(parts) = F[last]
    <2>1. Len(parts) = last
      OBVIOUS
    <2> HIDE DEF last
    <2> QED
      BY <1>1, <2>1, FlattenUnfolds
  <1>3. ASSUME NEW i \in 1..last
        PROVE  /\ Order[i] \in Pool /\ parts[i] \in Seq(Pool) /\ Len(parts[i]) = Weight[Order[i]]
               /\ \A j \in 1..Weight[Order[i]] : parts[i][j] = Order[i]
    <2> DEFINE x == Order[i]
    <2>1. x \in Pool /\ i \in DOMAIN Order
      BY OrderFacts
    <2>2. Weight[x] \in Nat /\ parts[i] = [j \in 1..Weight[x] |-> x]
      BY <1>1, <2>1
    <2> HIDE DEF x
    <2>3. parts[i] \in Seq(Pool) /\ Len(parts[i]) = Weight[x] /\ \A j \in 1..Weight[x] : parts[i][j] = x
      BY <2>1, <2>2
    <2> QED
      BY <2>1, <2>3 DEF x
  <1> DEFINE nil == <<>>
             T == {i \in Nat : i + 1 <= last => Laid(F[i + 1], Weight, Firsts(i + 1))}
  <1>4. ASSUME NEW i \in Nat, i + 1 <= last, NEW list, Laid(list, Weight, Firsts(i))
        PROVE  Laid(list \o parts[i + 1], Weight, Firsts(i + 1))
    <2> DEFINE new == Order[i + 1]
               before == Firsts(i)
               more == parts[i + 1]
    <2>1. /\ before \in SUBSET Pool /\ new \notin before /\ Firsts(i + 1) = before \cup {new} /\ i + 1 \in 1..last
      BY <1>1, <1>4, OrderFacts
    <2>2. new \in Pool /\ more \in Seq(Pool) /\ Len(more) = Weight[new] /\ \A j \in 1..Weight[new] : more[j] = new
      BY <1>3, <2>1
    <2>3. Laid(list, Weight, before)
      BY <1>4
    <2> HIDE DEF new, before, more, last
    <2>4. Laid(list \o more, Weight, before \cup {new})
      BY <1>1, <2>1, <2>2, <2>3, LaidMore
    <2> QED
      BY <2>1, <2>4 DEF more
  <1>5. Laid(nil, Weight, Firsts(0))
    <2>1. nil \in Seq(Pool) /\ Len(nil) = 0
      OBVIOUS
    <2> HIDE DEF nil
    <2>2. \A p \in Pool : Count(nil, p, 0) = 0
      BY CountFacts
    <2>3. SumOver(Weight, Pool)[{}] = 0
      BY SumUnfolds, RoundRobinAssumption DEF RoundRobinAssumption
    <2> QED
      BY <2>1, <2>2, <2>3, OrderFacts DEF Laid
  <1>6. 0 \in T
    <2>1. nil \o parts[1] = parts[1]
      BY <1>1, <1>3
    <2>2. 0 + 1 = 1 /\ 0 + 1 <= last
      BY <1>1
    <2> HIDE DEF last, nil
    <2>3. Laid(nil \o parts[0 + 1], Weight, Firsts(0 + 1))
      BY <1>4, <1>5, <2>2
    <2> QED
      BY <1>2, <2>1, <2>2, <2>3 DEF Joins
  <1>7. ASSUME NEW i \in T PROVE i + 1 \in T
    <2>1. SUFFICES ASSUME (i + 1) + 1 <= last PROVE Laid(F[(i + 1) + 1], Weight, Firsts((i + 1) + 1))
      OBVIOUS
    <2>2. i \in Nat /\ i + 1 <= last /\ (i + 1) + 1 \in 2..last /\ ((i + 1) + 1) - 1 = i + 1
      BY <1>1, <2>1
    <2> DEFINE k == i + 1
    <2>3. Laid(F[k], Weight, Firsts(k)) /\ k \in Nat /\ k + 1 <= last /\ F[k + 1] = F[k] \o parts[k + 1]
      <3>1. Laid(F[k], Weight, Firsts(k))
        BY <2>2
      <3>2. k \in Nat /\ k + 1 <= last /\ k + 1 \in 2..last /\ (k + 1) - 1 = k
        BY <2>1, <2>2
      <3> HIDE DEF k, T, last
      <3> QED
        BY <1>2, <3>1, <3>2 DEF Joins
    <2> HIDE DEF k, last
    <2>4. Laid(F[k] \o parts[k + 1], Weight, Firsts(k + 1))
      BY <1>4, <2>3
    <2> QED
      BY <2>3, <2>4 DEF k
  <1>8. T \in SUBSET Nat
    OBVIOUS
  <1>9. last - 1 \in T /\ (last - 1) + 1 = last
    <2>1. last - 1 \in Nat /\ (last - 1) + 1 = last
      BY <1>1
    <2> HIDE DEF T, last
    <2> QED
      BY <1>6, <1>7, <1>8, <2>1, NatInduct
  <1>10. Laid(F[last], Weight, Firsts(last))
    <2> HIDE DEF last
    <2> QED
      BY <1>1, <1>9
  <1> QED
    BY <1>2, <1>10, OrderFacts

(* The plain order has each provider once. *)
LEMMA OrderLaid ==
    ASSUME NEW ones \in [Pool -> Nat], \A p \in Pool : ones[p] = 1
    PROVE  Laid(Order, ones, Pool)
  <1> DEFINE last == Len(Order)
             Upto(i) == [j \in 1..i |-> Order[j]]
             T == {i \in Nat : i <= last => Laid(Upto(i), ones, Firsts(i))}
  <1>1. last \in Nat
    BY OrderFacts
  <1>2. 0 \in T
    <2> DEFINE none == Upto(0)
    <2>1. none \in Seq(Pool) /\ Len(none) = 0
      OBVIOUS
    <2> HIDE DEF none
    <2>2. \A p \in Pool : Count(none, p, 0) = 0
      BY CountFacts
    <2>3. SumOver(ones, Pool)[{}] = 0
      BY SumUnfolds, RoundRobinAssumption DEF RoundRobinAssumption
    <2>4. Laid(none, ones, Firsts(0))
      BY <2>1, <2>2, <2>3, OrderFacts DEF Laid
    <2> HIDE DEF Upto
    <2> QED
      BY <2>4 DEF none
  <1>3. ASSUME NEW i \in T PROVE i + 1 \in T
    <2>1. SUFFICES ASSUME i + 1 <= last PROVE Laid(Upto(i + 1), ones, Firsts(i + 1))
      OBVIOUS
    <2> DEFINE new == Order[i + 1]
               before == Firsts(i)
               list == Upto(i)
               more == <<new>>
    <2>2. i \in Nat
      OBVIOUS
    <2>3. Laid(list, ones, before)
      BY <1>1, <2>1, <2>2
    <2>4. before \in SUBSET Pool /\ new \notin before /\ Firsts(i + 1) = before \cup {new} /\ new \in Pool
      BY <1>1, <2>1, <2>2, OrderFacts
    <2>5. \A j \in 1..i + 1 : Order[j] \in Pool
      BY <1>1, <2>1, <2>2, OrderFacts
    <2>6. Upto(i + 1) = list \o more
      <3>1. Upto(i + 1) \in Seq(Pool) /\ Len(Upto(i + 1)) = i + 1
        BY <2>2, <2>5
      <3>2. list \in Seq(Pool) /\ Len(list) = i
        BY <2>2, <2>5
      <3>3. \A j \in 1..i + 1 : Upto(i + 1)[j] = IF j <= i THEN list[j] ELSE new
        BY <2>2
      <3> DEFINE longer == list \o more
      <3> HIDE DEF list, Upto, T, before, last
      <3>4. new \in Pool
        BY <2>4
      <3> HIDE DEF new
      <3>5. longer \in Seq(Pool) /\ Len(longer) = i + 1
        BY <2>2, <3>2, <3>4
      <3>6. \A j \in 1..i + 1 : longer[j] = IF j <= i THEN list[j] ELSE new
        BY <2>2, <3>2, <3>4
      <3> HIDE DEF longer
      <3>7. Upto(i + 1) = longer
        BY <2>2, <3>1, <3>3, <3>5, <3>6
      <3> QED
        BY <3>7 DEF longer
    <2>7. more \in Seq(Pool) /\ Len(more) = ones[new] /\ \A j \in 1..ones[new] : more[j] = new
      <3>1. new \in Pool /\ ones[new] = 1
        BY <2>4
      <3> HIDE DEF new
      <3> QED
        BY <3>1
    <2> HIDE DEF new, before, list, more, Upto, T
    <2>8. Laid(list \o more, ones, before \cup {new})
      BY <2>3, <2>4, <2>7, LaidMore
    <2> QED
      BY <2>4, <2>6, <2>8
  <1>4. T \in SUBSET Nat
    OBVIOUS
  <1>5. last \in T
    <2> HIDE DEF T, last
    <2> QED
      BY <1>1, <1>2, <1>3, <1>4, NatInduct
  <1>6. Upto(last) = Order
    BY OrderFacts
  <1>7. Laid(Upto(last), ones, Firsts(last))
    <2> HIDE DEF Upto, last
    <2> QED
      BY <1>1, <1>5
  <1> QED
    BY <1>6, <1>7, OrderFacts

(* The list the selections walk along. *)
List == WeightedList(SetToSeq(Pool))

(* It has each provider as often as its share, whether there are weights   *)
(* or not, and is not empty.                                               *)
LEMMA ListLaid ==
    /\ Shares \in [Pool -> Nat] /\ \A p \in Pool : Shares[p] = Share(p)
    /\ Laid(List, Shares, Pool)
    /\ Len(List) \in Nat /\ Len(List) > 0
  <1> DEFINE parts == [i \in DOMAIN Order |-> [j \in 1..Weight[Order[i]] |-> Order[i]]]
             flat == FlattenSeq(parts)
  <1>1. Weight \in [Pool -> Nat] /\ IsFiniteSet(Pool) /\ Pool # {}
    <2>1. Cardinality(Pool) # 0
      BY RoundRobinAssumption, FS_CardinalityType DEF RoundRobinAssumption
    <2> QED
      BY <2>1, FS_EmptySet, RoundRobinAssumption DEF RoundRobinAssumption
  <1>2. Shares \in [Pool -> Nat] /\ \A p \in Pool : Shares[p] = Share(p)
    BY <1>1 DEF Shares, Share
  <1>3. List = IF flat = <<>> THEN Order ELSE flat
    BY DEF List, WeightedList, Order
  <1>4. DOMAIN parts = DOMAIN Order /\ Len(parts) = Len(Order)
        /\ \A i \in DOMAIN Order : parts[i] = [j \in 1..Weight[Order[i]] |-> Order[i]]
    <2>1. DOMAIN parts = 1..Len(Order) /\ Len(Order) \in Nat
      BY OrderFacts
    <2>2. \A i \in DOMAIN Order : parts[i] = [j \in 1..Weight[Order[i]] |-> Order[i]]
      OBVIOUS
    <2>3. Len(parts) = Len(Order)
      <3>1. parts = [i \in 1..Len(Order) |-> parts[i]]
        BY <2>1
      <3> HIDE DEF parts
      <3> QED
        BY <2>1, <3>1
    <2> QED
      BY <2>2, <2>3
  <1> HIDE DEF parts
  <1>5. Laid(flat, Weight, Pool)
    BY <1>4, WeightsLaid
  <1> HIDE DEF flat
  <1>6. flat \in Seq(Pool) /\ Len(flat) \in Nat /\ Len(flat) = SumOver(Weight, Pool)[Pool]
    BY <1>5 DEF Laid
  <1>7. CASE AllZero
    <2>1. \A p \in Pool : Weight[p] = 0
      BY <1>7 DEF AllZero
    <2>2. Len(flat) = 0
      BY <1>1, <1>6, <2>1, SumOfNothing
    <2>3. flat = <<>>
      BY <1>6, <2>2
    <2>4. \A p \in Pool : Shares[p] = 1
      BY <1>2, <1>7 DEF Share
    <2>5. Laid(Order, Shares, Pool)
      BY <1>2, <2>4, OrderLaid
    <2> QED
      BY <1>2, <1>3, <2>3, <2>5, OrderFacts
  <1>8. CASE ~AllZero
    <2>1. PICK p \in Pool : Weight[p] > 0
      BY <1>1, <1>8 DEF AllZero
    <2>2. Count(flat, p, Len(flat)) = Weight[p] /\ Count(flat, p, Len(flat)) <= Len(flat)
      BY <1>5, <1>6, CountFacts DEF Laid
    <2>3. Len(flat) > 0 /\ flat # <<>>
      BY <1>1, <1>6, <2>1, <2>2
    <2>4. Shares = Weight
      BY <1>1, <1>8 DEF Shares, Share
    <2> QED
      BY <1>2, <1>3, <1>5, <1>6, <2>3, <2>4
  <1> QED
    BY <1>7, <1>8

(* The length of a round is a sum. *)
LEMMA RoundIsSum == Round = SumOver(Shares, Pool)[Pool]
  <1>1. Round = FoldFunction(LAMBDA a, b : a + b, 0, Shares)
    BY DEF Round, Shares
  <1>2. DOMAIN Shares = Pool
    BY DEF Shares
  <1> QED
    BY <1>1, <1>2 DEF FoldFunction, FoldFunctionOnSet, MapThenFoldSet, SumOver, IsSum, First

(* And the number of selections. *)
LEMMA TotalIsSum ==
    ASSUME picks \in [Pool -> Nat]
    PROVE  Total = SumOver(picks, Pool)[Pool]
  <1>1. DOMAIN picks = Pool
    OBVIOUS
  <1> QED
    BY <1>1 DEF Total, FoldFunction, FoldFunctionOnSet, MapThenFoldSet, SumOver, IsSum, First

(* Products of natural numbers. *)
LEMMA Products ==
    ASSUME NEW a \in Nat, NEW b \in Nat
    PROVE  a * b \in Nat
  OBVIOUS

(* Division with remainder is unique. *)
LEMMA DivisionUnique ==
    ASSUME NEW r \in Nat, r > 0, NEW q1 \in Int, NEW q2 \in Int, NEW r1 \in 0..r - 1, NEW r2 \in 0..r - 1,
           q1 * r + r1 = q2 * r + r2
    PROVE  q1 = q2 /\ r1 = r2
  <1>1. ~(q1 < q2)
    <2> SUFFICES ASSUME q1 < q2 PROVE FALSE
      OBVIOUS
    <2> DEFINE a == q2 - q1 - 1
    <2>1. a \in Nat /\ q2 = q1 + a + 1
      OBVIOUS
    <2>2. a * r \in Nat
      BY <2>1, Products
    <2> HIDE DEF a
    <2>3. q2 * r = q1 * r + a * r + r
      BY <2>1
    <2> QED
      BY <2>2, <2>3
  <1>2. ~(q2 < q1)
    <2> SUFFICES ASSUME q2 < q1 PROVE FALSE
      OBVIOUS
    <2> DEFINE a == q1 - q2 - 1
    <2>1. a \in Nat /\ q1 = q2 + a + 1
      OBVIOUS
    <2>2. a * r \in Nat
      BY <2>1, Products
    <2> HIDE DEF a
    <2>3. q1 * r = q2 * r + a * r + r
      BY <2>1
    <2> QED
      BY <2>2, <2>3
  <1>3. q1 = q2
    BY <1>1, <1>2
  <1> QED
    BY <1>3

(* What division and remainder are. *)
LEMMA Division ==
    ASSUME NEW m \in Nat, NEW r \in Nat, r > 0
    PROVE  m \div r \in Nat /\ m % r \in 0..r - 1 /\ m = (m \div r) * r + (m % r)
  <1>1. m \div r \in Int /\ m % r \in 0..r - 1 /\ m = (m \div r) * r + (m % r)
    BY Z3
  <1> DEFINE q == m \div r
  <1>2. ~(q < 0)
    <2> SUFFICES ASSUME q < 0 PROVE FALSE
      OBVIOUS
    <2> DEFINE a == 0 - q - 1
    <2>1. a \in Nat /\ q = 0 - a - 1
      BY <1>1
    <2>2. a * r \in Nat
      BY <2>1, Products
    <2>3. m = q * r + (m % r)
      BY <1>1
    <2> HIDE DEF a, q
    <2>4. q * r = 0 - a * r - r
      BY <2>1
    <2> QED
      BY <1>1, <2>2, <2>3, <2>4
  <1> QED
    BY <1>1, <1>2

(* How they change with the next number. *)
LEMMA DivisionNext ==
    ASSUME NEW m \in Nat, NEW r \in Nat, r > 0
    PROVE  IF (m % r) + 1 = r THEN (m + 1) \div r = m \div r + 1 /\ (m + 1) % r = 0
                            ELSE (m + 1) \div r = m \div r /\ (m + 1) % r = (m % r) + 1
  <1> DEFINE q == m \div r
             l == m % r
             q2 == (m + 1) \div r
             l2 == (m + 1) % r
  <1>1. q \in Nat /\ l \in 0..r - 1 /\ m = q * r + l
    BY Division
  <1>2. q2 \in Nat /\ l2 \in 0..r - 1 /\ m + 1 = q2 * r + l2
    <2> DEFINE k == m + 1
    <2>1. k \in Nat
      OBVIOUS
    <2> HIDE DEF k
    <2>2. k \div r \in Nat /\ k % r \in 0..r - 1 /\ k = (k \div r) * r + (k % r)
      BY <2>1, Division
    <2> QED
      BY <2>2 DEF k
  <1> HIDE DEF q, l, q2, l2
  <1>3. CASE l + 1 = r
    <2> DEFINE up == q + 1
    <2>1. up * r + 0 = q2 * r + l2 /\ up \in Int /\ 0 \in 0..r - 1
      BY <1>1, <1>2, <1>3
    <2> HIDE DEF up
    <2>2. q2 = up /\ l2 = 0
      BY <1>2, <2>1, DivisionUnique
    <2> QED
      BY <1>3, <2>2 DEF up, q, l, q2, l2
  <1>4. CASE l + 1 # r
    <2> DEFINE up == l + 1
    <2>1. q * r + up = q2 * r + l2 /\ up \in 0..r - 1
      BY <1>1, <1>2, <1>4
    <2> HIDE DEF up
    <2>2. q2 = q /\ l2 = up
      BY <1>1, <1>2, <2>1, DivisionUnique
    <2> QED
      BY <1>4, <2>2 DEF up, q, l, q2, l2
  <1> QED
    BY <1>3, <1>4

(* How far got of all selections are from a share s in a round of r. *)
Away(got, all, r, s) == got * r - all * s
Within(x, bound) == 0 - bound <= x /\ x <= bound

(* The first m selections along a list: whole rounds, and a part in which  *)
(* neither the provider nor the others have more than their share.         *)
LEMMA RoundsAreFair ==
    ASSUME NEW r \in Nat, NEW s \in Nat, s <= r, NEW q \in Nat, NEW l \in Nat, NEW e \in Nat,
           e <= s, e <= l, l - e <= r - s
    PROVE  Within(Away(q * s + e, q * r + l, r, s), s * (r - s))
  <1> DEFINE o == l - e
             t == r - s
             f == s - e
             g == t - o
  <1>1. o \in Nat /\ t \in Nat /\ f \in Nat /\ g \in Nat /\ l = e + o /\ r = s + t /\ s = e + f /\ t = o + g
    OBVIOUS
  <1> HIDE DEF o, t, f, g
  <1>2. f * t \in Nat /\ o * s \in Nat /\ g * s \in Nat /\ e * t \in Nat
    BY <1>1, Products
  <1>3. r - s = t
    BY <1>1
  <1>4. Away(q * s + e, q * r + l, r, s) = e * t - o * s
    <2>1. Away(q * s + e, q * r + l, r, s) = (q * s + e) * (s + t) - (q * (s + t) + (e + o)) * s
      BY <1>1 DEF Away
    <2> QED
      BY <1>1, <2>1
  <1>5. s * t = e * t + f * t /\ s * t = o * s + g * s
    <2>1. s * t = e * t + f * t
      BY <1>1
    <2>2. s * t = s * (o + g)
      BY <1>1
    <2> QED
      BY <1>1, <2>1, <2>2
  <1> QED
    BY <1>2, <1>3, <1>4, <1>5 DEF Within

(* A selection out of turn, after which a new round may begin. *)
LEMMA OutOfTurn ==
    ASSUME NEW r \in Nat, NEW s \in Nat, s <= r, r > 0, NEW w \in Nat, NEW d \in {0, 1},
           NEW x \in Int, NEW y \in Int, Within(Away(x, y, r, s), w * (r * r)),
           NEW h \in Int, NEW m \in Int, Within(Away(h, m, r, s), s * (r - s))
    PROVE  Within(Away(x + h + d, y + m + 1, r, s), (w + 1) * (r * r))
  <1> DEFINE t == r - s
             A == Away(x, y, r, s)
             B == Away(h, m, r, s)
             W == w * (r * r)
  <1>1. t \in Nat /\ r = s + t
    OBVIOUS
  <1>2. A \in Int /\ B \in Int /\ W \in Int
    BY DEF Away
  <1>3. Away(x + h + d, y + m + 1, r, s) = A + B + (d * r - s)
    BY DEF Away
  <1>4. (w + 1) * (r * r) = W + r * r
    OBVIOUS
  <1>5. s * t + t <= r * r /\ s * t + s <= r * r
    <2>1. r * r = s * t + s * s + t * t + s * t
      <3> HIDE DEF t
      <3>1. r * r = (s + t) * (s + t)
        BY <1>1
      <3> QED
        BY <1>1, <3>1
    <2>2. \A a \in Nat : a <= a * a
      <3> SUFFICES ASSUME NEW a \in Nat, a # 0 PROVE a <= a * a
        OBVIOUS
      <3> DEFINE b == a - 1
      <3>1. b \in Nat /\ a = b + 1
        OBVIOUS
      <3> HIDE DEF b
      <3>2. b * a \in Nat
        BY <3>1, Products
      <3>3. a * a = b * a + a
        BY <3>1
      <3> QED
        BY <3>2, <3>3
    <2>3. s <= s * s /\ t <= t * t
      BY <1>1, <2>2
    <2>4. s * t \in Nat /\ s * s \in Nat /\ t * t \in Nat
      BY <1>1, Products
    <2> HIDE DEF t
    <2> QED
      BY <1>1, <2>1, <2>3, <2>4
  <1>6. Within(A, W) /\ Within(B, s * t)
    OBVIOUS
  <1>7. s * t \in Int /\ r * r \in Int /\ d * r - s = IF d = 1 THEN t ELSE 0 - s
    BY <1>1
  <1> DEFINE st == s * t
             rr == r * r
             dr == d * r - s
  <1> HIDE DEF A, B, W, t, st, rr, dr
  <1>8. Within(A + B + dr, W + rr)
    BY <1>1, <1>2, <1>5, <1>6, <1>7 DEF Within, st, rr, dr
  <1> QED
    BY <1>3, <1>4, <1>8 DEF A, B, W, rr, dr

(* How often a provider is selected when the counter runs from 0 to m.     *)
Hits(p, m) == (m \div Len(List)) * Shares[p] + Count(List, p, m % Len(List))

(* What the list and the shares are, for one provider. *)
LEMMA ListFacts ==
    ASSUME NEW p \in Pool
    PROVE  /\ Len(List) \in Nat /\ Len(List) > 0 /\ Len(List) = Round
           /\ Shares[p] \in Nat /\ Shares[p] = Share(p) /\ Shares[p] <= Len(List)
           /\ Count(List, p, Len(List)) = Shares[p]
  <1>1. Len(List) \in Nat /\ Len(List) > 0 /\ Shares[p] \in Nat /\ Shares[p] = Share(p)
    BY ListLaid
  <1>2. Len(List) = Round /\ Count(List, p, Len(List)) = Shares[p]
    BY ListLaid, RoundIsSum DEF Laid
  <1>3. Count(List, p, Len(List)) <= Len(List)
    BY <1>1, CountFacts
  <1> QED
    BY <1>1, <1>2, <1>3

(* The next selection is a hit when the list has the provider there. *)
LEMMA HitsNext ==
    ASSUME NEW p \in Pool, NEW m \in Nat
    PROVE  /\ Hits(p, m) \in Nat /\ Hits(p, 0) = 0
           /\ Hits(p, m + 1) = Hits(p, m) + (IF List[1 + (m % Len(List))] = p THEN 1 ELSE 0)
  <1> DEFINE size == Len(List)
             s == Shares[p]
             whole == m \div size
             part == m % size
  <1>1. size \in Nat /\ size > 0 /\ s \in Nat /\ Count(List, p, size) = s
    BY ListFacts
  <1>2. whole \in Nat /\ part \in 0..size - 1
    <2> HIDE DEF size
    <2> QED
      BY <1>1, Division
  <1>3. IF part + 1 = size THEN (m + 1) \div size = whole + 1 /\ (m + 1) % size = 0
                           ELSE (m + 1) \div size = whole /\ (m + 1) % size = part + 1
    <2> HIDE DEF size
    <2> QED
      BY <1>1, DivisionNext
  <1>4. 0 \div size = 0 /\ 0 % size = 0
    <2>1. 0 \div size \in Nat /\ 0 % size \in 0..size - 1 /\ 0 = (0 \div size) * size + (0 % size)
      <3> HIDE DEF size
      <3> QED
        BY <1>1, Division
    <2>2. 0 \div size = 0 /\ 0 % size = 0
      <3> DEFINE q == 0 \div size
                 l == 0 % size
      <3>1. q \in Int /\ l \in 0..size - 1 /\ 0 * size + 0 = q * size + l /\ 0 \in 0..size - 1
        BY <1>1, <2>1
      <3> HIDE DEF q, l, size
      <3>2. 0 = q /\ 0 = l
        BY <1>1, <3>1, DivisionUnique
      <3> QED
        BY <3>2 DEF q, l
    <2> QED
      BY <2>2
  <1>5. /\ Count(List, p, part) \in Nat /\ Count(List, p, 0) = 0
        /\ Count(List, p, part + 1) = Count(List, p, part) + (IF List[part + 1] = p THEN 1 ELSE 0)
    <2> HIDE DEF part
    <2> QED
      BY <1>2, CountFacts
  <1>6. Hits(p, m) = whole * s + Count(List, p, part) /\ Hits(p, 0) = 0 * s + 0
    BY <1>4, <1>5 DEF Hits
  <1>7. whole * s \in Nat
    <2> HIDE DEF whole, s
    <2> QED
      BY <1>1, <1>2, Products
  <1>8. Hits(p, m + 1) = Hits(p, m) + (IF List[1 + part] = p THEN 1 ELSE 0)
    <2>1. 1 + part = part + 1
      BY <1>2
    <2>2. CASE part + 1 = size
      <3>1. Hits(p, m + 1) = (whole + 1) * s + 0
        BY <1>3, <1>5, <2>2 DEF Hits
      <3>2. (whole + 1) * s = whole * s + s
        <4> HIDE DEF whole, s
        <4> QED
          BY <1>1, <1>2
      <3>3. Count(List, p, part + 1) = s
        BY <1>1, <2>2
      <3> HIDE DEF whole, s, part, size
      <3> QED
        BY <1>1, <1>5, <1>6, <1>7, <2>1, <3>1, <3>2, <3>3
    <2>3. CASE part + 1 # size
      <3>1. Hits(p, m + 1) = whole * s + Count(List, p, part + 1)
        BY <1>3, <2>3 DEF Hits
      <3> HIDE DEF whole, s, part, size
      <3> QED
        BY <1>5, <1>6, <1>7, <2>1, <3>1
    <2> QED
      BY <2>2, <2>3
  <1>9. Hits(p, m) \in Nat
    <2> HIDE DEF whole, s, part
    <2> QED
      BY <1>5, <1>6, <1>7
  <1>10. Hits(p, 0) = 0
    <2> HIDE DEF s
    <2> QED
      BY <1>1, <1>6
  <1> QED
    BY <1>8, <1>9, <1>10

(* Selections in turn are fair. *)
LEMMA HitsAreFair ==
    ASSUME NEW p \in Pool, NEW m \in Nat
    PROVE  Within(Away(Hits(p, m), m, Len(List), Shares[p]), Shares[p] * (Len(List) - Shares[p]))
  <1> DEFINE size == Len(List)
             s == Shares[p]
             q == m \div size
             l == m % size
             e == Count(List, p, l)
  <1>1. size \in Nat /\ size > 0 /\ s \in Nat /\ s <= size /\ Count(List, p, size) = s
    BY ListFacts
  <1>2. q \in Nat /\ l \in 0..size - 1 /\ m = q * size + l
    <2> HIDE DEF size
    <2> QED
      BY <1>1, Division
  <1> HIDE DEF size, l
  <1>3. e \in Nat /\ e <= l
    BY <1>2, CountFacts
  <1>4. e <= s /\ l - e <= size - s
    <2>1. l \in 0..size
      BY <1>1, <1>2
    <2> QED
      BY <1>1, <2>1, CountsWithin
  <1> HIDE DEF s, q, e
  <1>5. Within(Away(q * s + e, q * size + l, size, s), s * (size - s))
    <2>1. l \in Nat
      BY <1>1, <1>2
    <2> QED
      BY <1>1, <1>2, <1>3, <1>4, <2>1, RoundsAreFair
  <1>6. Hits(p, m) = q * s + e
    BY DEF Hits, q, s, e, l, size
  <1> QED
    BY <1>2, <1>5, <1>6 DEF size, s

(* The selections made in turn since the counter was last reset. *)
InTurn == IF counter < MaxCount THEN counter ELSE MaxCount

(* What was selected before them is away from the shares by at most a      *)
(* square of the round for each selection out of turn.                     *)
SpreadInv ==
    /\ counter \in Nat /\ wrapped \in Nat /\ picks \in [Pool -> Nat]
    /\ \A p \in Pool :
          Within(Away(picks[p] - Hits(p, InTurn), Total - InTurn, Len(List), Shares[p]),
                 wrapped * (Len(List) * Len(List)))

(* A selection adds one to one provider, and one to the sum. *)
LEMMA SelectionCounts ==
    ASSUME picks \in [Pool -> Nat], NEW k \in Nat, SelectAt(k)
    PROVE  /\ picks' \in [Pool -> Nat] /\ Total \in Nat /\ Total' = Total + 1
           /\ \A p \in Pool : picks'[p] = picks[p] + (IF List[1 + (k % Len(List))] = p THEN 1 ELSE 0)
  <1> DEFINE size == Len(List)
             c == List[1 + (k % size)]
  <1>1. IsFiniteSet(Pool) /\ List \in Seq(Pool) /\ size \in Nat /\ size > 0
    BY ListLaid, RoundRobinAssumption DEF Laid, RoundRobinAssumption
  <1>2. k % size \in 0..size - 1
    <2> HIDE DEF size
    <2> QED
      BY <1>1, Division
  <1>3. c \in Pool
    <2>1. 1 + (k % size) \in 1..size
      BY <1>1, <1>2
    <2> QED
      BY <1>1, <2>1
  <1>4. picks' = [picks EXCEPT ![c] = @ + 1]
    BY DEF SelectAt, List
  <1> HIDE DEF c
  <1>5. picks' \in [Pool -> Nat] /\ \A p \in Pool : picks'[p] = picks[p] + (IF p = c THEN 1 ELSE 0)
    BY <1>3, <1>4
  <1>6. SumOver(picks', Pool)[Pool] = SumOver(picks, Pool)[Pool] + 1 /\ SumOver(picks, Pool)[Pool] \in Nat
    BY <1>1, <1>3, <1>5, SumGrows, SumType
  <1>7. Total' = SumOver(picks', Pool)[Pool]
    <2>1. DOMAIN picks' = Pool
      BY <1>5
    <2> QED
      BY <2>1 DEF Total, FoldFunction, FoldFunctionOnSet, MapThenFoldSet, SumOver, IsSum, First
  <1> QED
    BY <1>5, <1>6, <1>7, TotalIsSum DEF c

(* The sum changes only with the counts. *)
LEMMA TotalStays ==
    ASSUME picks \in [Pool -> Nat], UNCHANGED picks
    PROVE  Total' = Total
  <1>1. DOMAIN picks' = Pool
    OBVIOUS
  <1>2. Total' = SumOver(picks', Pool)[Pool]
    BY <1>1 DEF Total, FoldFunction, FoldFunctionOnSet, MapThenFoldSet, SumOver, IsSum, First
  <1> QED
    BY <1>2, TotalIsSum

(* It holds before the first selection. *)
LEMMA SpreadStarts == RoundRobinInit => SpreadInv
  <1> SUFFICES ASSUME RoundRobinInit PROVE SpreadInv
    OBVIOUS
  <1>1. counter = 0 /\ wrapped = 0 /\ picks \in [Pool -> Nat] /\ \A p \in Pool : picks[p] = 0
    BY DEF RoundRobinInit
  <1>2. InTurn = 0
    BY <1>1, RoundRobinAssumption DEF InTurn, RoundRobinAssumption
  <1>3. Total = 0
    BY <1>1, TotalIsSum, SumOfNothing, RoundRobinAssumption DEF RoundRobinAssumption
  <1>4. ASSUME NEW p \in Pool
        PROVE  Within(Away(picks[p] - Hits(p, InTurn), Total - InTurn, Len(List), Shares[p]),
                      wrapped * (Len(List) * Len(List)))
    <2>1. Hits(p, 0) = 0 /\ Len(List) \in Nat /\ Shares[p] \in Nat
      BY HitsNext, ListFacts
    <2> DEFINE size == Len(List)
               s == Shares[p]
    <2>2. picks[p] - Hits(p, InTurn) = 0 /\ Total - InTurn = 0
      BY <1>1, <1>2, <1>3, <2>1
    <2> HIDE DEF size, s
    <2>3. Within(Away(0, 0, size, s), 0 * (size * size))
      BY <2>1 DEF Within, Away, size, s
    <2> QED
      BY <1>1, <2>2, <2>3 DEF size, s
  <1> QED
    BY <1>1, <1>4 DEF SpreadInv

(* A selection in turn: it is a hit on both sides. *)
LEMMA AddKeepsSpread ==
    ASSUME SpreadInv, NEW c \in Callers, CounterAdd(c)
    PROVE  SpreadInv'
  <1>1. counter \in Nat /\ wrapped \in Nat /\ picks \in [Pool -> Nat] /\ counter' = counter + 1 /\ wrapped' = wrapped
    BY DEF SpreadInv, CounterAdd
  <1>2. MaxCount \in Nat
    BY RoundRobinAssumption DEF RoundRobinAssumption
  <1>3. CASE counter >= MaxCount
    <2>1. picks' = picks
      BY <1>3 DEF CounterAdd
    <2>2. InTurn' = InTurn
      BY <1>1, <1>2, <1>3 DEF InTurn
    <2>3. Total' = Total
      BY <1>1, <2>1, TotalStays
    <2>4. \A p \in Pool : Hits(p, InTurn)' = Hits(p, InTurn')
      BY DEF Hits
    <2>5. ASSUME NEW p \in Pool
          PROVE  Within(Away(picks'[p] - Hits(p, InTurn'), Total' - InTurn', Len(List), Shares[p]),
                        wrapped' * (Len(List) * Len(List)))
      BY <1>1, <2>1, <2>2, <2>3 DEF SpreadInv
    <2> QED
      BY <1>1, <2>1, <2>4, <2>5 DEF SpreadInv
  <1>4. CASE ~(counter >= MaxCount)
    <2>1. SelectAt(counter)
      BY <1>4 DEF CounterAdd
    <2>2. InTurn = counter /\ InTurn' = counter + 1
      BY <1>1, <1>2, <1>4 DEF InTurn
    <2>3. /\ picks' \in [Pool -> Nat] /\ Total \in Nat /\ Total' = Total + 1
          /\ \A p \in Pool : picks'[p] = picks[p] + (IF List[1 + (counter % Len(List))] = p THEN 1 ELSE 0)
      BY <1>1, <2>1, SelectionCounts
    <2>4. ASSUME NEW p \in Pool
          PROVE  picks'[p] - Hits(p, InTurn') = picks[p] - Hits(p, InTurn) /\ Total' - InTurn' = Total - InTurn
      <3>1. /\ Hits(p, counter) \in Nat
            /\ Hits(p, counter + 1) = Hits(p, counter) + (IF List[1 + (counter % Len(List))] = p THEN 1 ELSE 0)
        BY <1>1, HitsNext
      <3>2. picks[p] \in Nat
        BY <1>1
      <3>3. Total' - InTurn' = Total - InTurn
        BY <1>1, <2>2, <2>3
      <3> DEFINE d == IF List[1 + (counter % Len(List))] = p THEN 1 ELSE 0
      <3>4. d \in Nat /\ picks'[p] = picks[p] + d /\ Hits(p, counter + 1) = Hits(p, counter) + d
        BY <2>3, <3>1
      <3> HIDE DEF d
      <3>5. picks'[p] - Hits(p, InTurn') = picks[p] - Hits(p, InTurn)
        BY <2>2, <3>1, <3>2, <3>4
      <3> QED
        BY <3>3, <3>5
    <2>5. \A p \in Pool : Hits(p, InTurn)' = Hits(p, InTurn')
      BY DEF Hits
    <2> QED
      BY <1>1, <2>3, <2>4, <2>5 DEF SpreadInv
  <1> QED
    BY <1>3, <1>4

(* A selection out of turn, with or without the reset of the counter. *)
LEMMA SwapKeepsSpread ==
    ASSUME SpreadInv, NEW c \in Callers, Swap(c)
    PROVE  SpreadInv'
  <1>1. counter \in Nat /\ wrapped \in Nat /\ picks \in [Pool -> Nat] /\ wrapped' = wrapped + 1 /\ SelectAt(0)
    BY DEF SpreadInv, Swap
  <1>2. counter' = 0 \/ counter' = counter
    BY DEF Swap
  <1>3. MaxCount \in Nat /\ InTurn \in Nat
    BY <1>1, RoundRobinAssumption DEF RoundRobinAssumption, InTurn
  <1>4. counter' \in Nat /\ (InTurn' = InTurn \/ InTurn' = 0)
    BY <1>1, <1>2, <1>3 DEF InTurn
  <1>5. /\ picks' \in [Pool -> Nat] /\ Total \in Nat /\ Total' = Total + 1
        /\ \A p \in Pool : picks'[p] = picks[p] + (IF List[1 + (0 % Len(List))] = p THEN 1 ELSE 0)
    BY <1>1, SelectionCounts
  <1>6. ASSUME NEW p \in Pool
        PROVE  Within(Away(picks'[p] - Hits(p, InTurn'), Total' - InTurn', Len(List), Shares[p]),
                      wrapped' * (Len(List) * Len(List)))
    <2> DEFINE size == Len(List)
               part == Shares[p]
               hit == IF List[1 + (0 % size)] = p THEN 1 ELSE 0
               got == picks[p] - Hits(p, InTurn)
               all == Total - InTurn
    <2>1. size \in Nat /\ size > 0 /\ part \in Nat /\ part <= size
      BY ListFacts
    <2>2. hit \in {0, 1} /\ picks'[p] = picks[p] + hit /\ picks[p] \in Nat
      BY <1>1, <1>5
    <2>3. Hits(p, InTurn) \in Nat /\ Hits(p, 0) = 0
      BY <1>3, HitsNext
    <2>4. Within(Away(got, all, size, part), wrapped * (size * size)) /\ got \in Int /\ all \in Int
      BY <1>3, <1>5, <2>2, <2>3 DEF SpreadInv
    <2>5. ASSUME NEW turns \in Int, NEW hits \in Int,
                 Within(Away(hits, turns, size, part), part * (size - part)),
                 picks'[p] - Hits(p, InTurn') = got + hits + hit, Total' - InTurn' = all + turns + 1
          PROVE  Within(Away(picks'[p] - Hits(p, InTurn'), Total' - InTurn', size, part), wrapped' * (size * size))
      <3> HIDE DEF size, part, hit, got, all
      <3>1. Within(Away(got + hits + hit, all + turns + 1, size, part), (wrapped + 1) * (size * size))
        BY <1>1, <2>1, <2>2, <2>4, <2>5, OutOfTurn
      <3> QED
        BY <1>1, <2>5, <3>1
    <2>6. CASE InTurn' = InTurn
      <3>1. Within(Away(0, 0, size, part), part * (size - part))
        <4> DEFINE rest == size - part
        <4>1. rest \in Nat
          BY <2>1
        <4> HIDE DEF size, part, rest
        <4>2. part * rest \in Nat
          BY <2>1, <4>1, Products
        <4>3. Away(0, 0, size, part) = 0
          BY <2>1 DEF Away
        <4> QED
          BY <4>2, <4>3 DEF Within, rest
      <3>2. picks'[p] - Hits(p, InTurn') = got + 0 + hit
        <4> HIDE DEF hit
        <4> QED
          BY <2>2, <2>3, <2>6
      <3>3. Total' - InTurn' = all + 0 + 1
        BY <1>3, <1>5, <2>6
      <3> HIDE DEF size, part, hit, got, all
      <3>4. Within(Away(picks'[p] - Hits(p, InTurn'), Total' - InTurn', size, part), wrapped' * (size * size))
        BY <2>5, <3>1, <3>2, <3>3
      <3> QED
        BY <3>4 DEF size, part
    <2>7. CASE InTurn' = 0
      <3> DEFINE hits == Hits(p, InTurn)
      <3>1. Within(Away(hits, InTurn, size, part), part * (size - part))
        BY <1>3, HitsAreFair
      <3>2. picks'[p] - Hits(p, InTurn') = got + hits + hit
        <4> HIDE DEF hit
        <4> QED
          BY <2>2, <2>3, <2>7
      <3>3. Total' - InTurn' = all + InTurn + 1
        BY <1>3, <1>5, <2>7
      <3>4. hits \in Int /\ InTurn \in Int
        BY <1>3, <2>3
      <3> HIDE DEF size, part, hit, got, all, hits
      <3>5. Within(Away(picks'[p] - Hits(p, InTurn'), Total' - InTurn', size, part), wrapped' * (size * size))
        BY <2>5, <3>1, <3>2, <3>3, <3>4
      <3> QED
        BY <3>5 DEF size, part
    <2> QED
      BY <1>4, <2>6, <2>7
  <1>7. \A p \in Pool : Hits(p, InTurn)' = Hits(p, InTurn')
    BY DEF Hits
  <1> QED
    BY <1>1, <1>4, <1>5, <1>6, <1>7 DEF SpreadInv

(* With the selections in turn, which are fair, the shares are kept. *)
LEMMA SpreadIsEven == SpreadInv => EvenlySpread
  <1> SUFFICES ASSUME SpreadInv, NEW p \in Pool
               PROVE  LET due == Total * Share(p)
                          got == picks[p] * Round
                          slack == Round * (Share(p) + wrapped * Round)
                      IN  due - slack <= got /\ got <= due + slack
    BY DEF EvenlySpread
  <1> DEFINE r == Len(List)
             s == Shares[p]
             h == Hits(p, InTurn)
             n == InTurn
             g == picks[p]
             w == wrapped
             t == Total
  <1>1. r \in Nat /\ r = Round /\ s \in Nat /\ s = Share(p) /\ s <= r
    BY ListFacts
  <1>2. n \in Nat /\ g \in Nat /\ w \in Nat
    BY RoundRobinAssumption DEF RoundRobinAssumption, InTurn, SpreadInv
  <1>3. h \in Nat /\ Within(Away(h, n, r, s), s * (r - s))
    BY <1>2, HitsNext, HitsAreFair
  <1>4. t \in Nat
    BY TotalIsSum, SumType, RoundRobinAssumption DEF RoundRobinAssumption, SpreadInv
  <1>5. Within(Away(g - h, t - n, r, s), w * (r * r))
    BY DEF SpreadInv
  <1> HIDE DEF r, s, h, n, g, w, t
  <1>6. Away(g - h, t - n, r, s) + Away(h, n, r, s) = g * r - t * s
    BY <1>1, <1>2, <1>3, <1>4 DEF Away
  <1>7. r * (s + w * r) = r * s + w * (r * r) /\ s * (r - s) = r * s - s * s /\ s * s \in Nat
    BY <1>1, <1>2
  <1>8. /\ Away(g - h, t - n, r, s) \in Int /\ Away(h, n, r, s) \in Int /\ g * r \in Int /\ t * s \in Int
        /\ w * (r * r) \in Int /\ r * s \in Int
    BY <1>1, <1>2, <1>3, <1>4 DEF Away
  <1>9. t * s - r * (s + w * r) <= g * r /\ g * r <= t * s + r * (s + w * r)
    BY <1>3, <1>5, <1>6, <1>7, <1>8 DEF Within
  <1> QED
    BY <1>1, <1>9 DEF g, w, t

(* EvenlySpread: for every pool, all weights and every number of callers,  *)
(* SelectProvider gives each provider its share, whatever happens when the *)
(* counter wraps.                                                          *)
THEOREM SelectionsAreEven == RoundRobinSpec => []EvenlySpread
  <1>1. SpreadInv /\ [RoundRobinNext]_roundRobinVars => SpreadInv'
    <2> SUFFICES ASSUME SpreadInv, [RoundRobinNext]_roundRobinVars PROVE SpreadInv'
      OBVIOUS
    <2>1. CASE RoundRobinNext
      BY <2>1, AddKeepsSpread, SwapKeepsSpread DEF RoundRobinNext
    <2>2. CASE UNCHANGED roundRobinVars
      <3>1. counter' = counter /\ wrapped' = wrapped /\ picks' = picks /\ InTurn' = InTurn /\ Total' = Total
        BY <2>2, TotalStays DEF roundRobinVars, InTurn, SpreadInv
      <3>2. \A p \in Pool : Hits(p, InTurn)' = Hits(p, InTurn')
        BY DEF Hits
      <3>3. ASSUME NEW p \in Pool
            PROVE  Within(Away(picks'[p] - Hits(p, InTurn'), Total' - InTurn', Len(List), Shares[p]),
                          wrapped' * (Len(List) * Len(List)))
        BY <3>1 DEF SpreadInv
      <3> QED
        BY <3>1, <3>2, <3>3 DEF SpreadInv
    <2> QED
      BY <2>1, <2>2
  <1> QED
    BY SpreadStarts, SpreadIsEven, <1>1, PTL DEF RoundRobinSpec

=============================================================================
