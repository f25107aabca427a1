-------------------------- MODULE Retention_proofs --------------------------
(***************************************************************************)
(* Pruning keeps the newest records, archives what it saw and ends before  *)
(* Stop returns, for every number of records and of overlapping jobs.      *)
(***************************************************************************)
EXTENDS Retention, FiniteSetTheorems, TLAPS

-----------------------------------------------------------------------------
(* Types *)

(* Sets of records are finite. *)
LEMMA RecordsFinite ==
    ASSUME NEW S \in SUBSET Records
    PROVE  IsFiniteSet(S) /\ Cardinality(S) \in Nat
  BY RetentionAssumption, FS_Subset, FS_CardinalityType DEF RetentionAssumption

(* Some record of a batch is as late as any: the one with the fewest later *)
(* records.                                                                *)
LEMMA LatestExists ==
    ASSUME NEW S \in SUBSET Records, S # {}
    PROVE  \E r \in S : \A s \in S : RequestTime[s] <= RequestTime[r]
  <1> DEFINE Later(r) == {s \in S : RequestTime[s] > RequestTime[r]}
             Sizes == {Cardinality(Later(r)) : r \in S}
  <1>1. \A r \in S : IsFiniteSet(Later(r)) /\ Cardinality(Later(r)) \in Nat
    BY RecordsFinite
  <1>2. PICK n \in Sizes : \A m \in Sizes : ~(<<m, n>> \in OpToRel(<, Nat))
    <2>1. Sizes \subseteq Nat /\ Sizes # {}
      BY <1>1
    <2> HIDE DEF Sizes
    <2> QED
      BY <2>1, NatLessThanWellFounded, WFMin
  <1>3. \A m \in Sizes : ~(m < n)
    BY <1>1, <1>2 DEF OpToRel
  <1>4. PICK r \in S : n = Cardinality(Later(r))
    OBVIOUS
  <1>5. ASSUME NEW s \in S, RequestTime[s] > RequestTime[r] PROVE FALSE
    <2>1. Later(s) \subseteq Later(r) \ {s} /\ s \in Later(r)
      BY <1>5, RetentionAssumption DEF RetentionAssumption
    <2>2. /\ IsFiniteSet(Later(r) \ {s})
          /\ Cardinality(Later(r) \ {s}) = Cardinality(Later(r)) - 1
      BY <1>1, <2>1, FS_RemoveElement
    <2>3. Cardinality(Later(s)) <= Cardinality(Later(r)) - 1
      BY <2>1, <2>2, FS_Subset
    <2>4. Cardinality(Later(s)) \in Sizes
      OBVIOUS
    <2> HIDE DEF Later, Sizes
    <2> QED
      BY <1>1, <1>3, <1>4, <2>3, <2>4
  <1> QED
    BY <1>5, RetentionAssumption DEF RetentionAssumption

(* The cutoff of a batch is the time of one of its records, and no record  *)
(* of the batch is later.                                                  *)
LEMMA CutoffOfBatch ==
    ASSUME NEW S \in SUBSET Records, S # {}
    PROVE  /\ Max({RequestTime[r] : r \in S}) \in Nat
           /\ \E r \in S : RequestTime[r] = Max({RequestTime[s] : s \in S})
           /\ \A r \in S : RequestTime[r] <= Max({RequestTime[s] : s \in S})
  <1> DEFINE T == {RequestTime[r] : r \in S}
  <1>1. PICK r \in S : \A s \in S : RequestTime[s] <= RequestTime[r]
    BY LatestExists
  <1>2. \E t \in T : \A u \in T : t >= u
    BY <1>1, RetentionAssumption DEF RetentionAssumption
  <1>3. Max(T) \in T /\ \A u \in T : Max(T) >= u
    <2> HIDE DEF T
    <2> QED
      BY <1>2 DEF Max
  <1>4. T \subseteq Nat
    BY RetentionAssumption DEF RetentionAssumption
  <1>5. \A s \in S : RequestTime[s] \in T
    OBVIOUS
  <1>6. \E s \in S : RequestTime[s] = Max(T)
    <2> DEFINE m == Max(T)
    <2>1. m \in T
      BY <1>3
    <2> HIDE DEF m
    <2>2. \E s \in S : RequestTime[s] = m
      BY <2>1
    <2> QED
      BY <2>2 DEF m
  <1>7. \A s \in S : RequestTime[s] <= Max(T)
    <2> HIDE DEF T
    <2> QED
      BY <1>3, <1>4, <1>5
  <1>8. Max(T) \in Nat
    <2> HIDE DEF T
    <2> QED
      BY <1>3, <1>4
  <1> QED
    BY <1>6, <1>7, <1>8

(* A query returns some of the records, and all of them without a limit or *)
(* when there are no more than that.                                       *)
QueryReturnsAll == QueryLimit = 0 \/ Cardinality(Records) <= QueryLimit
LEMMA QueryResults ==
    ASSUME NEW rs \in SUBSET Records, NEW found \in Results(rs)
    PROVE  found \subseteq rs /\ (QueryReturnsAll => found = rs)
  <1>1. Cardinality(rs) <= Cardinality(Records) /\ Cardinality(rs) \in Nat /\ Cardinality(Records) \in Nat
    BY RecordsFinite, FS_Subset
  <1>2. QueryReturnsAll => QueryLimit = 0 \/ Cardinality(rs) <= QueryLimit
    BY <1>1, RetentionAssumption DEF QueryReturnsAll, RetentionAssumption
  <1> QED
    BY <1>2 DEF Results, kSubset

(* Sorting and cutting off leaves the oldest. *)
LEMMA OldestRecords ==
    ASSUME NEW rs \in SUBSET Records, Excess(rs) > 0, NEW old \in Oldest(rs, Excess(rs))
    PROVE  /\ old \in SUBSET rs /\ old # {}
           /\ Cardinality(rs \ old) = MaxRecords
           /\ \A a \in old, b \in rs \ old : RequestTime[a] <= RequestTime[b]
  <1>1. /\ old \in SUBSET rs /\ Cardinality(old) = Cardinality(rs) - MaxRecords
        /\ \A a \in old, b \in rs \ old : RequestTime[a] <= RequestTime[b]
    BY DEF Oldest, kSubset, Excess
  <1>2. old # {}
    BY <1>1, FS_EmptySet DEF Excess
  <1>3. Cardinality(rs \ old) = Cardinality(rs) - Cardinality(rs \cap old) /\ rs \cap old = old
    BY <1>1, RecordsFinite, FS_Difference
  <1> QED
    BY <1>1, <1>2, <1>3, RecordsFinite, RetentionAssumption DEF RetentionAssumption

(* The types hold at the start. *)
LEMMA InitTypes == Init => TypeOK
  BY RetentionAssumption DEF Init, TypeOK, NoLocal, States, RetentionAssumption

(* A query finds stored records, and a batch has a cutoff. *)
LEMMA StepTypes ==
    ASSUME TypeOK, [Next]_vars
    PROVE  TypeOK'
  <1> USE RetentionAssumption DEF TypeOK, States, storage, Goto, Leave, NoLocal
  <1>1. ASSUME NEW r \in Records, Store(r) PROVE TypeOK'
    BY <1>1 DEF Store
  <1>2. ASSUME NEW j \in Jobs, Fire(j) PROVE TypeOK'
    BY <1>2 DEF Fire, AfterAge, RetentionAssumption
  <1>3. ASSUME NEW j \in Jobs, AgeQuery(j) PROVE TypeOK'
    <2>1. PICK found \in Results(Older(stored, local[j].cutoff)) :
             /\ local' = [local EXCEPT ![j].batch = found, ![j].seen = stored]
             /\ Goto(j, IF found = {} THEN "ageDelete" ELSE "ageArchive")
      BY <1>3 DEF AgeQuery
    <2>2. found \in SUBSET Records
      <3>1. Older(stored, local[j].cutoff) \in SUBSET Records
        BY DEF Older
      <3> QED
        BY <3>1, QueryResults
    <2>3. local' \in [Jobs -> [cutoff : Int, batch : SUBSET Records, seen : SUBSET Records]]
      BY <2>1, <2>2, ZenonT(60)
    <2>4. pc' \in [Jobs -> States]
      BY <2>1
    <2> QED
      BY <1>3, <2>3, <2>4 DEF AgeQuery
  <1>4. ASSUME NEW j \in Jobs, NEW kind \in {"age", "count"}, NEW stamp \in Nat,
               NEW next \in States, ArchiveFile(j, kind, stamp, next)
        PROVE  TypeOK'
    <2>1. Written(kind, stamp, local[j].batch) \subseteq Files /\ Written(kind, stamp, {}) \subseteq Files
      BY DEF Written, Files
    <2> QED
      BY <1>4, <2>1 DEF ArchiveFile
  <1>5. ASSUME NEW j \in Jobs, AgeArchive(j) PROVE TypeOK'
    <2>1. now \div Day \in Nat
      BY DEF RetentionAssumption
    <2> QED
      BY <1>4, <1>5, <2>1 DEF AgeArchive
  <1>6. ASSUME NEW j \in Jobs, NEW next \in States, Delete(j, next) PROVE TypeOK'
    BY <1>6 DEF Delete, Older
  <1>7. ASSUME NEW j \in Jobs, AgeDelete(j) PROVE TypeOK'
    BY <1>6, <1>7 DEF AgeDelete, AfterAge
  <1>8. ASSUME NEW j \in Jobs, Count(j) PROVE TypeOK'
    BY <1>8 DEF Count
  <1>9. ASSUME NEW j \in Jobs, CountQuery(j) PROVE TypeOK'
    <2>1. PICK all \in Results(stored) :
             \/ Excess(all) <= 0 /\ Goto(j, "done") /\ UNCHANGED local
             \/ /\ Excess(all) > 0
                /\ \E old \in Oldest(all, Excess(all)) :
                      local' = [local EXCEPT ![j] =
                                  [cutoff |-> Max({RequestTime[r] : r \in old}),
                                   batch |-> old, seen |-> stored]]
                /\ Goto(j, IF Archive THEN "countArchive" ELSE "countDelete")
      BY <1>9 DEF CountQuery
    <2>2. all \in SUBSET Records
      BY QueryResults
    <2>3. CASE Excess(all) <= 0 /\ Goto(j, "done") /\ UNCHANGED local
      BY <1>9, <2>3 DEF CountQuery
    <2>4. CASE /\ Excess(all) > 0
               /\ \E old \in Oldest(all, Excess(all)) :
                     local' = [local EXCEPT ![j] =
                                 [cutoff |-> Max({RequestTime[r] : r \in old}),
                                  batch |-> old, seen |-> stored]]
               /\ Goto(j, IF Archive THEN "countArchive" ELSE "countDelete")
      <3>1. PICK old \in Oldest(all, Excess(all)) :
               local' = [local EXCEPT ![j] =
                           [cutoff |-> Max({RequestTime[r] : r \in old}),
                            batch |-> old, seen |-> stored]]
        BY <2>4
      <3>2. old \in SUBSET Records /\ old # {}
        BY <2>2, <2>4, OldestRecords
      <3>3. Max({RequestTime[r] : r \in old}) \in Nat
        BY <3>2, CutoffOfBatch
      <3> QED
        BY <1>9, <2>4, <3>1, <3>2, <3>3 DEF CountQuery
    <2> QED
      BY <2>1, <2>3, <2>4
  <1>10. ASSUME NEW j \in Jobs, CountArchive(j) PROVE TypeOK'
    BY <1>4, <1>10 DEF CountArchive
  <1>11. ASSUME NEW j \in Jobs, CountDelete(j) PROVE TypeOK'
    BY <1>6, <1>11 DEF CountDelete
  <1>12. ASSUME NEW j \in Jobs, Fail(j) \/ Finish(j) PROVE TypeOK'
    BY <1>12 DEF Fail, Finish
  <1>13. ASSUME Start \/ Stop \/ StopReturn \/ Tick PROVE TypeOK'
    BY <1>13 DEF Start, Stop, StopReturn, Tick, RetentionAssumption
  <1>14. CASE UNCHANGED vars
    BY <1>14 DEF vars
  <1> QED
    BY <1>1, <1>2, <1>3, <1>5, <1>7, <1>8, <1>9, <1>10, <1>11, <1>12, <1>13, <1>14 DEF Next, Prune

-----------------------------------------------------------------------------
(* The scheduler *)

(* Stop waits on the context that cron.Stop returns. *)
LEMMA StepStop ==
    ASSUME TypeOK, NoJobAfterStop, [Next]_vars
    PROVE  NoJobAfterStop'
  <1> USE DEF TypeOK, NoJobAfterStop, storage, Goto, Leave
  <1>1. ASSUME NEW r \in Records, Store(r) PROVE NoJobAfterStop'
    BY <1>1 DEF Store
  <1>2. ASSUME NEW j \in Jobs, Fire(j) PROVE NoJobAfterStop'
    BY <1>2 DEF Fire
  <1>3. ASSUME NEW j \in Jobs, Prune(j) PROVE NoJobAfterStop'
    <2>1. UNCHANGED scheduler /\ pc[j] # "idle"
      BY <1>3 DEF Prune, AgeQuery, AgeArchive, ArchiveFile, AgeDelete, Delete, Count, CountQuery,
                  CountArchive, CountDelete, Fail, Finish
    <2> QED
      BY <2>1
  <1>4. CASE Start \/ Stop \/ StopReturn \/ Tick
    BY <1>4 DEF Start, Stop, StopReturn, Tick
  <1>5. CASE UNCHANGED vars
    BY <1>5 DEF vars
  <1> QED
    BY <1>1, <1>2, <1>3, <1>4, <1>5 DEF Next

(* Records, jobs and archives keep their types, and only stored records    *)
(* are deleted (pruner.go, scheduler.go).                                  *)
THEOREM RetentionTypes == Spec => []TypeOK
  BY InitTypes, StepTypes, PTL DEF Spec

(* When the scheduler's Stop has returned no job runs, and none starts     *)
(* until Start is called: the storage can be closed (scheduler.go).        *)
THEOREM StopOutwaitsJobs == Spec => []NoJobAfterStop
  <1>1. Init => NoJobAfterStop
    BY DEF Init, NoJobAfterStop
  <1> QED
    BY <1>1, InitTypes, StepTypes, StepStop, PTL DEF Spec

-----------------------------------------------------------------------------
(* The newest records *)

(* The cutoff of a job is in the past by the retention time, or has more   *)
(* than MaxRecords records at or after it: neither is undone by what other *)
(* jobs and the recorder do before the job deletes.                        *)
Since(t) == {s \in stored \cup deleted : RequestTime[s] >= t}
AgeCutoffs ==
    \A j \in Jobs : pc[j] \in {"ageQuery", "ageArchive", "ageDelete"} =>
       RetentionTime > 0 /\ local[j].cutoff <= now - RetentionTime
CountCutoffs ==
    \A j \in Jobs :
       /\ pc[j] \in {"count", "countQuery", "countArchive", "countDelete"} => MaxRecords > 0
       /\ pc[j] \in {"countArchive", "countDelete"} => Cardinality(Since(local[j].cutoff)) > MaxRecords

NewestInv == TypeOK /\ AgeCutoffs /\ CountCutoffs /\ NewestSurvive

(* Records are never forgotten by the two sets together. *)
LEMMA StoredStay ==
    ASSUME TypeOK, [Next]_vars
    PROVE  stored \cup deleted \subseteq stored' \cup deleted' /\ now <= now'
  <1> USE DEF TypeOK, storage
  <1>1. ASSUME NEW j \in Jobs, Prune(j)
        PROVE  stored \cup deleted \subseteq stored' \cup deleted' /\ now' = now
    BY <1>1 DEF Prune, AgeQuery, AgeArchive, ArchiveFile, AgeDelete, Delete, Count, CountQuery,
                CountArchive, CountDelete, Fail, Finish, Older
  <1> QED
    BY <1>1 DEF Next, Store, Fire, Start, Stop, StopReturn, Tick, vars

(* More records at or after a time stay more. *)
LEMMA SinceGrows ==
    ASSUME TypeOK, TypeOK', [Next]_vars, NEW t \in Int, Cardinality(Since(t)) > MaxRecords
    PROVE  Cardinality(Since(t)') > MaxRecords
  <1>1. Since(t) \in SUBSET Records /\ Since(t)' \in SUBSET Records
    BY DEF Since, TypeOK
  <1>2. Since(t) \subseteq Since(t)'
    BY StoredStay DEF Since
  <1>3. Cardinality(Since(t)) <= Cardinality(Since(t)')
    BY <1>1, <1>2, RecordsFinite, FS_Subset
  <1> QED
    BY <1>1, <1>3, RecordsFinite, RetentionAssumption DEF RetentionAssumption

(* A job's step leaves the variables of the other jobs alone. *)
LEMMA OthersStay ==
    ASSUME TypeOK, NEW j \in Jobs, Fire(j) \/ Prune(j), NEW k \in Jobs, k # j
    PROVE  pc'[k] = pc[k] /\ local'[k] = local[k]
  <1> USE DEF TypeOK, Goto, Leave
  <1>1. CASE Fire(j)
    BY <1>1 DEF Fire
  <1>2. CASE AgeQuery(j) \/ AgeArchive(j) \/ AgeDelete(j) \/ Count(j)
    BY <1>2 DEF AgeQuery, AgeArchive, ArchiveFile, AgeDelete, Delete, Count
  <1>3. CASE CountQuery(j) \/ CountArchive(j) \/ CountDelete(j) \/ Fail(j) \/ Finish(j)
    BY <1>3 DEF CountQuery, CountArchive, ArchiveFile, CountDelete, Delete, Fail, Finish
  <1> QED
    BY <1>1, <1>2, <1>3 DEF Prune

(* The query of pruneByCount with its sort: there is nothing to delete, or *)
(* the batch has the oldest records and leaves MaxRecords.                 *)
Cutoff(l, all) ==
    /\ l.batch \subseteq all /\ Cardinality(all \ l.batch) = MaxRecords
    /\ \A a \in l.batch : RequestTime[a] <= l.cutoff
    /\ \E a \in l.batch : RequestTime[a] = l.cutoff
    /\ \A a \in l.batch, b \in all \ l.batch : RequestTime[a] <= RequestTime[b]
    /\ l.seen = stored
LEMMA CountQueryCuts ==
    ASSUME TypeOK, NEW j \in Jobs, CountQuery(j)
    PROVE  \E all \in Results(stored) :
             /\ all \in SUBSET Records
             /\ \/ pc'[j] = "done" /\ Cardinality(all) <= MaxRecords
                \/ pc'[j] \in {"countArchive", "countDelete"} /\ Cutoff(local'[j], all)
  <1> USE DEF TypeOK, Goto
  <1>1. PICK all \in Results(stored) :
           \/ Excess(all) <= 0 /\ Goto(j, "done") /\ UNCHANGED local
           \/ /\ Excess(all) > 0
              /\ \E old \in Oldest(all, Excess(all)) :
                    local' = [local EXCEPT ![j] =
                                [cutoff |-> Max({RequestTime[r] : r \in old}),
                                 batch |-> old, seen |-> stored]]
              /\ Goto(j, IF Archive THEN "countArchive" ELSE "countDelete")
    BY DEF CountQuery
  <1>2. all \in SUBSET Records
    BY QueryResults
  <1>3. CASE Excess(all) <= 0 /\ Goto(j, "done") /\ UNCHANGED local
    <2>1. Cardinality(all) <= MaxRecords
      BY <1>2, <1>3, RecordsFinite, RetentionAssumption DEF Excess, RetentionAssumption
    <2> QED
      BY <1>2, <1>3, <2>1
  <1>4. CASE /\ Excess(all) > 0
             /\ \E old \in Oldest(all, Excess(all)) :
                   local' = [local EXCEPT ![j] =
                               [cutoff |-> Max({RequestTime[r] : r \in old}),
                                batch |-> old, seen |-> stored]]
             /\ Goto(j, IF Archive THEN "countArchive" ELSE "countDelete")
    <2>1. PICK old \in Oldest(all, Excess(all)) :
             local' = [local EXCEPT ![j] =
                         [cutoff |-> Max({RequestTime[r] : r \in old}),
                          batch |-> old, seen |-> stored]]
      BY <1>4
    <2> DEFINE m == Max({RequestTime[r] : r \in old})
    <2>2. /\ old \in SUBSET all /\ old # {} /\ Cardinality(all \ old) = MaxRecords
          /\ \A a \in old, b \in all \ old : RequestTime[a] <= RequestTime[b]
      BY <1>2, <1>4, OldestRecords
    <2>3. /\ \E r \in old : RequestTime[r] = m
          /\ \A r \in old : RequestTime[r] <= m
      BY <1>2, <2>2, CutoffOfBatch
    <2>4. local'[j] = [cutoff |-> m, batch |-> old, seen |-> stored]
      BY <2>1
    <2> HIDE DEF m
    <2>5. Cutoff(local'[j], all)
      BY <2>2, <2>3, <2>4 DEF Cutoff
    <2>6. pc'[j] \in {"countArchive", "countDelete"}
      BY <1>4
    <2> QED
      BY <1>2, <2>5, <2>6
  <1> QED
    BY <1>1, <1>3, <1>4

(* So the cutoff and what the batch leaves are more than MaxRecords. *)
LEMMA CutoffLeavesEnough ==
    ASSUME TypeOK, NEW all \in Results(stored), all \in SUBSET Records,
           NEW l \in [cutoff : Int, batch : SUBSET Records, seen : SUBSET Records], Cutoff(l, all)
    PROVE  Cardinality(Since(l.cutoff)) > MaxRecords
  <1>1. PICK a \in l.batch : RequestTime[a] = l.cutoff
    BY DEF Cutoff
  <1> DEFINE rest == all \ l.batch
  <1>2. rest \cup {a} \subseteq Since(l.cutoff) /\ a \notin rest
    <2>1. all \subseteq stored
      BY QueryResults DEF TypeOK
    <2> QED
      BY <1>1, <2>1, RetentionAssumption DEF Cutoff, Since, TypeOK, RetentionAssumption
  <1>3. Cardinality(rest \cup {a}) = MaxRecords + 1
    <2>1. IsFiniteSet(rest) /\ Cardinality(rest) = MaxRecords
      BY RecordsFinite DEF Cutoff
    <2> QED
      BY <1>2, <2>1, FS_AddElement
  <1>4. Since(l.cutoff) \in SUBSET Records
    BY DEF Since, TypeOK
  <1>5. Cardinality(rest \cup {a}) <= Cardinality(Since(l.cutoff))
    BY <1>2, <1>4, RecordsFinite, FS_Subset
  <1> QED
    BY <1>3, <1>4, <1>5, RecordsFinite, RetentionAssumption DEF RetentionAssumption

(* Why a record may be deleted; the reason stays good. *)
NewerOrEqual(r) == {s \in (stored \cup deleted) \ {r} : RequestTime[s] >= RequestTime[r]}
Justified(r) ==
    \/ RetentionTime > 0 /\ RequestTime[r] <= now - RetentionTime
    \/ MaxRecords > 0 /\ Cardinality(NewerOrEqual(r)) >= MaxRecords

LEMMA JustifiedStays ==
    ASSUME TypeOK, TypeOK', [Next]_vars, NEW r \in Records, Justified(r)
    PROVE  Justified(r)'
  <1>1. CASE RetentionTime > 0 /\ RequestTime[r] <= now - RetentionTime
    BY <1>1, StoredStay, RetentionAssumption DEF Justified, TypeOK, RetentionAssumption
  <1>2. CASE MaxRecords > 0 /\ Cardinality(NewerOrEqual(r)) >= MaxRecords
    <2>1. NewerOrEqual(r) \in SUBSET Records /\ NewerOrEqual(r)' \in SUBSET Records
      BY DEF NewerOrEqual, TypeOK
    <2>2. NewerOrEqual(r) \subseteq NewerOrEqual(r)'
      BY StoredStay DEF NewerOrEqual
    <2>3. Cardinality(NewerOrEqual(r)) <= Cardinality(NewerOrEqual(r)')
      BY <2>1, <2>2, RecordsFinite, FS_Subset
    <2>4. Cardinality(NewerOrEqual(r)') >= MaxRecords
      BY <1>2, <2>1, <2>3, RecordsFinite, RetentionAssumption DEF RetentionAssumption
    <2> QED
      BY <1>2, <2>4 DEF Justified
  <1> QED
    BY <1>1, <1>2 DEF Justified

(* Everything up to a job's cutoff may be deleted. *)
LEMMA CutoffJustifies ==
    ASSUME NewestInv, NEW j \in Jobs, pc[j] \in {"ageDelete", "countDelete"},
           NEW r \in Records, RequestTime[r] <= local[j].cutoff
    PROVE  Justified(r)
  <1> USE DEF NewestInv, TypeOK
  <1>1. CASE pc[j] = "ageDelete"
    BY <1>1, RetentionAssumption DEF AgeCutoffs, Justified, RetentionAssumption
  <1>2. CASE pc[j] = "countDelete"
    <2> DEFINE S == Since(local[j].cutoff)
    <2>1. MaxRecords > 0 /\ Cardinality(S) > MaxRecords
      BY <1>2 DEF CountCutoffs
    <2>2. S \in SUBSET Records /\ NewerOrEqual(r) \in SUBSET Records
      BY DEF Since, NewerOrEqual
    <2>3. S \ {r} \subseteq NewerOrEqual(r)
      BY RetentionAssumption DEF Since, NewerOrEqual, RetentionAssumption
    <2> HIDE DEF S
    <2>4. /\ Cardinality(S \ {r}) <= Cardinality(NewerOrEqual(r))
          /\ Cardinality(S \ {r}) >= Cardinality(S) - 1
      BY <2>2, <2>3, RecordsFinite, FS_Subset, FS_RemoveElement
    <2>5. Cardinality(S \ {r}) \in Nat /\ Cardinality(NewerOrEqual(r)) \in Nat /\ Cardinality(S) \in Nat
      BY <2>2, RecordsFinite
    <2>6. Cardinality(NewerOrEqual(r)) >= MaxRecords
      BY <2>1, <2>4, <2>5, RetentionAssumption DEF RetentionAssumption
    <2> QED
      BY <2>1, <2>6 DEF Justified
  <1> QED
    BY <1>1, <1>2

(* Only a job at its Delete deletes, and only up to its cutoff. *)
LEMMA DeletesUpToCutoff ==
    ASSUME TypeOK, [Next]_vars, NEW r \in deleted', r \notin deleted
    PROVE  \E j \in Jobs : /\ pc[j] \in {"ageDelete", "countDelete"}
                          /\ r \in stored /\ RequestTime[r] <= local[j].cutoff
  <1> USE DEF TypeOK, storage
  <1>1. ASSUME NEW j \in Jobs, AgeDelete(j) \/ CountDelete(j)
        PROVE  pc[j] \in {"ageDelete", "countDelete"} /\ r \in stored /\ RequestTime[r] <= local[j].cutoff
    BY <1>1 DEF AgeDelete, CountDelete, Delete, Older
  <1>2. ASSUME NEW j \in Jobs,
               Fire(j) \/ (Prune(j) /\ ~AgeDelete(j) /\ ~CountDelete(j))
        PROVE  FALSE
    BY <1>2 DEF Fire, Prune, AgeQuery, AgeArchive, ArchiveFile, Count, CountQuery, CountArchive, Fail, Finish
  <1>3. ASSUME (\E s \in Records : Store(s)) \/ Start \/ Stop \/ StopReturn \/ Tick \/ UNCHANGED vars
        PROVE  FALSE
    BY <1>3 DEF Store, Start, Stop, StopReturn, Tick, vars
  <1> QED
    BY <1>1, <1>2, <1>3 DEF Next

(* A cutoff is only ever computed by its own job, and the clock runs on. *)
LEMMA StepAgeCutoffs ==
    ASSUME TypeOK, TypeOK', AgeCutoffs, [Next]_vars
    PROVE  AgeCutoffs'
  <1> USE DEF TypeOK, AgeCutoffs, storage
  <1>1. ASSUME NEW j \in Jobs, Fire(j) \/ Prune(j) PROVE AgeCutoffs'
    <2>1. now' = now
      BY <1>1 DEF Fire, Prune, AgeQuery, AgeArchive, ArchiveFile, AgeDelete, Delete, Count, CountQuery,
                  CountArchive, CountDelete, Fail, Finish
    <2>2. ASSUME pc'[j] \in {"ageQuery", "ageArchive", "ageDelete"}
          PROVE  RetentionTime > 0 /\ local'[j].cutoff <= now - RetentionTime
      <3> USE DEF Goto, Leave
      <3>1. CASE Fire(j)
        BY <2>2, <3>1, RetentionAssumption DEF Fire, AfterAge, RetentionAssumption
      <3>2. CASE AgeQuery(j) \/ AgeArchive(j)
        BY <2>2, <3>2, ZenonT(60) DEF AgeQuery, AgeArchive, ArchiveFile
      <3>3. CASE AgeDelete(j) \/ Count(j) \/ CountQuery(j) \/ CountArchive(j) \/ CountDelete(j)
                 \/ Fail(j) \/ Finish(j)
        BY <2>2, <3>3 DEF AgeDelete, AfterAge, Delete, Count, CountQuery, CountArchive, ArchiveFile,
                          CountDelete, Fail, Finish
      <3> QED
        BY <1>1, <3>1, <3>2, <3>3 DEF Prune
    <2> QED
      BY <1>1, <2>1, <2>2, OthersStay
  <1>2. CASE (\E r \in Records : Store(r)) \/ Start \/ Stop \/ StopReturn \/ Tick \/ UNCHANGED vars
    BY <1>2, RetentionAssumption DEF Store, Start, Stop, StopReturn, Tick, vars, RetentionAssumption
  <1> QED
    BY <1>1, <1>2 DEF Next

(* The same for the cutoffs of pruneByCount, and records are not forgotten. *)
LEMMA StepCountCutoffs ==
    ASSUME TypeOK, TypeOK', CountCutoffs, [Next]_vars
    PROVE  CountCutoffs'
  <1> USE DEF TypeOK, CountCutoffs, storage
  <1>0. ASSUME NEW t \in Int, Cardinality(Since(t)) > MaxRecords
        PROVE  Cardinality(Since(t)') > MaxRecords
    BY <1>0, SinceGrows
  <1>1. ASSUME NEW j \in Jobs, Fire(j) \/ Prune(j) PROVE CountCutoffs'
    <2>1. pc'[j] \in {"count", "countQuery", "countArchive", "countDelete"} => MaxRecords > 0
      <3> USE DEF Goto, Leave
      <3>1. CASE Fire(j) \/ AgeDelete(j)
        BY <3>1, RetentionAssumption DEF Fire, AgeDelete, Delete, AfterAge, RetentionAssumption
      <3>2. CASE AgeQuery(j) \/ AgeArchive(j) \/ Count(j) \/ CountQuery(j) \/ CountArchive(j)
                 \/ CountDelete(j) \/ Fail(j) \/ Finish(j)
        BY <3>2 DEF AgeQuery, AgeArchive, ArchiveFile, Delete, Count, CountQuery, CountArchive,
                    CountDelete, Fail, Finish
      <3> QED
        BY <1>1, <3>1, <3>2 DEF Prune
    <2>2. ASSUME pc'[j] \in {"countArchive", "countDelete"}
          PROVE  \E t \in Int : t = local'[j].cutoff /\ Cardinality(Since(t)) > MaxRecords
      <3> USE DEF Goto, Leave
      <3>1. CASE CountQuery(j)
        <4>1. PICK all \in Results(stored) : all \in SUBSET Records /\ Cutoff(local'[j], all)
          BY <2>2, <3>1, CountQueryCuts
        <4>2. local'[j] \in [cutoff : Int, batch : SUBSET Records, seen : SUBSET Records]
          OBVIOUS
        <4> QED
          BY <4>1, <4>2, CutoffLeavesEnough
      <3>2. CASE CountArchive(j)
        BY <2>2, <3>2 DEF CountArchive, ArchiveFile
      <3>3. CASE Fire(j) \/ AgeQuery(j) \/ AgeArchive(j) \/ AgeDelete(j) \/ Count(j) \/ CountDelete(j)
                 \/ Fail(j) \/ Finish(j)
        BY <2>2, <3>3 DEF Fire, AfterAge, AgeQuery, AgeArchive, ArchiveFile, AgeDelete, Delete, Count,
                          CountDelete, Fail, Finish
      <3> QED
        BY <1>1, <3>1, <3>2, <3>3 DEF Prune
    <2>3. ASSUME NEW k \in Jobs, pc'[k] \in {"countArchive", "countDelete"}
          PROVE  Cardinality(Since(local[k].cutoff)') > MaxRecords
      <3>1. PICK t \in Int : t = local'[k].cutoff /\ Cardinality(Since(t)) > MaxRecords
        <4>1. CASE k = j
          BY <2>2, <2>3, <4>1
        <4>2. CASE k # j
          BY <1>1, <2>3, <4>2, OthersStay
        <4> QED
          BY <4>1, <4>2
      <3>2. Cardinality(Since(t)') > MaxRecords
        BY <1>0, <3>1
      <3>3. Since(local[k].cutoff)' = Since(t)'
        BY <3>1 DEF Since
      <3> QED
        BY <3>2, <3>3
    <2> QED
      BY <1>1, <2>1, <2>3, OthersStay
  <1>2. CASE (\E r \in Records : Store(r)) \/ Start \/ Stop \/ StopReturn \/ Tick \/ UNCHANGED vars
    <2>1. UNCHANGED <<pc, local>>
      BY <1>2 DEF Store, Start, Stop, StopReturn, Tick, vars
    <2>2. ASSUME NEW k \in Jobs, pc[k] \in {"countArchive", "countDelete"}
          PROVE  Cardinality(Since(local[k].cutoff)') > MaxRecords
      <3>1. PICK t \in Int : t = local'[k].cutoff /\ Cardinality(Since(t)) > MaxRecords
        BY <2>1, <2>2
      <3>2. Since(local[k].cutoff)' = Since(t)'
        BY <3>1 DEF Since
      <3> QED
        BY <1>0, <3>1, <3>2
    <2> QED
      BY <2>1, <2>2
  <1> QED
    BY <1>1, <1>2 DEF Next

(* The property in the names used here. *)
LEMMA NewestSurviveIsJustified == NewestSurvive <=> \A r \in deleted : Justified(r)
  BY DEF NewestSurvive, Justified, NewerOrEqual

(* The invariant of the newest records is inductive. *)
LEMMA StepNewest ==
    ASSUME NewestInv, [Next]_vars
    PROVE  NewestInv'
  <1>1. TypeOK /\ TypeOK'
    BY StepTypes DEF NewestInv
  <1>2. ASSUME NEW r \in deleted' PROVE Justified(r)'
    <2>1. r \in Records
      BY <1>1 DEF TypeOK
    <2>2. Justified(r)
      <3>1. CASE r \in deleted
        BY <3>1, NewestSurviveIsJustified DEF NewestInv
      <3>2. CASE r \notin deleted
        BY <1>1, <2>1, <3>2, DeletesUpToCutoff, CutoffJustifies
      <3> QED
        BY <3>1, <3>2
    <2> QED
      BY <1>1, <2>1, <2>2, JustifiedStays
  <1>3. NewestSurvive'
    BY <1>2 DEF NewestSurvive, Justified, NewerOrEqual
  <1> QED
    BY <1>1, <1>3, StepAgeCutoffs, StepCountCutoffs DEF NewestInv

(* Whatever the number of overlapping jobs, the limit of the query and the *)
(* records stored in between, a record is deleted only when it has expired *)
(* or when MaxRecords others, at least as new, have been stored            *)
(* (pruneByAge and pruneByCount of pruner.go).                             *)
THEOREM NewestRecordsSurvive == Spec => []NewestSurvive
  <1>1. Init => NewestInv
    BY InitTypes DEF Init, NewestInv, AgeCutoffs, CountCutoffs, NewestSurvive
  <1>2. NewestInv => NewestSurvive
    BY DEF NewestInv
  <1> QED
    BY <1>1, <1>2, StepNewest, PTL DEF Spec

-----------------------------------------------------------------------------
(* The limit is reached, when a query returns all *)

(* A job that has made its count query keeps MaxRecords of what it saw,    *)
(* and what is stored is among that unless a record came in since.         *)
Cuts ==
    \A j \in Jobs : pc[j] \in {"countArchive", "countDelete"} =>
       /\ Cardinality(local[j].seen \ local[j].batch) = MaxRecords
       /\ \A a \in local[j].batch : RequestTime[a] <= local[j].cutoff
       /\ j \in calm => stored \subseteq local[j].seen

(* Without Store the storage only loses records. *)
LEMMA JobsOnlyDelete ==
    ASSUME TypeOK, NEW j \in Jobs, Fire(j) \/ Prune(j)
    PROVE  /\ stored' \subseteq stored
           /\ calm' \subseteq calm \cup {j} /\ (pc[j] # "idle" => calm' = calm)
           /\ Fire(j) => pc'[j] \notin {"countArchive", "countDelete"} /\ (pc'[j] = "done" => MaxRecords = 0)
  <1> USE DEF TypeOK, storage, Goto
  <1>1. CASE Fire(j)
    BY <1>1, RetentionAssumption DEF Fire, AfterAge, RetentionAssumption
  <1>2. CASE Prune(j)
    <2>1. stored' \subseteq stored /\ calm' = calm /\ pc[j] # "idle"
      BY <1>2 DEF Prune, AgeQuery, AgeArchive, ArchiveFile, AgeDelete, Delete, Count, CountQuery,
                  CountArchive, CountDelete, Fail, Finish, Older
    <2> QED
      BY <2>1 DEF Fire
  <1> QED
    BY <1>1, <1>2

(* The query sees everything that is stored. *)
LEMMA StepCuts ==
    ASSUME QueryReturnsAll, TypeOK, TypeOK', Cuts, [Next]_vars
    PROVE  Cuts'
  <1> USE DEF TypeOK, Cuts, storage, Goto, Leave
  <1>1. ASSUME NEW j \in Jobs, Fire(j) \/ Prune(j), NEW k \in Jobs, k # j,
               pc'[k] \in {"countArchive", "countDelete"}
        PROVE  /\ Cardinality(local'[k].seen \ local'[k].batch) = MaxRecords
               /\ \A a \in local'[k].batch : RequestTime[a] <= local'[k].cutoff
               /\ k \in calm' => stored' \subseteq local'[k].seen
    BY <1>1, OthersStay, JobsOnlyDelete, ZenonT(60)
  <1>2. ASSUME NEW j \in Jobs, Fire(j) \/ Prune(j), pc'[j] \in {"countArchive", "countDelete"}
        PROVE  /\ Cardinality(local'[j].seen \ local'[j].batch) = MaxRecords
               /\ \A a \in local'[j].batch : RequestTime[a] <= local'[j].cutoff
               /\ j \in calm' => stored' \subseteq local'[j].seen
    <2>1. CASE CountQuery(j)
      <3>1. PICK all \in Results(stored) : all \in SUBSET Records /\ Cutoff(local'[j], all)
        BY <1>2, <2>1, CountQueryCuts
      <3>2. all = stored
        BY QueryResults
      <3>3. stored' = stored
        BY <2>1 DEF CountQuery
      <3> QED
        BY <3>1, <3>2, <3>3 DEF Cutoff
    <2>2. CASE CountArchive(j)
      BY <1>2, <2>2 DEF CountArchive, ArchiveFile
    <2>3. CASE Fire(j)
      BY <1>2, <2>3, JobsOnlyDelete
    <2>4. CASE AgeQuery(j) \/ AgeArchive(j) \/ AgeDelete(j) \/ Count(j) \/ CountDelete(j)
               \/ Fail(j) \/ Finish(j)
      BY <1>2, <2>4 DEF AfterAge, AgeQuery, AgeArchive, ArchiveFile, AgeDelete, Delete, Count,
                        CountDelete, Fail, Finish
    <2> QED
      BY <1>2, <2>1, <2>2, <2>3, <2>4 DEF Prune
  <1>3. ASSUME NEW r \in Records, Store(r) PROVE Cuts'
    BY <1>3 DEF Store
  <1>4. CASE Start \/ Stop \/ StopReturn \/ Tick \/ UNCHANGED vars
    BY <1>4 DEF Start, Stop, StopReturn, Tick, vars
  <1>5. ASSUME NEW j \in Jobs, Fire(j) \/ Prune(j) PROVE Cuts'
    BY <1>1, <1>2, <1>5
  <1> QED
    BY <1>3, <1>4, <1>5 DEF Next

(* The job that is done has counted no more, found no more, or deleted the *)
(* rest.                                                                   *)
LEMMA StepLimit ==
    ASSUME QueryReturnsAll, TypeOK, TypeOK', Cuts, LimitReached, [Next]_vars
    PROVE  LimitReached'
  <1> USE DEF TypeOK, LimitReached, storage, Goto, Leave
  <1>0. /\ IsFiniteSet(stored) /\ Cardinality(stored) \in Nat
        /\ IsFiniteSet(stored') /\ Cardinality(stored') \in Nat
        /\ stored' \subseteq stored => Cardinality(stored') <= Cardinality(stored)
    BY RecordsFinite, FS_Subset
  <1>1. ASSUME NEW j \in Jobs, Fire(j) \/ Prune(j), NEW k \in Jobs, k # j,
               pc'[k] = "done", k \in calm', MaxRecords > 0
        PROVE  Cardinality(stored') <= MaxRecords
    <2>1. stored' \subseteq stored /\ k \in calm /\ pc[k] = "done"
      BY <1>1, OthersStay, JobsOnlyDelete
    <2> QED
      BY <1>0, <1>1, <2>1, RetentionAssumption DEF RetentionAssumption
  <1>2. ASSUME NEW j \in Jobs, Fire(j) \/ Prune(j), pc'[j] = "done", j \in calm', MaxRecords > 0
        PROVE  Cardinality(stored') <= MaxRecords
    <2>1. CASE Fire(j)
      BY <1>2, <2>1, JobsOnlyDelete, RetentionAssumption DEF RetentionAssumption
    <2>2. CASE Count(j)
      BY <1>2, <2>2 DEF Count
    <2>3. CASE CountQuery(j)
      <3>1. PICK all \in Results(stored) : Cardinality(all) <= MaxRecords
        BY <1>2, <2>3, CountQueryCuts
      <3>2. all = stored
        BY QueryResults
      <3> QED
        BY <2>3, <3>1, <3>2 DEF CountQuery
    <2>4. CASE CountDelete(j)
      <3> DEFINE kept == local[j].seen \ local[j].batch
      <3>1. j \in calm /\ pc[j] = "countDelete"
        BY <1>2, <2>4 DEF CountDelete, Delete
      <3>2. stored' \subseteq kept
        BY <2>4, <3>1 DEF CountDelete, Delete, Older, Cuts
      <3>3. Cardinality(kept) = MaxRecords /\ kept \in SUBSET Records
        BY <3>1 DEF Cuts
      <3> HIDE DEF kept
      <3> QED
        BY <3>2, <3>3, RecordsFinite, FS_Subset
    <2>5. CASE AgeQuery(j) \/ AgeArchive(j) \/ AgeDelete(j) \/ CountArchive(j) \/ Fail(j) \/ Finish(j)
      BY <1>2, <2>5 DEF AfterAge, AgeQuery, AgeArchive, ArchiveFile, AgeDelete, Delete, CountArchive,
                        Fail, Finish
    <2> QED
      BY <1>2, <2>1, <2>2, <2>3, <2>4, <2>5 DEF Prune
  <1>3. ASSUME NEW r \in Records, Store(r) PROVE LimitReached'
    BY <1>3 DEF Store
  <1>4. CASE Start \/ Stop \/ StopReturn \/ Tick \/ UNCHANGED vars
    BY <1>4 DEF Start, Stop, StopReturn, Tick, vars
  <1>5. ASSUME NEW j \in Jobs, Fire(j) \/ Prune(j) PROVE LimitReached'
    BY <1>1, <1>2, <1>5
  <1> QED
    BY <1>3, <1>4, <1>5 DEF Next

(* When a query returns all of the records, as with the memory storage or  *)
(* with no more of them than SQLite's limit, a prune that nothing disturbs *)
(* also gets down to MaxRecords; otherwise it need not (pruneByCount).     *)
THEOREM PruneKeepsTheNewest ==
    ASSUME QueryReturnsAll
    PROVE  Spec => []KeepsTheNewest
  <1> DEFINE Inv == NewestInv /\ Cuts /\ LimitReached
  <1>1. Init => Inv
    BY InitTypes DEF Init, NewestInv, AgeCutoffs, CountCutoffs, NewestSurvive, Cuts, LimitReached
  <1>2. Inv /\ [Next]_vars => Inv'
    <2> SUFFICES ASSUME Inv, [Next]_vars PROVE Inv'
      OBVIOUS
    <2>1. NewestInv'
      BY StepNewest
    <2>2. TypeOK /\ TypeOK'
      BY <2>1 DEF NewestInv
    <2> QED
      BY <2>1, <2>2, StepCuts, StepLimit
  <1>3. Inv => KeepsTheNewest
    BY DEF NewestInv, KeepsTheNewest
  <1> QED
    BY <1>1, <1>2, <1>3, PTL DEF Spec

-----------------------------------------------------------------------------
(* What is deleted was archived *)

(* The batch of a job has everything it saw up to its cutoff, and was      *)
(* written to a file before the job gets to its Delete.                    *)
BatchIsComplete ==
    \A j \in Jobs :
       pc[j] \in {"ageArchive", "ageDelete", "countArchive", "countDelete"} /\ Archive =>
          /\ Older(local[j].seen, local[j].cutoff) \subseteq local[j].batch
          /\ pc[j] \in {"ageDelete", "countDelete"} => local[j].batch \subseteq written

DifferentTimes == \A r, s \in Records : RequestTime[r] = RequestTime[s] => r = s

(* Times are numbers. *)
LEMMA NotLaterThanEachOther ==
    ASSUME NEW a \in Records, NEW b \in Records,
           RequestTime[a] <= RequestTime[b], RequestTime[b] <= RequestTime[a]
    PROVE  RequestTime[a] = RequestTime[b]
  BY RetentionAssumption DEF RetentionAssumption

(* An error of the archive ends the prune before it deletes. *)
LEMMA StepBatches ==
    ASSUME QueryReturnsAll, DifferentTimes, TypeOK, TypeOK', BatchIsComplete, [Next]_vars
    PROVE  BatchIsComplete'
  <1> USE DEF TypeOK, BatchIsComplete, storage, Goto, Leave
  <1>0. written \subseteq written'
    BY DEF Next, Store, Fire, Prune, AgeQuery, AgeArchive, ArchiveFile, AgeDelete, Delete, Count, CountQuery,
           CountArchive, CountDelete, Fail, Finish, Start, Stop, StopReturn, Tick, vars
  <1>1. ASSUME NEW j \in Jobs, Fire(j) \/ Prune(j), Archive,
               pc'[j] \in {"ageArchive", "ageDelete", "countArchive", "countDelete"}
        PROVE  /\ Older(local'[j].seen, local'[j].cutoff) \subseteq local'[j].batch
               /\ pc'[j] \in {"ageDelete", "countDelete"} => local'[j].batch \subseteq written'
    <2>1. CASE Fire(j)
      BY <1>1, <2>1 DEF Fire, AfterAge
    <2>2. CASE AgeQuery(j)
      <3>1. PICK found \in Results(Older(stored, local[j].cutoff)) :
               /\ local' = [local EXCEPT ![j].batch = found, ![j].seen = stored]
               /\ Goto(j, IF found = {} THEN "ageDelete" ELSE "ageArchive")
        BY <2>2 DEF AgeQuery
      <3>2. Older(stored, local[j].cutoff) \in SUBSET Records
        BY DEF Older
      <3>3. found = Older(stored, local[j].cutoff)
        BY <3>2, QueryResults
      <3>4. local'[j].batch = found /\ local'[j].seen = stored /\ local'[j].cutoff = local[j].cutoff
        BY <3>1
      <3> QED
        BY <3>1, <3>3, <3>4
    <2>3. CASE AgeArchive(j) \/ CountArchive(j)
      BY <1>1, <2>3 DEF AgeArchive, CountArchive, ArchiveFile
    <2>4. CASE CountQuery(j)
      <3>1. PICK all \in Results(stored) : Cutoff(local'[j], all)
        BY <1>1, <2>4, CountQueryCuts
      <3>2. all = stored /\ local'[j].seen = stored
        BY <3>1, QueryResults DEF Cutoff
      <3>3. pc'[j] = "countArchive"
        BY <1>1, <2>4 DEF CountQuery
      <3>4. ASSUME NEW b \in stored, RequestTime[b] <= local'[j].cutoff, b \notin local'[j].batch
            PROVE  FALSE
        <4>1. PICK a \in local'[j].batch : RequestTime[a] = local'[j].cutoff
          BY <3>1 DEF Cutoff
        <4>2. RequestTime[a] <= RequestTime[b]
          BY <3>1, <3>2, <3>4 DEF Cutoff
        <4>3. RequestTime[a] = RequestTime[b] /\ a \in Records /\ b \in Records
          <5>1. a \in Records /\ b \in Records
            BY <4>1
          <5>2. RequestTime[b] <= RequestTime[a]
            BY <3>4, <4>1
          <5> QED
            BY <4>2, <5>1, <5>2, NotLaterThanEachOther
        <4> QED
          BY <3>4, <4>3 DEF DifferentTimes
      <3> QED
        BY <3>2, <3>3, <3>4 DEF Older
    <2>5. CASE AgeDelete(j) \/ Count(j) \/ CountDelete(j) \/ Fail(j) \/ Finish(j)
      BY <1>1, <2>5 DEF AfterAge, AgeDelete, Delete, Count, CountDelete, Fail, Finish
    <2> QED
      BY <1>1, <2>1, <2>2, <2>3, <2>4, <2>5 DEF Prune
  <1>2. ASSUME NEW j \in Jobs, Fire(j) \/ Prune(j) PROVE BatchIsComplete'
    BY <1>0, <1>1, <1>2, OthersStay
  <1>3. CASE (\E r \in Records : Store(r)) \/ Start \/ Stop \/ StopReturn \/ Tick \/ UNCHANGED vars
    BY <1>3 DEF Store, Start, Stop, StopReturn, Tick, vars
  <1> QED
    BY <1>2, <1>3 DEF Next

(* When the query returns all and no two requests have the same time, a    *)
(* job deletes no record that it could see and did not archive, and none   *)
(* at all when the archive fails (pruneByAge, pruneByCount, archive and    *)
(* archiveRecords of pruner.go).  Of two records with the time of the      *)
(* cutoff one may be left out of the batch and deleted all the same.       *)
THEOREM DeletesOnlyWhatItArchived ==
    ASSUME QueryReturnsAll, DifferentTimes
    PROVE  Spec => ArchivesWhatItSaw
  <1> DEFINE Inv == TypeOK /\ BatchIsComplete
             Step == \A j \in Jobs :
                        Archive /\ pc[j] \in {"ageDelete", "countDelete"} /\ pc'[j] # pc[j]
                           => (deleted' \ deleted) \cap local[j].seen \subseteq written
  <1>1. Init => Inv
    BY InitTypes DEF Init, BatchIsComplete
  <1>2. Inv /\ [Next]_vars => Inv'
    BY StepTypes, StepBatches
  <1>3. Inv /\ [Next]_vars => [Step]_vars
    <2> SUFFICES ASSUME Inv, Next, NEW j \in Jobs, Archive, pc[j] \in {"ageDelete", "countDelete"},
                        pc'[j] # pc[j]
                 PROVE  (deleted' \ deleted) \cap local[j].seen \subseteq written
      OBVIOUS
    <2>1. Fire(j) \/ Prune(j)
      <3>1. CASE \E k \in Jobs : Fire(k) \/ Prune(k)
        BY <3>1, OthersStay
      <3>2. CASE (\E r \in Records : Store(r)) \/ Start \/ Stop \/ StopReturn \/ Tick
        BY <3>2 DEF Store, Start, Stop, StopReturn, Tick
      <3> QED
        BY <3>1, <3>2 DEF Next
    <2>2. CASE AgeDelete(j) \/ CountDelete(j)
      BY <2>2 DEF AgeDelete, CountDelete, Delete, BatchIsComplete, TypeOK, Older
    <2>3. CASE Fail(j)
      BY <2>3 DEF Fail, storage
    <2> QED
      BY <2>1, <2>2, <2>3 DEF Fire, Prune, AgeQuery, AgeArchive, Count, CountQuery, CountArchive, Finish
  <1> QED
    BY <1>1, <1>2, <1>3, PTL DEF Spec, ArchivesWhatItSaw

=============================================================================
