------------------------------ MODULE Retention ------------------------------
(***************************************************************************)
(* Pruning of evidence (pkg/evidence/retention): Prune with its two phases *)
(* run by the cron scheduler, over a storage in which the recorder stores  *)
(* records up to MaxDelay after their RequestTime.                         *)
(*                                                                         *)
(* Query, Count and Delete are one storage operation each, everything else *)
(* happens between them.  QueryLimit is the LIMIT of SQLiteStorage.Query   *)
(* for a query that sets none (0: MemoryStorage, which has none).  Cron    *)
(* starts a job whether or not the previous one has ended.                 *)
(***************************************************************************)
EXTENDS Integers, FiniteSets, FiniteSetsExt

CONSTANTS
    Records,        \* the records that are stored, each once
    RequestTime,    \* record -> time of its request
    Jobs,           \* goroutines of cron that run runPruning
    RetentionTime,  \* RetentionDays, 0: keep for ever
    MaxRecords,     \* 0: unlimited
    Archive,        \* ArchiveBeforeDelete
    QueryLimit,     \* 100 for SQLite, 0 for the memory storage
    Day,            \* ticks of the clock per day
    MaxDelay,       \* how long the recorder may hold a record back
    MaxTime         \* bound on the clock

ASSUME RetentionAssumption ==
    /\ IsFiniteSet(Records) /\ IsFiniteSet(Jobs)
    /\ RequestTime \in [Records -> Nat]
    /\ RetentionTime \in Nat /\ MaxRecords \in Nat /\ QueryLimit \in Nat
    /\ Archive \in BOOLEAN
    /\ MaxDelay \in Nat /\ (RetentionTime > 0 => MaxDelay < RetentionTime)
    /\ Day \in Nat \ {0} /\ MaxTime \in Nat

VARIABLES
    now,
    stored,     \* the records in the storage
    deleted,    \* the records that were deleted from it
    files,      \* archive files that exist: [kind, stamp, holds]
    pc,         \* where each job is
    local,      \* its variables cutoff and batch, and for the properties what
                \* its last query could have seen
    scheduler,  \* "stopped", "running", or "stopping" while Stop waits
    written,    \* history: records an archive was written with
    calm        \* history: jobs since whose start no record was stored

storage == <<stored, deleted>>
vars == <<now, storage, files, pc, local, scheduler, written, calm>>

States == {"idle", "ageQuery", "ageArchive", "ageDelete", "count", "countQuery",
           "countArchive", "countDelete", "done"}
NoLocal == [cutoff |-> 0, batch |-> {}, seen |-> {}]
Files == [kind : {"age", "count"}, stamp : Nat, holds : SUBSET Records]

(* Records, jobs and archives keep their types; only stored records can be deleted. *)
TypeOK ==
    /\ now \in 0..MaxTime
    /\ stored \subseteq Records /\ deleted \subseteq Records \ stored
    /\ files \subseteq Files
    /\ pc \in [Jobs -> States]
    /\ local \in [Jobs -> [cutoff : Int, batch : SUBSET Records, seen : SUBSET Records]]
    /\ scheduler \in {"stopped", "running", "stopping"}
    /\ written \subseteq Records /\ calm \subseteq Jobs

Init ==
    /\ now = 0
    /\ stored = {} /\ deleted = {} /\ files = {}
    /\ pc = [j \in Jobs |-> "idle"]
    /\ local = [j \in Jobs |-> NoLocal]
    /\ scheduler = "stopped"
    /\ written = {} /\ calm = {}

-----------------------------------------------------------------------------
(* The storage *)

Older(rs, t) == {r \in rs : RequestTime[r] <= t}

(* What a query over rs may return: with a limit, the newest records. *)
Results(rs) ==
    IF QueryLimit = 0 \/ Cardinality(rs) <= QueryLimit THEN {rs}
    ELSE {new \in kSubset(QueryLimit, rs) :
            \A a \in new, b \in rs \ new : RequestTime[b] <= RequestTime[a]}

(* The n first records after sortRecordsByTime. *)
Oldest(rs, n) ==
    {old \in kSubset(n, rs) : \A a \in old, b \in rs \ old : RequestTime[a] <= RequestTime[b]}

(* os.Create truncates a file of the same name. *)
Written(kind, stamp, holds) ==
    {f \in files : f.kind # kind \/ f.stamp # stamp}
      \cup {[kind |-> kind, stamp |-> stamp, holds |-> holds]}

Goto(j, state) == pc' = [pc EXCEPT ![j] = state]

(* The prune of j ends. *)
Leave(j) == Goto(j, "idle") /\ local' = [local EXCEPT ![j] = NoLocal]

AfterAge == IF MaxRecords > 0 THEN "count" ELSE "done"

(* Faulty variants *)

(* the error of archive is logged and ignored *)
ArchiveFileIgnored(j, kind, stamp, next) ==
    /\ \/ /\ files' = Written(kind, stamp, local[j].batch)
          /\ written' = written \cup local[j].batch
       \/ UNCHANGED <<files, written>>
    /\ Goto(j, next)
    /\ UNCHANGED <<now, storage, local, scheduler, calm>>

(* the number to delete is one too high, or too low *)
ExcessOneMore(rs) == Cardinality(rs) - MaxRecords + 1
ExcessOneLess(rs) == Cardinality(rs) - MaxRecords - 1

(* Stop does not wait on the context that cron.Stop returns *)
StopReturnEarly ==
    /\ scheduler = "stopping"
    /\ scheduler' = "stopped"
    /\ UNCHANGED <<now, storage, files, pc, local, written, calm>>

-----------------------------------------------------------------------------
(* The recorder stores a record, some time after its request. *)
Store(r) ==
    /\ r \notin stored \cup deleted
    /\ now \in RequestTime[r]..(RequestTime[r] + MaxDelay)
    /\ stored' = stored \cup {r}
    /\ calm' = {}
    /\ UNCHANGED <<now, deleted, files, pc, local, scheduler, written>>

(* cron starts a job: Prune, and the cutoff of pruneByAge *)
Fire(j) ==
    /\ scheduler = "running"
    /\ pc[j] = "idle"
    /\ Goto(j, CASE RetentionTime > 0 /\ Archive -> "ageQuery"
                 [] RetentionTime > 0 /\ ~Archive -> "ageDelete"
                 [] OTHER -> AfterAge)
    /\ local' = [local EXCEPT ![j].cutoff = now - RetentionTime]
    /\ calm' = calm \cup {j}
    /\ UNCHANGED <<now, storage, files, scheduler, written>>

(* archive: the query *)
AgeQuery(j) ==
    /\ pc[j] = "ageQuery"
    /\ \E found \in Results(Older(stored, local[j].cutoff)) :
          /\ local' = [local EXCEPT ![j].batch = found, ![j].seen = stored]
          /\ Goto(j, IF found = {} THEN "ageDelete" ELSE "ageArchive")
    /\ UNCHANGED <<now, storage, files, scheduler, written, calm>>

(* An archive file is written, cannot be created, or is left truncated     *)
(* when the export fails; an error ends the prune.                         *)
ArchiveFile(j, kind, stamp, next) ==
    /\ \/ /\ files' = Written(kind, stamp, local[j].batch)
          /\ written' = written \cup local[j].batch
          /\ Goto(j, next)
          /\ UNCHANGED local
       \/ /\ files' \in {files, Written(kind, stamp, {})}
          /\ Leave(j)
          /\ UNCHANGED written
    /\ UNCHANGED <<now, storage, scheduler, calm>>

(* archive: one file for the day *)
AgeArchive(j) == pc[j] = "ageArchive" /\ ArchiveFile(j, "age", now \div Day, "ageDelete")

Delete(j, next) ==
    /\ stored' = stored \ Older(stored, local[j].cutoff)
    /\ deleted' = deleted \cup Older(stored, local[j].cutoff)
    /\ Goto(j, next)
    /\ UNCHANGED <<now, files, local, scheduler, written, calm>>

AgeDelete(j) == pc[j] = "ageDelete" /\ Delete(j, AfterAge)

(* pruneByCount: Count *)
Count(j) ==
    /\ pc[j] = "count"
    /\ Goto(j, IF Cardinality(stored) <= MaxRecords THEN "done" ELSE "countQuery")
    /\ UNCHANGED <<now, storage, files, local, scheduler, written, calm>>

(* actualToDelete *)
Excess(rs) == Cardinality(rs) - MaxRecords

(* pruneByCount: Query, the sort and the cutoff *)
CountQuery(j) ==
    /\ pc[j] = "countQuery"
    /\ \E all \in Results(stored) :
          \/ Excess(all) <= 0 /\ Goto(j, "done") /\ UNCHANGED local
          \/ /\ Excess(all) > 0
             /\ \E old \in Oldest(all, Excess(all)) :
                   local' = [local EXCEPT ![j] =
                               [cutoff |-> Max({RequestTime[r] : r \in old}),
                                batch |-> old, seen |-> stored]]
             /\ Goto(j, IF Archive THEN "countArchive" ELSE "countDelete")
    /\ UNCHANGED <<now, storage, files, scheduler, written, calm>>

(* archiveRecords: the name has the second *)
CountArchive(j) == pc[j] = "countArchive" /\ ArchiveFile(j, "count", now, "countDelete")

CountDelete(j) == pc[j] = "countDelete" /\ Delete(j, "done")

(* A storage operation returns an error, which ends the prune. *)
Fail(j) ==
    /\ pc[j] \in {"ageQuery", "ageDelete", "count", "countQuery", "countDelete"}
    /\ Leave(j)
    /\ UNCHANGED <<now, storage, files, scheduler, written, calm>>

(* runPruning returns. *)
Finish(j) ==
    /\ pc[j] = "done"
    /\ Leave(j)
    /\ UNCHANGED <<now, storage, files, scheduler, written, calm>>

Prune(j) ==
    \/ AgeQuery(j) \/ AgeArchive(j) \/ AgeDelete(j)
    \/ Count(j) \/ CountQuery(j) \/ CountArchive(j) \/ CountDelete(j)
    \/ Fail(j) \/ Finish(j)

-----------------------------------------------------------------------------
(* The scheduler.  Stop holds the mutex, so Start cannot overtake it; a    *)
(* second Start adds a second cron entry, and Jobs has room for its jobs.  *)

Start ==
    /\ scheduler # "stopping"
    /\ scheduler' = "running"
    /\ UNCHANGED <<now, storage, files, pc, local, written, calm>>

(* Stop, when running: cron starts no more jobs *)
Stop ==
    /\ scheduler = "running"
    /\ scheduler' = "stopping"
    /\ UNCHANGED <<now, storage, files, pc, local, written, calm>>

(* the context of cron.Stop is done when its jobs are *)
StopReturn ==
    /\ scheduler = "stopping"
    /\ \A j \in Jobs : pc[j] = "idle"
    /\ scheduler' = "stopped"
    /\ UNCHANGED <<now, storage, files, pc, local, written, calm>>

Tick ==
    /\ now < MaxTime
    /\ now' = now + 1
    /\ UNCHANGED <<storage, files, pc, local, scheduler, written, calm>>

Next ==
    \/ \E r \in Records : Store(r)
    \/ \E j \in Jobs : Fire(j) \/ Prune(j)
    \/ Start
    \/ Stop
    \/ StopReturn
    \/ Tick

Spec == Init /\ [][Next]_vars

-----------------------------------------------------------------------------
(* Properties *)

(* A record is deleted only when it has expired or when MaxRecords others, *)
(* at least as new, have been stored.                                      *)
NewestSurvive ==
    \A r \in deleted :
       \/ RetentionTime > 0 /\ RequestTime[r] <= now - RetentionTime
       \/ /\ MaxRecords > 0
          /\ Cardinality({s \in (stored \cup deleted) \ {r} :
                            RequestTime[s] >= RequestTime[r]}) >= MaxRecords

(* "ArchiveBeforeDelete enables archiving evidence before deletion"        *)
(* (pruner.go:25): a job deletes no record that was stored when it made    *)
(* its query and that it has not archived; in particular it deletes        *)
(* nothing when the archive fails.  The query must have returned all.      *)
ArchivesWhatItSaw ==
    [][\A j \in Jobs :
          Archive /\ pc[j] \in {"ageDelete", "countDelete"} /\ pc'[j] # pc[j]
             => (deleted' \ deleted) \cap local[j].seen \subseteq written]_vars

(* A prune that ends without an error, and during which nothing was        *)
(* stored, leaves at most MaxRecords: "MaxRecords is the maximum number of *)
(* records to keep" (pruner.go:31).                                        *)
LimitReached ==
    \A j \in Jobs :
       pc[j] = "done" /\ j \in calm /\ MaxRecords > 0 => Cardinality(stored) <= MaxRecords

(* Prune keeps the newest MaxRecords and no others: overlapping jobs,      *)
(* records that come in between and cutoffs that are stale never cost a    *)
(* record its place among them, and a prune that nothing disturbs gets     *)
(* down to the limit (pruner.go:151-260).                                  *)
KeepsTheNewest == NewestSurvive /\ LimitReached

(* Stop returns only when no job runs, so that the storage can be closed.  *)
NoJobAfterStop == scheduler = "stopped" => \A j \in Jobs : pc[j] = "idle"

-----------------------------------------------------------------------------
(* What the comments say and the code does not do *)

(* pruner.go:25, "ArchiveBeforeDelete enables archiving evidence before     *)
(* deletion": what a job deletes of the records it could see is in a file  *)
(* when it is deleted.  Both the LIMIT of the query and the truncation of  *)
(* an earlier file of the day break this.                                  *)
DeletedIsArchived ==
    [][\A j \in Jobs :
          Archive /\ pc[j] \in {"ageDelete", "countDelete"} /\ pc'[j] # pc[j]
             => (deleted' \ deleted) \cap local[j].seen \subseteq UNION {f.holds : f \in files}]_vars
=============================================================================
