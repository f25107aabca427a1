------------------------ MODULE PolicyManager_proofs ------------------------
(***************************************************************************)
(* The policy manager for any number of policy files, any history of       *)
(* changes, any number of reloads at once, of operations and of errors: an *)
(* older load never replaces a newer one, and when all is at rest what is  *)
(* served is what is on disk.                                              *)
(***************************************************************************)
EXTENDS PolicyManager, FiniteSetTheorems, WellFoundedInduction, TLAPS

Commits == 0..MaxChanges
Versions == {Content(n)[f] : n \in Commits, f \in Files}

ManagerTypes ==
    /\ config \in Configurations
    /\ pushed \in Commits /\ head \in Commits /\ fetched \in Commits /\ lastCommitSHA \in Commits
    /\ timer \in Commits \cup {NoTimer} /\ events \in Nat
    /\ poll \in [at : {"idle", "pulled"}, from : Commits, to : Commits]
    /\ worker \in [Workers -> [at : {"idle", "lock", "read", "record", "rollback"}, sha : Commits, from : Commits,
                               then : {"end", "record", "undo"}, read : Seq(Versions)]]
    /\ missed \in BOOLEAN /\ rewound \subseteq {"served", "reading"}

(* The tree is a checkout of the commit it is said to be, or the directory *)
(* with all edits so far; nobody rolls a directory back.                   *)
TreeIsCommit ==
    /\ mode = "git" => tree = Content(head)
    /\ mode = "file" => tree = Content(pushed) /\ \A w \in Workers : worker[w].then = "end"

(* The manager's mutex. *)
OneReader == \A w \in Workers : worker[w].at = "read" => managerLock = w

(* Something will start a reload later. *)
Coming ==
    \/ timer # NoTimer \/ events > 0
    \/ poll.at = "pulled" /\ Content(poll.from) # Content(poll.to)
    \/ \E w \in Workers : worker[w].at = "lock"

(* What the reload of w has read so far is what is on disk. *)
Fresh(w) == \A i \in DOMAIN worker[w].read : worker[w].read[i] = tree[SetToSeq(Files)[i]]

(* When nothing starts a reload later, the last one has been or is reading *)
(* the tree as it is.                                                      *)
UpToDate ==
    \/ Coming
    \/ /\ \A w \in Workers : worker[w].at = "read" => Fresh(w)
       /\ \/ registry = tree \/ ~Good(tree)
          \/ \E w \in Workers : worker[w].at = "read"

(* A reload that waits for the mutex has read nothing. *)
StartsAnew == \A w \in Workers : worker[w].at = "lock" => worker[w].read = <<>>

InStep == ManagerTypes /\ TreeIsCommit /\ OneReader /\ StartsAnew /\ (watch = "on" /\ ~missed => UpToDate)

-----------------------------------------------------------------------------
(* Files and contents *)

(* LoadFromDirectory reads every file. *)
LEMMA EveryFileIsRead ==
    /\ Cardinality(Files) \in Nat
    /\ \A i \in 1..Cardinality(Files) : SetToSeq(Files)[i] \in Files
    /\ \A f \in Files : \E i \in 1..Cardinality(Files) : SetToSeq(Files)[i] = f
  <1> DEFINE n == Cardinality(Files)
             o == SetToSeq(Files)
  <1>1. IsFiniteSet(Files)
    BY HistoriesAssumption DEF HistoriesAssumption
  <1>2. n \in Nat /\ Bijection(1..n, Files) # {}
    BY <1>1, FS_CardinalityType DEF ExistsBijection
  <1>3. \E g \in [1..n -> Files] : IsInjective(g)
    BY <1>2 DEF Bijection, Injection
  <1>4. o \in [1..n -> Files] /\ IsInjective(o)
    BY <1>3 DEF SetToSeq
  <1>5. o \in Injection(1..n, Files)
    BY <1>4 DEF Injection
  <1>6. Cardinality(1..n) = n
    BY <1>2, FS_Interval
  <1>7. o \in Surjection(1..n, Files)
    BY <1>1, <1>5, <1>6, FS_Injection
  <1> QED
    BY <1>2, <1>4, <1>7 DEF Surjection

(* Before the first change every file has its first version, which is good. *)
LEMMA FirstContent == \A f \in Files : Content(0)[f] = 0
  <1>1. \A f \in Files : {0} \cup {k \in 1..0 : history[k].file = f} = {0}
    OBVIOUS
  <1>2. Max({0}) = 0
    BY DEF Max
  <1> QED
    BY <1>1, <1>2 DEF Content

(* A change writes its file and no other. *)
LEMMA NextContent ==
    ASSUME NEW n \in Nat
    PROVE  Content(n + 1) = IF history[n + 1].file \in Files
                            THEN [Content(n) EXCEPT ![history[n + 1].file] = n + 1] ELSE Content(n)
  <1> DEFINE W(m, f) == {0} \cup {k \in 1..m : history[k].file = f}
  <1>1. ASSUME NEW f \in Files, history[n + 1].file # f
        PROVE  W(n + 1, f) = W(n, f)
    BY <1>1
  <1>2. ASSUME NEW f \in Files, history[n + 1].file = f
        PROVE  Max(W(n + 1, f)) = n + 1
    <2>1. n + 1 \in W(n + 1, f) /\ \A y \in W(n + 1, f) : n + 1 >= y /\ y \in Int
      BY <1>2
    <2>2. \A x \in W(n + 1, f) : (\A y \in W(n + 1, f) : x >= y) => x = n + 1
      BY <2>1
    <2> HIDE DEF W
    <2> QED
      BY <2>1, <2>2 DEF Max
  <1>3. Content(n + 1) = [f \in Files |-> Max(W(n + 1, f))] /\ Content(n) = [f \in Files |-> Max(W(n, f))]
    BY DEF Content
  <1> HIDE DEF W
  <1> QED
    BY <1>1, <1>2, <1>3

(* The configuration says which source there is. *)
LEMMA ConfigurationType ==
    ASSUME config \in Configurations
    PROVE  mode \in {"file", "git"} /\ Len(history) \in Nat /\ Len(history) <= MaxChanges
  <1>1. config \in Configuration /\ Len(config.history) <= MaxChanges
    BY HistoriesAssumption DEF HistoriesAssumption
  <1> QED
    BY <1>1 DEF Configuration, mode, history

(* Contents are made of versions. *)
LEMMA ContentType == \A n \in Commits : Content(n) \in [Files -> Versions]
  BY DEF Content, Versions

-----------------------------------------------------------------------------
(* Replacing *)

(* A reload that read the tree as it is puts the tree in the registry, or  *)
(* the tree is not good.                                                   *)
LEMMA ReplaceLoaded ==
    ASSUME NEW versions \in Seq(Versions), Len(versions) = Cardinality(Files),
           NEW t \in [Files -> Versions], \A i \in DOMAIN versions : versions[i] = t[SetToSeq(Files)[i]]
    PROVE  Replace(versions) = t /\ (~Loads(versions) => ~Good(t))
  <1> DEFINE at(f) == CHOOSE i \in DOMAIN versions : SetToSeq(Files)[i] = f
  <1>1. DOMAIN versions = 1..Cardinality(Files)
    BY EveryFileIsRead
  <1>2. \A f \in Files : at(f) \in DOMAIN versions /\ SetToSeq(Files)[at(f)] = f
    BY <1>1, EveryFileIsRead
  <1>3. Replace(versions) = [f \in Files |-> versions[at(f)]]
    BY DEF Replace
  <1> HIDE DEF at
  <1>4. Replace(versions) = t
    BY <1>2, <1>3
  <1>5. ~Loads(versions) => ~Good(t)
    BY <1>1, EveryFileIsRead DEF Loads, validatePolicies, Good
  <1> QED
    BY <1>4, <1>5

-----------------------------------------------------------------------------
(* Types and trees *)

(* The history is what it is. *)
LEMMA HistoryStays ==
    ASSUME [ManagerNext]_managerVars
    PROVE  /\ config' = config /\ history' = history /\ mode' = mode
           /\ Versions' = Versions /\ (\A n : Content(n)' = Content(n)) /\ (\A c : Good(c)' = Good(c))
  <1>0. config' = config
    BY DEF ManagerNext, WatchStep, ReloadStep, LoadError, Change, Pull, checkForChanges, TriggerDebouncer, ForceSync, Close,
           ReloadPolicies, LoadFromFile, FinishReload, performReload, rollbackToPrevious, TimerFires, RollbackToCommit,
           managerVars
  <1>1. history' = history /\ mode' = mode /\ validation' = validation
    BY <1>0 DEF history, mode, validation
  <1>2. \A v : Parses(v)' = Parses(v) /\ Valid(v)' = Valid(v)
    BY <1>1 DEF Parses, Valid
  <1> QED
    BY <1>0, <1>1, <1>2, SMTT(60) DEF Versions, Content, Good

Reload == [at : {"idle", "lock", "read", "record", "rollback"}, sha : Commits, from : Commits,
           then : {"end", "record", "undo"}, read : Seq(Versions)]

(* What a worker may become. *)
LEMMA ReloadTypes ==
    /\ 0 \in Commits /\ Idle \in Reload
    /\ \A then \in {"end", "record", "undo"}, sha \in Commits, from \in Commits :
          [at |-> "lock", sha |-> sha, from |-> from, then |-> then, read |-> <<>>] \in Reload
  <1>1. 0 \in Commits /\ <<>> \in Seq(Versions)
    BY HistoriesAssumption DEF HistoriesAssumption, Commits
  <1> QED
    BY <1>1 DEF Reload, Idle

(* What a reload that ends leaves of it. *)
LEMMA ReloadEnds ==
    ASSUME NEW r \in Reload, NEW e, e = AfterSuccess(r) \/ e = AfterError(r)
    PROVE  e \in Reload /\ e.then \in {"end", r.then} /\ e.at \notin {"read", "lock"} /\ e.read = <<>>
  <1>1. Idle \in Reload /\ Idle.then = "end" /\ Idle.at = "idle" /\ Idle.read = <<>>
    BY ReloadTypes DEF Idle
  <1>2. <<>> \in Seq(Versions)
    OBVIOUS
  <1>3. ASSUME NEW at \in {"record", "rollback"}, e = [r EXCEPT !.at = at, !.read = <<>>]
        PROVE  e \in Reload /\ e.then = r.then /\ e.at = at /\ e.read = <<>>
    BY <1>2, <1>3 DEF Reload
  <1>4. e = Idle \/ \E at \in {"record", "rollback"} : e = [r EXCEPT !.at = at, !.read = <<>>]
    BY DEF AfterSuccess, AfterError
  <1> QED
    BY <1>1, <1>3, <1>4

(* The step by which a reload ends, well or not. *)
EndReload(w, e) ==
    /\ e = AfterSuccess(worker[w]) \/ e = AfterError(worker[w])
    /\ worker[w].at = "read" /\ worker' = [worker EXCEPT ![w] = e] /\ managerLock' = Nobody
    /\ rewound' \in {rewound, {"served"}, {}} /\ missed' \in {missed, TRUE}
    /\ UNCHANGED <<config, pushed, head, fetched, tree, lastCommitSHA, timer, poll, events, operations, watch>>

(* A load that fails ends a reload as its last step does. *)
LEMMA ReloadStepEnds ==
    ASSUME NEW w, FinishReload(w) \/ LoadError(w)
    PROVE  \E e : EndReload(w, e)
  <1>1. CASE FinishReload(w) /\ Loads(worker[w].read)
    BY <1>1 DEF FinishReload, EndReload
  <1>2. CASE FinishReload(w) /\ ~Loads(worker[w].read)
    BY <1>2 DEF FinishReload, EndReload
  <1>3. CASE LoadError(w)
    BY <1>3 DEF LoadError, EndReload
  <1> QED
    BY <1>1, <1>2, <1>3

Base == ManagerTypes /\ TreeIsCommit

(* Every step keeps the types, and the tree a commit. *)
LEMMA StepBase ==
    ASSUME Base, [ManagerNext]_managerVars
    PROVE  Base'
  <1> USE DEF Base
  <1>1. config' = config /\ history' = history /\ mode' = mode /\ Versions' = Versions /\ \A n : Content(n)' = Content(n)
    BY HistoryStays
  <1>2. /\ config \in Configurations /\ mode \in {"file", "git"}
        /\ pushed \in Commits /\ head \in Commits /\ fetched \in Commits /\ lastCommitSHA \in Commits
        /\ timer \in Commits \cup {NoTimer} /\ events \in Nat
        /\ poll \in [at : {"idle", "pulled"}, from : Commits, to : Commits]
        /\ worker \in [Workers -> Reload] /\ missed \in BOOLEAN /\ rewound \subseteq {"served", "reading"}
    BY ConfigurationType DEF ManagerTypes, Reload
  <1>3. Reload' = Reload
    BY <1>1 DEF Reload, Commits
  <1>4. MaxChanges \in Nat /\ Commits \subseteq Nat /\ 0 \in Commits /\ NoPull \in [at : {"idle", "pulled"}, from : Commits, to : Commits]
    BY HistoriesAssumption DEF HistoriesAssumption, Commits, NoPull
  <1>5. SUFFICES /\ pushed' \in Commits /\ head' \in Commits /\ fetched' \in Commits /\ lastCommitSHA' \in Commits
                 /\ timer' \in Commits \cup {NoTimer} /\ events' \in Nat
                 /\ poll' \in [at : {"idle", "pulled"}, from : Commits, to : Commits]
                 /\ worker' \in [Workers -> Reload] /\ missed' \in BOOLEAN /\ rewound' \subseteq {"served", "reading"}
                 /\ mode = "git" => tree' = Content(head')
                 /\ mode = "file" => tree' = Content(pushed') /\ \A w \in Workers : worker'[w].then = "end"
    <2>1. Content(head)' = Content(head') /\ Content(pushed)' = Content(pushed')
      BY <1>1 DEF Content
    <2>2. Workers' = Workers /\ Commits' = Commits /\ NoTimer' = NoTimer
      BY DEF Workers, Commits, NoTimer
    <2>3. ManagerTypes'
      BY <1>1, <1>2, <1>3, <1>5, <2>2 DEF ManagerTypes, Reload
    <2> QED
      BY <1>1, <1>5, <2>1, <2>2, <2>3 DEF TreeIsCommit
  <1>6. /\ mode = "git" => tree = Content(head)
        /\ mode = "file" => tree = Content(pushed) /\ \A w \in Workers : worker[w].then = "end"
    BY DEF TreeIsCommit
  <1> DEFINE Goal == /\ pushed' \in Commits /\ head' \in Commits /\ fetched' \in Commits /\ lastCommitSHA' \in Commits
                     /\ timer' \in Commits \cup {NoTimer} /\ events' \in Nat
                     /\ poll' \in [at : {"idle", "pulled"}, from : Commits, to : Commits]
                     /\ worker' \in [Workers -> Reload] /\ missed' \in BOOLEAN /\ rewound' \subseteq {"served", "reading"}
                     /\ mode = "git" => tree' = Content(head')
                     /\ mode = "file" => tree' = Content(pushed') /\ \A w \in Workers : worker'[w].then = "end"
  <1>7. CASE Change
    <2>1. pushed' = pushed + 1 /\ pushed' \in Commits /\ pushed \in Nat
      BY <1>2, <1>4, <1>7, ConfigurationType DEF Change, Commits
    <2>2. CASE mode = "git"
      BY <1>2, <1>6, <1>7, <2>1, <2>2 DEF Change
    <2>3. CASE mode = "file"
      <3> DEFINE f == history[pushed'].file
      <3>1. tree' = IF f \in Files THEN [tree EXCEPT ![f] = pushed'] ELSE tree
        BY <1>7, <2>3 DEF Change
      <3>2. tree' = Content(pushed')
        BY <1>6, <2>1, <2>3, <3>1, NextContent
      <3>3. events' \in Nat
        BY <1>2, <1>7, <2>3 DEF Change
      <3> QED
        BY <1>2, <1>6, <1>7, <2>1, <2>3, <3>2, <3>3 DEF Change
    <2> QED
      BY <1>2, <2>2, <2>3
  <1>8. CASE Pull
    BY <1>2, <1>8 DEF Pull, Checkout, Rewinding
  <1>9. CASE checkForChanges
    BY <1>2, <1>4, <1>6, <1>9 DEF checkForChanges, debounceReload
  <1>10. CASE TriggerDebouncer
    BY <1>2, <1>4, <1>6, <1>10 DEF TriggerDebouncer
  <1>11. CASE ForceSync
    <2>1. mode = "git" /\ Operator \in Workers
      BY <1>11 DEF ForceSync, Workers
    <2>2. worker' \in [Workers -> Reload]
      BY <1>2, <1>4, <1>11, <2>1, ReloadTypes DEF ForceSync, Begin
    <2> QED
      BY <1>2, <1>11, <2>1, <2>2 DEF ForceSync, Checkout, Rewinding
  <1>12. CASE Close
    BY <1>2, <1>6, <1>12 DEF Close, StopGitWatcher, StopFileWatcher
  <1>13. ASSUME NEW w \in Workers, ReloadPolicies(w)
         PROVE  Goal
    <2>1. worker' = [worker EXCEPT ![w].at = "read"]
      BY <1>13 DEF ReloadPolicies
    <2>2. worker[w] \in Reload /\ [worker[w] EXCEPT !.at = "read"] \in Reload /\ [worker[w] EXCEPT !.at = "read"].then = worker[w].then
      BY <1>2 DEF Reload
    <2>3. worker' \in [Workers -> Reload] /\ (mode = "file" => \A v \in Workers : worker'[v].then = "end")
      BY <1>2, <1>6, <2>1, <2>2
    <2> QED
      BY <1>2, <1>6, <1>13, <2>3 DEF ReloadPolicies
  <1>14. ASSUME NEW w \in Workers, LoadFromFile(w)
         PROVE  Goal
    <2> DEFINE f == SetToSeq(Files)[Len(worker[w].read) + 1]
    <2>1. worker' = [worker EXCEPT ![w].read = Append(@, tree[f])] /\ Len(worker[w].read) < Cardinality(Files)
      BY <1>14 DEF LoadFromFile
    <2>2. worker[w] \in Reload /\ worker[w].read \in Seq(Versions) /\ Len(worker[w].read) \in Nat
      BY <1>2 DEF Reload
    <2>3. f \in Files
      BY <2>1, <2>2, EveryFileIsRead
    <2>4. tree[f] \in Versions
      BY <1>2, <1>6, <2>3, ContentType
    <2>5. [worker[w] EXCEPT !.read = Append(@, tree[f])] \in Reload
          /\ [worker[w] EXCEPT !.read = Append(@, tree[f])].then = worker[w].then
      BY <2>2, <2>4 DEF Reload
    <2>6. worker' \in [Workers -> Reload] /\ (mode = "file" => \A v \in Workers : worker'[v].then = "end")
      BY <1>2, <1>6, <2>1, <2>5
    <2> QED
      BY <1>2, <1>6, <1>14, <2>6 DEF LoadFromFile
  <1>15. ASSUME NEW w \in Workers, FinishReload(w) \/ LoadError(w)
         PROVE  Goal
    <2>1. PICK e : EndReload(w, e)
      BY <1>15, ReloadStepEnds
    <2>2. e \in Reload /\ e.then \in {"end", worker[w].then}
      BY <1>2, <2>1, ReloadEnds DEF EndReload
    <2>3. worker' \in [Workers -> Reload] /\ (mode = "file" => \A v \in Workers : worker'[v].then = "end")
      BY <1>2, <1>6, <2>1, <2>2 DEF EndReload
    <2> QED
      BY <1>2, <1>6, <2>1, <2>3 DEF EndReload
  <1>16. ASSUME NEW w \in Workers, performReload(w)
         PROVE  Goal
    <2>1. worker' \in [Workers -> Reload] /\ (mode = "file" => \A v \in Workers : worker'[v].then = "end")
      BY <1>2, <1>6, <1>16, ReloadTypes DEF performReload, Idle
    <2>2. worker[w].sha \in Commits
      BY <1>2 DEF Reload
    <2> QED
      BY <1>2, <1>6, <1>16, <2>1, <2>2 DEF performReload
  <1>17. ASSUME NEW w \in Workers, rollbackToPrevious(w)
         PROVE  Goal
    <2>1. worker[w].from \in Commits
      BY <1>2 DEF Reload
    <2>2. worker' \in [Workers -> Reload] /\ (mode = "file" => \A v \in Workers : worker'[v].then = "end")
      BY <1>2, <1>4, <1>6, <1>17, ReloadTypes DEF rollbackToPrevious, Begin, Idle
    <2> QED
      BY <1>2, <1>6, <1>17, <2>1, <2>2 DEF rollbackToPrevious, Checkout, Rewinding
  <1>18. ASSUME NEW j \in Jobs, TimerFires(j)
         PROVE  Goal
    <2>1. j \in Workers /\ timer \in Commits
      BY <1>2, <1>18 DEF TimerFires, Workers
    <2>2. worker' \in [Workers -> Reload] /\ (mode = "file" => \A v \in Workers : worker'[v].then = "end")
      BY <1>2, <1>4, <1>6, <1>18, <2>1, ReloadTypes DEF TimerFires, Begin
    <2> QED
      BY <1>2, <1>6, <1>18, <2>2 DEF TimerFires
  <1>19. ASSUME NEW n \in 0..MaxChanges, RollbackToCommit(n)
         PROVE  Goal
    <2>1. mode = "git" /\ Operator \in Workers /\ n \in Commits
      BY <1>19 DEF RollbackToCommit, Workers, Commits
    <2>2. worker' \in [Workers -> Reload]
      BY <1>2, <1>4, <1>19, <2>1, ReloadTypes DEF RollbackToCommit, Begin
    <2> QED
      BY <1>2, <1>19, <2>1, <2>2 DEF RollbackToCommit, Checkout, Rewinding
  <1>20. CASE UNCHANGED managerVars
    BY <1>2, <1>6, <1>20 DEF managerVars
  <1> QED
    BY <1>7, <1>8, <1>9, <1>10, <1>11, <1>12, <1>13, <1>14, <1>15, <1>16, <1>17, <1>18, <1>19, <1>20
       DEF ManagerNext, WatchStep, ReloadStep

(* The first load has the types, and the tree is the first commit. *)
LEMMA InitBase == ManagerInit => Base
  <1> SUFFICES ASSUME ManagerInit PROVE Base
    OBVIOUS
  <1>1. 0 \in Commits /\ Idle \in Reload
    BY ReloadTypes
  <1>2. ManagerTypes
    BY <1>1, ConfigurationType DEF ManagerInit, Clone, LoadPolicies, Watch, ManagerTypes, Reload, NoPull
  <1>3. TreeIsCommit
    BY DEF ManagerInit, Clone, TreeIsCommit, Idle
  <1> QED
    BY <1>2, <1>3 DEF Base

-----------------------------------------------------------------------------
(* In step *)

(* The mutex lets one reload read at a time. *)
LEMMA StepReader ==
    ASSUME Base, OneReader, [ManagerNext]_managerVars
    PROVE  OneReader'
  <1>1. worker \in [Workers -> Reload]
    BY DEF Base, ManagerTypes, Reload
  <1>2. \A w \in Workers : worker[w].at = "read" => managerLock = w
    BY DEF OneReader
  <1>3. Nobody \notin Workers /\ Jobs \subseteq Workers /\ Operator \in Workers
    BY HistoriesAssumption DEF HistoriesAssumption, Nobody, Workers, Jobs, Operator
  <1> SUFFICES \A v \in Workers : worker'[v].at = "read" => managerLock' = v
    BY DEF OneReader, Workers
  <1>4. CASE worker' = worker /\ managerLock' = managerLock
    BY <1>2, <1>4
  <1>5. ASSUME \A v \in Workers : worker'[v] = worker[v] \/ worker'[v].at # "read", managerLock' = managerLock
        PROVE  \A v \in Workers : worker'[v].at = "read" => managerLock' = v
    BY <1>2, <1>5
  <1>6. CASE ForceSync
    <2>1. \A v \in Workers : worker'[v] = worker[v] \/ worker'[v].at # "read"
      BY <1>1, <1>3, <1>6 DEF ForceSync, Begin
    <2> QED
      BY <1>5, <1>6, <2>1 DEF ForceSync
  <1>7. ASSUME NEW w \in Workers, ReloadPolicies(w)
        PROVE  \A v \in Workers : worker'[v].at = "read" => managerLock' = v
    <2>1. \A v \in Workers : worker[v].at # "read"
      BY <1>2, <1>3, <1>7 DEF ReloadPolicies
    <2> QED
      BY <1>1, <1>7, <2>1 DEF ReloadPolicies
  <1>8. ASSUME NEW w \in Workers, LoadFromFile(w)
        PROVE  \A v \in Workers : worker'[v].at = "read" => managerLock' = v
    <2>1. \A v \in Workers : worker'[v].at = worker[v].at
      BY <1>1, <1>8 DEF LoadFromFile, Reload
    <2> QED
      BY <1>2, <1>8, <2>1 DEF LoadFromFile
  <1>9. ASSUME NEW w \in Workers, FinishReload(w) \/ LoadError(w)
        PROVE  \A v \in Workers : worker'[v].at # "read"
    <2>1. PICK e : EndReload(w, e)
      BY <1>9, ReloadStepEnds
    <2>2. e.at # "read"
      BY <1>1, <2>1, ReloadEnds DEF EndReload
    <2>3. \A v \in Workers : worker[v].at = "read" => v = w
      BY <1>2, <2>1 DEF EndReload
    <2> QED
      BY <1>1, <2>1, <2>2, <2>3 DEF EndReload
  <1>10. ASSUME NEW w \in Workers, performReload(w)
         PROVE  \A v \in Workers : worker'[v].at = "read" => managerLock' = v
    <2>1. \A v \in Workers : worker'[v] = worker[v] \/ worker'[v].at # "read"
      BY <1>1, <1>3, <1>10 DEF performReload, Idle
    <2> QED
      BY <1>5, <1>10, <2>1 DEF performReload
  <1>11. ASSUME NEW w \in Workers, rollbackToPrevious(w)
         PROVE  \A v \in Workers : worker'[v].at = "read" => managerLock' = v
    <2>1. \A v \in Workers : worker'[v] = worker[v] \/ worker'[v].at # "read"
      BY <1>1, <1>3, <1>11 DEF rollbackToPrevious, Begin, Idle
    <2> QED
      BY <1>5, <1>11, <2>1 DEF rollbackToPrevious
  <1>12. ASSUME NEW j \in Jobs, TimerFires(j)
         PROVE  \A v \in Workers : worker'[v].at = "read" => managerLock' = v
    <2>1. \A v \in Workers : worker'[v] = worker[v] \/ worker'[v].at # "read"
      BY <1>1, <1>3, <1>12 DEF TimerFires, Begin
    <2> QED
      BY <1>5, <1>12, <2>1 DEF TimerFires
  <1>13. ASSUME NEW n \in 0..MaxChanges, RollbackToCommit(n)
         PROVE  \A v \in Workers : worker'[v].at = "read" => managerLock' = v
    <2>1. \A v \in Workers : worker'[v] = worker[v] \/ worker'[v].at # "read"
      BY <1>1, <1>3, <1>13 DEF RollbackToCommit, Begin
    <2> QED
      BY <1>5, <1>13, <2>1 DEF RollbackToCommit
  <1>14. CASE Change \/ Pull \/ checkForChanges \/ TriggerDebouncer \/ Close \/ UNCHANGED managerVars
    BY <1>4, <1>14 DEF Change, Pull, checkForChanges, TriggerDebouncer, Close, managerVars
  <1> QED
    BY <1>6, <1>7, <1>8, <1>9, <1>10, <1>11, <1>12, <1>13, <1>14 DEF ManagerNext, WatchStep, ReloadStep

(* A reload starts with nothing read. *)
LEMMA StepAnew ==
    ASSUME Base, StartsAnew, [ManagerNext]_managerVars
    PROVE  StartsAnew'
  <1>1. worker \in [Workers -> Reload]
    BY DEF Base, ManagerTypes, Reload
  <1>2. Jobs \subseteq Workers /\ Operator \in Workers
    BY DEF Workers
  <1> DEFINE Goal == \A v \in Workers : worker'[v] = worker[v] \/ worker'[v].at # "lock" \/ worker'[v].read = <<>>
  <1> SUFFICES Goal
    BY DEF StartsAnew, Workers
  <1>3. CASE ForceSync
    BY <1>1, <1>2, <1>3 DEF ForceSync, Begin
  <1>4. ASSUME NEW w \in Workers, ReloadPolicies(w)
        PROVE  Goal
    BY <1>1, <1>4 DEF ReloadPolicies, Reload
  <1>5. ASSUME NEW w \in Workers, LoadFromFile(w)
        PROVE  Goal
    <2>1. worker'[w].at = "read"
      BY <1>1, <1>5 DEF LoadFromFile, Reload
    <2> QED
      BY <1>1, <1>5, <2>1 DEF LoadFromFile
  <1>6. ASSUME NEW w \in Workers, FinishReload(w) \/ LoadError(w)
        PROVE  Goal
    <2>1. PICK e : EndReload(w, e)
      BY <1>6, ReloadStepEnds
    <2>2. e.read = <<>>
      BY <1>1, <2>1, ReloadEnds DEF EndReload
    <2> QED
      BY <1>1, <2>1, <2>2 DEF EndReload
  <1>7. ASSUME NEW w \in Workers, performReload(w) \/ rollbackToPrevious(w)
        PROVE  Goal
    BY <1>1, <1>7 DEF performReload, rollbackToPrevious, Begin, Idle
  <1>8. ASSUME NEW j \in Jobs, TimerFires(j)
        PROVE  Goal
    BY <1>1, <1>2, <1>8 DEF TimerFires, Begin
  <1>9. ASSUME NEW n \in 0..MaxChanges, RollbackToCommit(n)
        PROVE  Goal
    BY <1>1, <1>2, <1>9 DEF RollbackToCommit, Begin
  <1>10. CASE Change \/ Pull \/ checkForChanges \/ TriggerDebouncer \/ Close \/ UNCHANGED managerVars
    BY <1>10 DEF Change, Pull, checkForChanges, TriggerDebouncer, Close, managerVars
  <1> QED
    BY <1>3, <1>4, <1>5, <1>6, <1>7, <1>8, <1>9, <1>10 DEF ManagerNext, WatchStep, ReloadStep

(* No step loses a reload: what makes the tree move also starts a reload,  *)
(* and a reload that ends without a later one has read the tree as it is.  *)
LEMMA StepUpToDate ==
    ASSUME InStep, [ManagerNext]_managerVars, watch' = "on", ~missed'
    PROVE  UpToDate'
  <1>1. /\ history' = history /\ mode' = mode /\ (\A n : Content(n)' = Content(n)) /\ (\A c : Good(c)' = Good(c))
        /\ Workers' = Workers /\ NoTimer' = NoTimer
    BY HistoryStays DEF Workers, NoTimer
  <1>2. /\ mode \in {"file", "git"} /\ pushed \in Commits /\ head \in Commits
        /\ timer \in Commits \cup {NoTimer} /\ events \in Nat
        /\ poll \in [at : {"idle", "pulled"}, from : Commits, to : Commits]
        /\ worker \in [Workers -> Reload]
    BY ConfigurationType DEF InStep, ManagerTypes, Reload
  <1>3. /\ mode = "git" => tree = Content(head)
        /\ mode = "file" => tree = Content(pushed)
    BY DEF InStep, TreeIsCommit
  <1>4. \A v \in Workers : worker[v].at = "read" => managerLock = v
    BY DEF InStep, OneReader
  <1>5. watch = "on" /\ ~missed => UpToDate
    BY DEF InStep
  <1>6. /\ Jobs \subseteq Workers /\ Operator \in Workers /\ Nobody \notin Workers
        /\ NoTimer \notin Commits /\ 0 # NoTimer
    BY HistoriesAssumption DEF HistoriesAssumption, Workers, Jobs, Operator, Nobody, Commits, NoTimer
  <1> DEFINE ComingNext == \/ timer' # NoTimer \/ events' > 0
                           \/ poll'.at = "pulled" /\ Content(poll'.from) # Content(poll'.to)
                           \/ \E v \in Workers : worker'[v].at = "lock"
             FreshNext(v) == \A i \in DOMAIN worker'[v].read : worker'[v].read[i] = tree'[SetToSeq(Files)[i]]
             Goal == \/ ComingNext
                     \/ /\ \A v \in Workers : worker'[v].at = "read" => FreshNext(v)
                        /\ \/ registry' = tree' \/ ~Good(tree')
                           \/ \E v \in Workers : worker'[v].at = "read"
  <1>7. SUFFICES Goal
    <2>1. Content(poll.from)' = Content(poll'.from) /\ Content(poll.to)' = Content(poll'.to) /\ Good(tree)' = Good(tree')
      BY <1>1, HistoryStays DEF Content
    <2>2. Coming' <=> ComingNext
      BY <1>1, <2>1 DEF Coming
    <2>3. \A v \in Workers : Fresh(v)' <=> FreshNext(v)
      BY DEF Fresh
    <2> HIDE DEF ComingNext, FreshNext
    <2> QED
      BY <1>1, <1>7, <2>1, <2>2, <2>3 DEF UpToDate
  <1>8. ASSUME watch = "on", ~missed, tree' = tree, registry' = registry, Coming => ComingNext,
               \A v \in Workers : worker'[v].at = "read" \/ worker[v].at = "read" => worker'[v] = worker[v]
        PROVE  Goal
    <2>1. CASE Coming
      BY <1>8, <2>1
    <2>2. CASE ~Coming
      <3>1. \A v \in Workers : worker[v].at = "read" => Fresh(v)
        BY <1>5, <1>8, <2>2 DEF UpToDate
      <3>2. \A v \in Workers : worker'[v].at = "read" => FreshNext(v)
        BY <1>8, <3>1 DEF Fresh
      <3>3. \/ registry' = tree' \/ ~Good(tree')
            \/ \E v \in Workers : worker'[v].at = "read"
        BY <1>5, <1>8, <2>2 DEF UpToDate
      <3> QED
        BY <3>2, <3>3
    <2> QED
      BY <2>1, <2>2
  <1>9. CASE Change
    <2>1. watch = "on" /\ ~missed /\ pushed \in Nat
      BY <1>2, <1>9 DEF Change, Commits
    <2>2. CASE tree' = tree /\ events' = events
      <3>1. Coming => ComingNext
        BY <1>9, <2>2 DEF Change, Coming
      <3> HIDE DEF Goal, ComingNext
      <3> QED
        BY <1>8, <1>9, <2>1, <2>2, <3>1 DEF Change
    <2>3. CASE events' = events + 1
      BY <1>2, <2>3
    <2> QED
      BY <1>9, <2>1, <2>2, <2>3 DEF Change, shouldProcessEvent
  <1>10. CASE Pull
    <2>1. watch = "on" /\ ~missed /\ mode = "git" /\ poll.at = "idle"
      BY <1>10 DEF Pull
    <2>2. poll'.at = "pulled" /\ poll'.from = head /\ poll'.to = pushed /\ tree' = Content(pushed)
      BY <1>10 DEF Pull, Checkout
    <2>3. CASE Content(head) # Content(pushed)
      BY <2>2, <2>3
    <2>4. CASE Content(head) = Content(pushed)
      <3>1. tree' = tree
        BY <1>3, <2>1, <2>2, <2>4
      <3>2. Coming => ComingNext
        BY <1>10, <2>1 DEF Pull, Coming
      <3> HIDE DEF Goal, ComingNext
      <3> QED
        BY <1>8, <1>10, <2>1, <3>1, <3>2 DEF Pull
    <2> QED
      BY <2>3, <2>4
  <1>11. CASE checkForChanges
    <2>1. watch = "on" /\ ~missed
      BY <1>11 DEF checkForChanges
    <2>2. CASE hasPolicyFileChanges(getChangedFilesInternal(poll.from, poll.to))
      <3>1. timer' = poll.to
        BY <1>11, <2>2 DEF checkForChanges, debounceReload
      <3> QED
        BY <1>2, <1>6, <3>1
    <2>3. CASE ~hasPolicyFileChanges(getChangedFilesInternal(poll.from, poll.to))
      <3>1. Content(poll.from) = Content(poll.to)
        BY <2>3 DEF hasPolicyFileChanges, getChangedFilesInternal, Content
      <3>2. timer' = timer /\ events' = events /\ worker' = worker
        BY <1>11, <2>3 DEF checkForChanges
      <3>3. Coming => ComingNext
        BY <3>1, <3>2 DEF Coming
      <3> HIDE DEF Goal, ComingNext
      <3> QED
        BY <1>8, <1>11, <2>1, <3>2, <3>3 DEF checkForChanges
    <2> QED
      BY <2>2, <2>3
  <1>12. CASE TriggerDebouncer
    BY <1>6, <1>12 DEF TriggerDebouncer
  <1>13. CASE ForceSync
    <2>1. worker'[Operator].at = "lock"
      BY <1>2, <1>6, <1>13 DEF ForceSync, Begin
    <2> QED
      BY <1>6, <2>1
  <1>14. CASE Close
    BY <1>14 DEF Close
  <1>15. ASSUME NEW w \in Workers, ReloadPolicies(w)
         PROVE  Goal
    <2>1. \A v \in Workers : worker[v].at # "read"
      BY <1>4, <1>6, <1>15 DEF ReloadPolicies
    <2>2. worker[w].read = <<>>
      BY <1>15 DEF InStep, StartsAnew, ReloadPolicies
    <2>3. worker'[w].at = "read" /\ worker'[w].read = <<>> /\ \A v \in Workers : v # w => worker'[v] = worker[v]
      BY <1>2, <1>15, <2>2 DEF ReloadPolicies, Reload
    <2>4. FreshNext(w)
      BY <2>3
    <2> HIDE DEF FreshNext
    <2> QED
      BY <2>1, <2>3, <2>4
  <1>16. ASSUME NEW w \in Workers, LoadFromFile(w)
         PROVE  Goal
    <2> DEFINE f == SetToSeq(Files)[Len(worker[w].read) + 1]
    <2>1. worker[w] \in Reload /\ worker[w].read \in Seq(Versions) /\ worker[w].at = "read"
      BY <1>2, <1>16 DEF Reload, LoadFromFile
    <2>2. /\ worker'[w].at = "read" /\ worker'[w].read = Append(worker[w].read, tree[f])
          /\ \A v \in Workers : v # w => worker'[v] = worker[v]
      BY <1>2, <1>16, <2>1 DEF LoadFromFile, Reload
    <2>3. /\ tree' = tree /\ registry' = registry /\ timer' = timer /\ events' = events /\ poll' = poll
          /\ watch' = watch /\ missed' = missed
      BY <1>16 DEF LoadFromFile
    <2>4. CASE Coming
      <3>1. ComingNext
        BY <2>1, <2>2, <2>3, <2>4 DEF Coming
      <3> QED
        BY <3>1
    <2>5. CASE ~Coming
      <3>1. \A v \in Workers : worker[v].at = "read" => Fresh(v)
        BY <1>5, <2>3, <2>5 DEF UpToDate
      <3>2. FreshNext(w)
        <4>1. DOMAIN worker[w].read = 1..Len(worker[w].read) /\ Len(worker[w].read) \in Nat
          BY <2>1
        <4>2. DOMAIN worker'[w].read = 1..(Len(worker[w].read) + 1)
          BY <2>1, <2>2
        <4>3. \A i \in 1..Len(worker[w].read) : worker'[w].read[i] = worker[w].read[i]
          BY <2>1, <2>2
        <4>4. worker'[w].read[Len(worker[w].read) + 1] = tree[f]
          BY <2>1, <2>2
        <4>5. \A i \in 1..Len(worker[w].read) : worker[w].read[i] = tree[SetToSeq(Files)[i]]
          BY <2>1, <3>1, <4>1 DEF Fresh
        <4>6. ASSUME NEW i \in 1..(Len(worker[w].read) + 1)
              PROVE  worker'[w].read[i] = tree[SetToSeq(Files)[i]]
          <5>1. CASE i \in 1..Len(worker[w].read)
            BY <4>3, <4>5, <5>1
          <5>2. CASE i = Len(worker[w].read) + 1
            BY <4>4, <5>2
          <5> QED
            BY <4>1, <5>1, <5>2
        <4> QED
          BY <2>3, <4>2, <4>6
      <3>3. \A v \in Workers : v # w /\ worker'[v].at = "read" => FreshNext(v)
        BY <2>2, <2>3, <3>1 DEF Fresh
      <3> HIDE DEF FreshNext
      <3> QED
        BY <2>2, <3>2, <3>3
    <2> QED
      BY <2>4, <2>5
  <1>17. ASSUME NEW w \in Workers, FinishReload(w)
         PROVE  Goal
    <2> DEFINE versions == worker[w].read
    <2>1. /\ versions \in Seq(Versions) /\ Len(versions) = Cardinality(Files) /\ worker[w].at = "read"
          /\ registry' = IF Loads(versions) THEN Replace(versions) ELSE registry
      BY <1>2, <1>17 DEF Reload, FinishReload
    <2>2. /\ tree' = tree /\ timer' = timer /\ events' = events /\ poll' = poll
          /\ watch' = watch /\ missed' = missed
          /\ \A v \in Workers : v # w => worker'[v] = worker[v]
      BY <1>2, <1>17 DEF FinishReload
    <2>3. CASE Coming
      <3>1. ComingNext
        BY <2>1, <2>2, <2>3 DEF Coming
      <3> QED
        BY <3>1
    <2>4. CASE ~Coming
      <3>1. \A i \in DOMAIN versions : versions[i] = tree[SetToSeq(Files)[i]]
        BY <1>5, <2>1, <2>2, <2>4 DEF UpToDate, Fresh
      <3>2. tree \in [Files -> Versions]
        BY <1>2, <1>3, ContentType
      <3>3. Replace(versions) = tree /\ (~Loads(versions) => ~Good(tree))
        <4> HIDE DEF versions
        <4> QED
          BY <2>1, <3>1, <3>2, ReplaceLoaded
      <3>4. registry' = tree' \/ ~Good(tree')
        BY <2>1, <2>2, <3>3
      <3>5. \A v \in Workers : worker'[v].at # "read"
        <4>1. OneReader' /\ managerLock' = Nobody
          BY <1>17, StepReader DEF InStep, Base, FinishReload
        <4> QED
          BY <1>1, <1>6, <4>1 DEF OneReader
      <3> QED
        BY <3>4, <3>5
    <2> QED
      BY <2>3, <2>4
  <1>23. ASSUME NEW w \in Workers, LoadError(w)
         PROVE  Goal
    BY <1>23 DEF LoadError
  <1>18. ASSUME NEW w \in Workers, performReload(w)
         PROVE  Goal
    <2>1. Coming => ComingNext
      BY <1>2, <1>18 DEF performReload, Coming
    <2>2. \A v \in Workers : worker'[v].at = "read" \/ worker[v].at = "read" => worker'[v] = worker[v]
      BY <1>2, <1>18 DEF performReload, Idle
    <2> HIDE DEF Goal, ComingNext
    <2> QED
      BY <1>8, <1>18, <2>1, <2>2 DEF performReload
  <1>19. ASSUME NEW w \in Workers, rollbackToPrevious(w)
         PROVE  Goal
    <2>1. CASE worker' = Begin(w, "end", 0, 0)
      <3>1. worker'[w].at = "lock"
        BY <1>2, <2>1 DEF Begin
      <3> QED
        BY <3>1
    <2>2. CASE worker' = [worker EXCEPT ![w] = Idle] /\ UNCHANGED <<head, tree, missed, rewound>>
      <3>1. Coming => ComingNext
        BY <1>2, <1>19, <2>2 DEF rollbackToPrevious, Coming
      <3>2. \A v \in Workers : worker'[v].at = "read" \/ worker[v].at = "read" => worker'[v] = worker[v]
        BY <1>2, <1>19, <2>2 DEF rollbackToPrevious, Idle
      <3> HIDE DEF Goal, ComingNext
      <3> QED
        BY <1>8, <1>19, <2>2, <3>1, <3>2 DEF rollbackToPrevious
    <2> QED
      BY <1>19, <2>1, <2>2 DEF rollbackToPrevious
  <1>20. ASSUME NEW j \in Jobs, TimerFires(j)
         PROVE  Goal
    <2>1. worker'[j].at = "lock"
      BY <1>2, <1>6, <1>20 DEF TimerFires, Begin
    <2> QED
      BY <1>6, <2>1
  <1>21. ASSUME NEW n \in 0..MaxChanges, RollbackToCommit(n)
         PROVE  Goal
    <2>1. worker'[Operator].at = "lock"
      BY <1>2, <1>6, <1>21 DEF RollbackToCommit, Begin
    <2> QED
      BY <1>6, <2>1
  <1>22. CASE UNCHANGED managerVars
    <2>1. Coming => ComingNext
      BY <1>22 DEF managerVars, Coming
    <2> HIDE DEF Goal, ComingNext
    <2> QED
      BY <1>8, <1>22, <2>1 DEF managerVars
  <1> QED
    BY <1>9, <1>10, <1>11, <1>12, <1>13, <1>14, <1>15, <1>16, <1>17, <1>18, <1>19, <1>20, <1>21, <1>22, <1>23
       DEF ManagerNext, WatchStep, ReloadStep

(* When the manager is at rest it serves the newest policies, whatever     *)
(* order of pulls, debounced reloads, rollbacks, forced synchronisations   *)
(* and edits led there.                                                    *)
THEOREM RestsInStep == ManagerSpec => []SettledInStep
  <1>1. ManagerInit => InStep
    <2> SUFFICES ASSUME ManagerInit PROVE InStep
      OBVIOUS
    <2>1. Base
      BY InitBase
    <2>2. \A w \in Workers : worker[w].at = "idle"
      BY DEF ManagerInit, Idle
    <2>3. registry = tree
      BY DEF ManagerInit, Clone, LoadPolicies
    <2> QED
      BY <2>1, <2>2, <2>3 DEF InStep, Base, OneReader, StartsAnew, UpToDate
  <1>2. ASSUME InStep, [ManagerNext]_managerVars
        PROVE  InStep'
    <2>1. Base' /\ OneReader' /\ StartsAnew'
      BY <1>2, StepBase, StepReader, StepAnew DEF InStep, Base
    <2>2. watch' = "on" /\ ~missed' => UpToDate'
      BY <1>2, StepUpToDate
    <2> QED
      BY <2>1, <2>2 DEF InStep, Base
  <1>3. InStep => SettledInStep
    <2> SUFFICES ASSUME InStep, Settled, Good(Newest), ~missed
                 PROVE  registry = Newest
      BY DEF SettledInStep
    <2>1. ~Coming
      BY DEF Coming, Settled
    <2>2. registry = tree \/ ~Good(tree)
      BY <2>1 DEF InStep, UpToDate, Settled
    <2>3. tree = Newest
      BY ConfigurationType DEF InStep, ManagerTypes, TreeIsCommit, Settled, Newest
    <2> QED
      BY <2>2, <2>3
  <1> QED
    BY <1>1, <1>2, <1>3, PTL DEF ManagerSpec

-----------------------------------------------------------------------------
(* Forward *)

(* A file's version is the number of a change, and later contents have     *)
(* later versions.                                                         *)
LEMMA ContentGrows ==
    ASSUME NEW m \in Nat, NEW n \in Nat, m <= n, NEW f \in Files
    PROVE  Content(m)[f] \in Nat /\ Content(m)[f] <= Content(n)[f]
  <1> DEFINE W(k) == {0} \cup {i \in 1..k : history[i].file = f}
  <1>1. ASSUME NEW k \in Nat
        PROVE  Max(W(k)) \in W(k) /\ \A x \in W(k) : x <= Max(W(k))
    <2> DEFINE B == {k - x : x \in W(k)}
    <2>1. B \in SUBSET Nat /\ k - 0 \in B
      OBVIOUS
    <2>2. PICK b \in B : \A c \in B : b <= c
      <3> DEFINE R == OpToRel(<, Nat)
      <3>1. IsWellFoundedOn(R, Nat)
        BY NatLessThanWellFounded
      <3> HIDE DEF B
      <3>2. PICK b \in B : \A c \in B : ~(<<c, b>> \in R)
        <4> HIDE DEF R
        <4> QED
          BY <2>1, <3>1, WFMin
      <3>3. \A c \in B : c \in Nat /\ b \in Nat /\ ~(c < b)
        BY <2>1, <3>2 DEF OpToRel
      <3> QED
        BY <3>3
    <2>3. PICK x \in W(k) : b = k - x
      OBVIOUS
    <2>4. \A y \in W(k) : k - x <= k - y /\ x \in Int /\ y \in Int
      BY <2>2, <2>3
    <2>5. \A y \in W(k) : x >= y
      BY <2>4
    <2> HIDE DEF W, B
    <2>6. \E z \in W(k) : \A y \in W(k) : z >= y
      BY <2>5
    <2>7. Max(W(k)) \in W(k) /\ \A y \in W(k) : Max(W(k)) >= y
      BY <2>6 DEF Max
    <2>8. W(k) \subseteq Int
      BY DEF W
    <2> QED
      BY <2>7, <2>8
  <1>2. W(m) \subseteq W(n) /\ W(m) \subseteq Nat
    OBVIOUS
  <1>3. Content(m)[f] = Max(W(m)) /\ Content(n)[f] = Max(W(n))
    BY DEF Content
  <1> HIDE DEF W
  <1> QED
    BY <1>1, <1>2, <1>3

(* Versions are numbers, and a tree has one of every file. *)
LEMMA VersionType ==
    ASSUME Base
    PROVE  Versions \subseteq Nat /\ \A f \in Files : tree[f] \in Nat
  <1>1. \A n \in Commits, f \in Files : Content(n)[f] \in Nat
    BY ContentGrows DEF Commits
  <1>2. tree = Content(head) \/ tree = Content(pushed)
    BY ConfigurationType DEF Base, ManagerTypes, TreeIsCommit
  <1> QED
    BY <1>1, <1>2 DEF Versions, Base, ManagerTypes

(* So has the next tree. *)
LEMMA NextVersionType ==
    ASSUME Base, [ManagerNext]_managerVars
    PROVE  \A f \in Files : tree'[f] \in Nat
  <1>1. Base' /\ history' = history /\ mode' = mode /\ mode \in {"file", "git"}
    BY StepBase, HistoryStays, ConfigurationType DEF Base, ManagerTypes
  <1>2. head' \in Commits /\ pushed' \in Commits
    BY <1>1 DEF Base, ManagerTypes, Commits
  <1>3. Content(head)' = Content(head') /\ Content(pushed)' = Content(pushed')
    BY <1>1 DEF Content
  <1>4. tree' = Content(head') \/ tree' = Content(pushed')
    BY <1>1, <1>3 DEF Base, TreeIsCommit
  <1>5. \A n \in Commits, f \in Files : Content(n)[f] \in Nat
    BY ContentGrows DEF Commits
  <1> QED
    BY <1>2, <1>4, <1>5

(* The files on disk only move forward, or the tree is moved back. *)
LEMMA TreeMoves ==
    ASSUME Base, [ManagerNext]_managerVars
    PROVE  rewound' = {"served", "reading"} \/ \A f \in Files : tree[f] <= tree'[f]
  <1> USE DEF Base
  <1>1. Base' /\ (\A n : Content(n)' = Content(n)) /\ mode' = mode
    BY StepBase, HistoryStays
  <1>2. /\ \A f \in Files : tree[f] \in Nat
        /\ pushed \in Nat /\ head \in Nat /\ worker \in [Workers -> Reload]
        /\ mode \in {"file", "git"}
    BY VersionType, ConfigurationType DEF ManagerTypes, Commits, Reload
  <1>3. CASE tree' = tree
    BY <1>2, <1>3
  <1>4. CASE Change
    <2>1. CASE mode = "git"
      BY <1>3, <1>4, <2>1 DEF Change
    <2>2. CASE mode = "file"
      <3>1. tree = Content(pushed) /\ tree' = Content(pushed')
        <4>1. Content(pushed)' = Content(pushed')
          BY <1>1 DEF Content, history
        <4> QED
          BY <1>1, <2>2, <4>1 DEF TreeIsCommit
      <3>2. pushed' = pushed + 1
        BY <1>4 DEF Change
      <3> QED
        BY <1>2, <3>1, <3>2, ContentGrows
    <2> QED
      BY <1>2, <2>1, <2>2
  <1>5. ASSUME NEW n \in Commits, Checkout(n), mode = "git"
        PROVE  rewound' = {"served", "reading"} \/ \A f \in Files : tree[f] <= tree'[f]
    <2>1. tree = Content(head) /\ tree' = Content(n) /\ n \in Nat
      BY <1>5 DEF Checkout, TreeIsCommit, Commits
    <2>2. CASE n < head
      BY <1>5, <2>2 DEF Checkout, Rewinding
    <2>3. CASE head <= n
      BY <1>2, <2>1, <2>3, ContentGrows
    <2> QED
      BY <1>2, <2>1, <2>2, <2>3
  <1>6. CASE Pull \/ ForceSync
    <2>1. pushed \in Commits /\ Checkout(pushed) /\ mode = "git"
      BY <1>6 DEF Pull, ForceSync, ManagerTypes
    <2> QED
      BY <1>5, <2>1
  <1>7. ASSUME NEW w \in Workers, rollbackToPrevious(w)
        PROVE  rewound' = {"served", "reading"} \/ \A f \in Files : tree[f] <= tree'[f]
    <2>1. lastCommitSHA \in Commits /\ worker[w].from \in Commits
      BY <1>2 DEF ManagerTypes, Reload
    <2>2. mode = "file" => worker[w].then = "end"
      BY DEF TreeIsCommit
    <2>3. tree' = tree \/ (mode = "git" /\ \E n \in Commits : Checkout(n))
      BY <1>2, <1>7, <2>1, <2>2 DEF rollbackToPrevious
    <2> QED
      BY <1>3, <1>5, <2>3
  <1>8. ASSUME NEW n \in 0..MaxChanges, RollbackToCommit(n)
        PROVE  rewound' = {"served", "reading"} \/ \A f \in Files : tree[f] <= tree'[f]
    BY <1>5, <1>8 DEF RollbackToCommit, Commits
  <1> QED
    BY <1>3, <1>4, <1>6, <1>7, <1>8
       DEF ManagerNext, WatchStep, ReloadStep, checkForChanges, TriggerDebouncer, Close, ReloadPolicies, LoadFromFile,
           LoadError, FinishReload, performReload, TimerFires, managerVars

(* The file that a reload reads in the i-th place. *)
FileAt(i) == SetToSeq(Files)[i]

(* Unless the tree was moved back, what is served is not newer than what   *)
(* is on disk, and what a reload has read lies between the two.            *)
ForwardInv ==
    /\ \A f \in Files : registry[f] \in Nat
    /\ "served" \notin rewound => \A f \in Files : registry[f] <= tree[f]
    /\ \A w \in Workers : worker[w].at = "read" =>
          /\ Len(worker[w].read) <= Cardinality(Files)
          /\ \A i \in DOMAIN worker[w].read :
                /\ "served" \notin rewound => registry[FileAt(i)] <= worker[w].read[i]
                /\ "reading" \notin rewound => worker[w].read[i] <= tree[FileAt(i)]

(* The reload of w has read a prefix of the files. *)
LEMMA ReadType ==
    ASSUME Base, NEW w \in Workers, Len(worker[w].read) <= Cardinality(Files)
    PROVE  /\ worker[w].read \in Seq(Versions) /\ DOMAIN worker[w].read = 1..Len(worker[w].read)
           /\ \A i \in DOMAIN worker[w].read : FileAt(i) \in Files /\ worker[w].read[i] \in Nat
  <1>1. worker[w].read \in Seq(Versions) /\ Versions \subseteq Nat
    BY VersionType DEF Base, ManagerTypes
  <1>2. DOMAIN worker[w].read = 1..Len(worker[w].read) /\ Len(worker[w].read) \in Nat
    BY <1>1
  <1>3. \A i \in DOMAIN worker[w].read : i \in 1..Cardinality(Files)
    <2> DEFINE n == Len(worker[w].read)
               c == Cardinality(Files)
    <2>1. n \in Nat /\ c \in Nat /\ n <= c
      BY <1>2, EveryFileIsRead
    <2>2. \A i \in 1..n : i \in 1..c
      <3> HIDE DEF n, c
      <3> QED
        BY <2>1
    <2> QED
      BY <1>2, <2>2
  <1>4. \A i \in DOMAIN worker[w].read : worker[w].read[i] \in Nat
    <2> DEFINE seen == worker[w].read
    <2>1. \A i \in DOMAIN seen : seen[i] \in Versions
      <3>1. seen \in Seq(Versions) /\ DOMAIN seen = 1..Len(seen)
        BY <1>1, <1>2
      <3> HIDE DEF seen
      <3> QED
        BY <3>1
    <2> QED
      BY <1>1, <2>1
  <1>5. \A i \in DOMAIN worker[w].read : FileAt(i) \in Files
    BY <1>3, EveryFileIsRead DEF FileAt
  <1> QED
    BY <1>1, <1>2, <1>4, <1>5

(* The reload that ends puts what it read in the place of every file. *)
LEMMA ReplaceRead ==
    ASSUME NEW versions \in Seq(Versions), Len(versions) = Cardinality(Files), NEW f \in Files
    PROVE  \E i \in DOMAIN versions : FileAt(i) = f /\ Replace(versions)[f] = versions[i]
  <1> DEFINE at == CHOOSE i \in DOMAIN versions : SetToSeq(Files)[i] = f
  <1>1. DOMAIN versions = 1..Cardinality(Files)
    BY EveryFileIsRead
  <1>2. at \in DOMAIN versions /\ SetToSeq(Files)[at] = f
    BY <1>1, EveryFileIsRead
  <1>3. Replace(versions)[f] = versions[at]
    BY DEF Replace
  <1> HIDE DEF at
  <1> QED
    BY <1>2, <1>3 DEF FileAt

Forward == Base /\ OneReader /\ StartsAnew /\ ForwardInv

(* A step that lets the readers alone, does not change what is served and  *)
(* does not forget that the tree was moved back. *)
LEMMA ReadersStay ==
    ASSUME Forward, [ManagerNext]_managerVars, registry' = registry,
           \A w \in Workers : worker'[w].at = "read" => worker'[w] = worker[w],
           rewound' = rewound \/ rewound' = {"served", "reading"}
    PROVE  ForwardInv'
  <1>1. CASE rewound' = {"served", "reading"}
    BY <1>1 DEF Forward, ForwardInv, Workers
  <1>2. CASE rewound' = rewound /\ rewound' # {"served", "reading"}
    <2>1. \A f \in Files : tree[f] <= tree'[f]
      BY <1>2, TreeMoves DEF Forward
    <2>2. (\A f \in Files : tree[f] \in Nat) /\ (\A f \in Files : tree'[f] \in Nat) /\ \A f \in Files : registry[f] \in Nat
      BY VersionType, NextVersionType DEF Forward, ForwardInv
    <2>3. "served" \notin rewound => \A f \in Files : registry[f] <= tree'[f]
      BY <2>1, <2>2 DEF Forward, ForwardInv
    <2>4. ASSUME NEW w \in Workers, worker'[w].at = "read", NEW i \in DOMAIN worker'[w].read
          PROVE  /\ Len(worker'[w].read) <= Cardinality(Files)
                 /\ "served" \notin rewound => registry[FileAt(i)] <= worker'[w].read[i]
                 /\ "reading" \notin rewound => worker'[w].read[i] <= tree'[FileAt(i)]
      <3>1. worker'[w] = worker[w] /\ worker[w].at = "read" /\ i \in DOMAIN worker[w].read
        BY <2>4
      <3>2. Len(worker[w].read) <= Cardinality(Files)
        BY <3>1 DEF Forward, ForwardInv
      <3>3. FileAt(i) \in Files /\ worker[w].read[i] \in Nat
        BY <3>1, <3>2, ReadType DEF Forward
      <3>4. /\ "served" \notin rewound => registry[FileAt(i)] <= worker[w].read[i]
            /\ "reading" \notin rewound => worker[w].read[i] <= tree[FileAt(i)]
        BY <3>1 DEF Forward, ForwardInv
      <3>5. tree[FileAt(i)] \in Nat /\ tree'[FileAt(i)] \in Nat /\ tree[FileAt(i)] <= tree'[FileAt(i)]
        BY <2>1, <2>2, <3>3
      <3> QED
        BY <3>1, <3>2, <3>3, <3>4, <3>5
    <2>5. \A w \in Workers : worker'[w].at = "read" => Len(worker'[w].read) <= Cardinality(Files)
      BY DEF Forward, ForwardInv
    <2> QED
      BY <1>2, <2>2, <2>3, <2>4, <2>5 DEF ForwardInv, Workers, FileAt
  <1> QED
    BY <1>1, <1>2

(* Every step keeps the order of what is served, read and on disk. *)
LEMMA StepForward ==
    ASSUME Forward, [ManagerNext]_managerVars
    PROVE  ForwardInv' /\ ("served" \notin rewound => \A f \in Files : registry[f] <= registry'[f])
  <1> DEFINE Onward == "served" \notin rewound => \A f \in Files : registry[f] <= registry'[f]
             Reading == \A v \in Workers : worker'[v].at = "read" => worker'[v] = worker[v]
  <1>1. /\ Base /\ worker \in [Workers -> Reload] /\ \A f \in Files : tree[f] \in Nat
        /\ \A f \in Files : registry[f] \in Nat
        /\ Jobs \subseteq Workers /\ Operator \in Workers /\ Nobody \notin Workers
    BY VersionType, HistoriesAssumption DEF Forward, Base, ManagerTypes, Reload, ForwardInv, HistoriesAssumption, Workers, Jobs, Operator, Nobody
  <1>2. registry' = registry => Onward
    BY <1>1
  <1>3. ASSUME registry' = registry, Reading, rewound' = rewound \/ rewound' = {"served", "reading"}
        PROVE  ForwardInv' /\ Onward
    BY <1>2, <1>3, ReadersStay
  <1>4. CASE Change \/ checkForChanges \/ TriggerDebouncer \/ Close \/ UNCHANGED managerVars
    BY <1>3, <1>4 DEF Change, checkForChanges, TriggerDebouncer, Close, managerVars
  <1>5. CASE Pull \/ ForceSync
    <2>1. Reading
      BY <1>1, <1>5 DEF Pull, ForceSync, Begin
    <2> QED
      BY <1>3, <1>5, <2>1 DEF Pull, ForceSync, Checkout, Rewinding
  <1>6. ASSUME NEW w \in Workers, performReload(w) \/ rollbackToPrevious(w)
        PROVE  ForwardInv' /\ Onward
    <2>1. Reading
      BY <1>1, <1>6 DEF performReload, rollbackToPrevious, Begin, Idle
    <2> QED
      BY <1>3, <1>6, <2>1 DEF performReload, rollbackToPrevious, Checkout, Rewinding
  <1>7. ASSUME NEW j \in Jobs, TimerFires(j)
        PROVE  ForwardInv' /\ Onward
    <2>1. Reading
      BY <1>1, <1>7 DEF TimerFires, Begin
    <2> QED
      BY <1>3, <1>7, <2>1 DEF TimerFires
  <1>8. ASSUME NEW n \in 0..MaxChanges, RollbackToCommit(n)
        PROVE  ForwardInv' /\ Onward
    <2>1. Reading
      BY <1>1, <1>8 DEF RollbackToCommit, Begin
    <2> QED
      BY <1>3, <1>8, <2>1 DEF RollbackToCommit, Checkout, Rewinding
  <1>9. ASSUME NEW w \in Workers, LoadError(w)
        PROVE  ForwardInv' /\ Onward
    <2>1. PICK e : EndReload(w, e)
      BY <1>9, ReloadStepEnds
    <2>2. e.at # "read"
      BY <1>1, <2>1, ReloadEnds DEF EndReload
    <2>3. Reading
      BY <1>1, <2>1, <2>2 DEF EndReload
    <2> QED
      BY <1>3, <1>9, <2>3 DEF LoadError
  <1>10. ASSUME NEW w \in Workers, ReloadPolicies(w)
         PROVE  ForwardInv' /\ Onward
    <2>1. /\ registry' = registry /\ tree' = tree /\ rewound' = rewound \ {"reading"}
          /\ \A v \in Workers : worker[v].at # "read"
      BY <1>1, <1>10 DEF ReloadPolicies, Forward, OneReader
    <2>2. worker'[w].read = <<>> /\ \A v \in Workers : v # w => worker'[v] = worker[v]
      BY <1>1, <1>10 DEF ReloadPolicies, Forward, StartsAnew, Reload
    <2>3. \A v \in Workers : worker'[v].at = "read" => worker'[v].read = <<>>
      BY <2>1, <2>2
    <2>4. Len(<<>>) <= Cardinality(Files) /\ DOMAIN <<>> = {}
      BY EveryFileIsRead
    <2>5. (\A f \in Files : registry'[f] \in Nat) /\ ("served" \notin rewound' => \A f \in Files : registry'[f] <= tree'[f])
      BY <2>1 DEF Forward, ForwardInv
    <2>6. ForwardInv'
      BY <2>3, <2>4, <2>5 DEF ForwardInv, Workers
    <2> QED
      BY <1>2, <2>1, <2>6
  <1>11. ASSUME NEW w \in Workers, LoadFromFile(w)
         PROVE  ForwardInv' /\ Onward
    <2> DEFINE n == Len(worker[w].read)
               seen == worker[w].read
    <2>1. worker[w].at = "read" /\ n < Cardinality(Files) /\ seen \in Seq(Versions) /\ n \in Nat
      BY <1>1, <1>11 DEF LoadFromFile, Reload
    <2>2. /\ registry' = registry /\ tree' = tree /\ rewound' = rewound
          /\ worker'[w].read = Append(seen, tree[FileAt(n + 1)])
          /\ \A v \in Workers : v # w => worker'[v] = worker[v]
      BY <1>1, <1>11 DEF LoadFromFile, Reload, FileAt
    <2>3. FileAt(n + 1) \in Files
      BY <2>1, EveryFileIsRead DEF FileAt
    <2>4. /\ \A f \in Files : registry[f] \in Nat
          /\ "served" \notin rewound => \A f \in Files : registry[f] <= tree[f]
          /\ \A i \in DOMAIN seen : /\ "served" \notin rewound => registry[FileAt(i)] <= seen[i]
                                    /\ "reading" \notin rewound => seen[i] <= tree[FileAt(i)]
      BY <2>1 DEF Forward, ForwardInv
    <2>5. /\ Len(worker'[w].read) = n + 1 /\ DOMAIN worker'[w].read = 1..(n + 1) /\ DOMAIN seen = 1..n
          /\ \A i \in 1..n : worker'[w].read[i] = seen[i]
          /\ worker'[w].read[n + 1] = tree[FileAt(n + 1)]
      BY <2>1, <2>2
    <2>6. /\ Len(worker'[w].read) <= Cardinality(Files)
          /\ \A i \in DOMAIN worker'[w].read :
                /\ "served" \notin rewound => registry[FileAt(i)] <= worker'[w].read[i]
                /\ "reading" \notin rewound => worker'[w].read[i] <= tree[FileAt(i)]
      <3>1. n + 1 <= Cardinality(Files)
        BY <2>1, EveryFileIsRead
      <3>2. \A i \in 1..(n + 1) : i \in 1..n \/ i = n + 1
        BY <2>1
      <3>3. tree[FileAt(n + 1)] <= tree[FileAt(n + 1)]
        BY <1>1, <2>3
      <3> HIDE DEF n, seen
      <3> QED
        BY <2>3, <2>4, <2>5, <3>1, <3>2, <3>3
    <2>7. \A v \in Workers : v # w => worker'[v].at # "read"
      BY <2>1, <2>2 DEF Forward, OneReader
    <2>8. ForwardInv'
      <3> HIDE DEF n, seen
      <3> QED
        BY <2>2, <2>4, <2>6, <2>7 DEF ForwardInv, Workers, FileAt
    <2> QED
      BY <1>2, <2>2, <2>8
  <1>12. ASSUME NEW w \in Workers, FinishReload(w)
         PROVE  ForwardInv' /\ Onward
    <2> DEFINE seen == worker[w].read
    <2>1. worker[w].at = "read" /\ Len(seen) = Cardinality(Files) /\ tree' = tree
      BY <1>12 DEF FinishReload
    <2>2. /\ seen \in Seq(Versions)
          /\ \A i \in DOMAIN seen : FileAt(i) \in Files /\ seen[i] \in Nat
      BY <1>1, <2>1, EveryFileIsRead, ReadType
    <2>3. \A v \in Workers : worker'[v].at # "read"
      <3>1. PICK e : EndReload(w, e)
        BY <1>12, ReloadStepEnds
      <3>2. e.at # "read"
        BY <1>1, <3>1, ReloadEnds DEF EndReload
      <3> QED
        BY <1>1, <2>1, <3>1, <3>2 DEF EndReload, Forward, OneReader
    <2>4. CASE ~Loads(seen)
      <3>1. registry' = registry /\ rewound' = rewound
        BY <1>12, <2>4 DEF FinishReload
      <3> QED
        BY <1>3, <2>3, <3>1
    <2>5. CASE Loads(seen)
      <3>1. registry' = Replace(seen) /\ rewound' = IF "reading" \in rewound THEN {"served"} ELSE {}
        BY <1>12, <2>5 DEF FinishReload
      <3>2. ASSUME NEW f \in Files
            PROVE  /\ registry'[f] \in Nat
                   /\ "served" \notin rewound => registry[f] <= registry'[f]
                   /\ "reading" \notin rewound => registry'[f] <= tree'[f]
        <4>1. PICK i \in DOMAIN seen : FileAt(i) = f /\ registry'[f] = seen[i]
          <5> HIDE DEF seen
          <5> QED
            BY <2>1, <2>2, <3>1, ReplaceRead
        <4>2. /\ "served" \notin rewound => registry[FileAt(i)] <= seen[i]
              /\ "reading" \notin rewound => seen[i] <= tree[FileAt(i)]
          BY <2>1 DEF Forward, ForwardInv
        <4> HIDE DEF seen
        <4> QED
          BY <2>1, <2>2, <4>1, <4>2
      <3>3. "served" \notin rewound' => "reading" \notin rewound
        BY <3>1
      <3>4. ForwardInv'
        BY <2>3, <3>2, <3>3 DEF ForwardInv, Workers
      <3> QED
        BY <3>2, <3>4
    <2> QED
      BY <2>4, <2>5
  <1> QED
    BY <1>4, <1>5, <1>6, <1>7, <1>8, <1>9, <1>10, <1>11, <1>12 DEF ManagerNext, WatchStep, ReloadStep

(* However many reloads overlap and whenever their timers fire, no reload  *)
(* puts an older version of a policy in the place of a newer one, unless   *)
(* the tree was moved back since the load of what is served began.         *)
THEOREM OnlyRollbacksGoBack == ManagerSpec => ServesForward
  <1>1. ManagerInit => Forward
    <2> SUFFICES ASSUME ManagerInit PROVE Forward
      OBVIOUS
    <2>1. Base
      BY InitBase
    <2>2. \A w \in Workers : worker[w].at = "idle"
      BY DEF ManagerInit, Idle
    <2>3. registry = tree /\ rewound = {}
      BY DEF ManagerInit, Clone, LoadPolicies
    <2>4. ForwardInv
      BY <2>1, <2>2, <2>3, VersionType DEF ForwardInv
    <2> QED
      BY <2>1, <2>2, <2>4 DEF Forward, OneReader, StartsAnew
  <1>2. ASSUME Forward, [ManagerNext]_managerVars
        PROVE  Forward' /\ ("served" \notin rewound => \A f \in Files : registry[f] <= registry'[f])
    BY <1>2, StepForward, StepBase, StepReader, StepAnew DEF Forward
  <1> QED
    BY <1>1, <1>2, PTL DEF ManagerSpec, ServesForward

=============================================================================
