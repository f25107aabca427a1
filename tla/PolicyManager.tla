--------------------------- MODULE PolicyManager ---------------------------
(***************************************************************************)
(* The policy manager (pkg/policy/manager) over its two sources: a watched *)
(* directory with a debouncer, and a git clone that is polled              *)
(* (pkg/policy/git).                                                       *)
(*                                                                         *)
(* A change is numbered by its place in history and rewrites one policy    *)
(* file or none (a file that is not a policy).  In git mode the changes    *)
(* are commits on the remote branch; in file mode they are edits of the    *)
(* directory.  A version of a file is the last change that wrote it.       *)
(*                                                                         *)
(* Policies are invalid when the validator rejects them, which matters     *)
(* only with Validation.Enabled, or unparsable when the loader or the      *)
(* registry does (LoadFromFile, Replace), which matters always.            *)
(*                                                                         *)
(* The manager's mutex serialises reloads, the repository's mutex Pull and *)
(* Rollback: no lock keeps the tree still while a reload reads it.         *)
(***************************************************************************)
EXTENDS Integers, Sequences, FiniteSets, SequencesExt, FiniteSetsExt

CONSTANTS Files,        \* the policy files
          OtherFile,    \* a file that is not a policy
          MaxJobs,      \* bound: goroutines of timers that run at the same time
          MaxChanges,   \* bound: changes in a history
          Configurations \* the managers and surroundings to consider: see Configuration

\* history[n]: the file that change n writes and what it makes of it; operations
\* bounds the calls of RollbackToCommit and ForceSync, errors the loads that fail
\* though nothing is wrong with the policies.
Configuration == [mode : {"file", "git"}, validation : BOOLEAN,
                  history : Seq([file : Files \cup {OtherFile}, kind : {"good", "invalid", "unparsable"}]),
                  operations : Nat, errors : Nat]

ASSUME HistoriesAssumption ==
    /\ IsFiniteSet(Files) /\ MaxJobs \in Nat /\ MaxChanges \in Nat
    /\ Configurations \subseteq {c \in Configuration : Len(c.history) <= MaxChanges}

VARIABLES config,       \* which of Configurations, never changed
          pushed,       \* changes made so far (on the remote, in git mode)
          head,         \* git mode: the commit that is checked out
          fetched,      \* git mode: the newest commit the clone has
          tree,         \* version of each policy file on disk
          registry,     \* version of each policy being served
          managerLock,  \* who holds the manager's mutex
          lastCommitSHA, timer, poll, events,
          worker,       \* timer goroutines and the operator
          operations, errors, watch,
          missed,       \* ghost: ForceSync moved the tree back or a load failed, and no reload began since
          rewound       \* ghost: see Rewinding
managerVars == <<config, pushed, head, fetched, tree, registry, managerLock, lastCommitSHA, timer, poll, events,
                 worker, operations, errors, watch, missed, rewound>>

mode == config.mode
validation == config.validation  \* Validation.Enabled
history == config.history

Jobs == 1..MaxJobs
Operator == 0
Workers == Jobs \cup {Operator}
Nobody == -1
NoTimer == -1
NoPull == [at |-> "idle", from |-> 0, to |-> 0]
Idle == [at |-> "idle", sha |-> 0, from |-> 0, then |-> "end", read |-> <<>>]

Parses(v) == v = 0 \/ history[v].kind # "unparsable"
Valid(v) == v = 0 \/ history[v].kind # "invalid"
Content(n) == [f \in Files |-> Max({0} \cup {k \in 1..n : history[k].file = f})]
Good(content) == \A f \in Files : Parses(content[f]) /\ (validation => Valid(content[f]))

-----------------------------------------------------------------------------
(* The constructor clones the repository, the first LoadPolicies succeeds,  *)
(* and Watch starts the watcher of the source.                              *)
Clone == pushed = 0 /\ head = 0 /\ fetched = 0 /\ tree = Content(0)
LoadPolicies == registry = Content(0) /\ managerLock = Nobody
Watch == watch = "on" /\ lastCommitSHA = 0 /\ timer = NoTimer /\ events = 0 /\ poll = NoPull
ManagerInit ==
    /\ config \in Configurations
    /\ Clone /\ LoadPolicies /\ Watch
    /\ worker = [w \in Workers |-> Idle] /\ operations = 0 /\ errors = 0 /\ missed = FALSE /\ rewound = {}

shouldProcessEvent(f) == f \in Files

(* Somebody else: a commit is pushed, or a file of the directory is saved,  *)
(* which fsnotify reports.                                                  *)
Change ==
    /\ pushed < Len(history) /\ pushed' = pushed + 1
    /\ IF mode = "git" THEN UNCHANGED <<tree, events>>
       ELSE LET f == history[pushed'].file IN
            /\ tree' = IF f \in Files THEN [tree EXCEPT ![f] = pushed'] ELSE tree
            /\ events' = IF shouldProcessEvent(f) /\ watch = "on" THEN events + 1 ELSE events
    /\ UNCHANGED <<config, head, fetched, registry, managerLock, lastCommitSHA, timer, poll, worker, operations, errors,
                   watch, missed, rewound>>

-----------------------------------------------------------------------------
(* ReloadPolicies: under the manager's mutex, read every file, validate all *)
(* of them, and replace the registry; an error leaves the registry alone.   *)
Begin(w, then, sha, from) == [worker EXCEPT ![w] = [at |-> "lock", sha |-> sha, from |-> from, then |-> then, read |-> <<>>]]

\* Faulty: the mutex is taken for the replacement only, so that loads overlap.
ReloadPoliciesUnlocked(w) ==
    /\ worker[w].at = "lock"
    /\ managerLock' = w
    /\ worker' = [worker EXCEPT ![w].at = "read"]
    /\ missed' = FALSE /\ rewound' = rewound \ {"reading"}
    /\ UNCHANGED <<config, pushed, head, fetched, tree, registry, lastCommitSHA, timer, poll, events, operations, errors,
                   watch>>

ReloadPolicies(w) ==
    /\ worker[w].at = "lock" /\ managerLock = Nobody
    /\ managerLock' = w
    /\ worker' = [worker EXCEPT ![w].at = "read"]
    /\ missed' = FALSE /\ rewound' = rewound \ {"reading"}
    /\ UNCHANGED <<config, pushed, head, fetched, tree, registry, lastCommitSHA, timer, poll, events, operations, errors,
                   watch>>

(* LoadFromDirectory: one file after the other, in the order of their names.*)
LoadFromFile(w) ==
    /\ worker[w].at = "read" /\ Len(worker[w].read) < Cardinality(Files)
    /\ LET f == SetToSeq(Files)[Len(worker[w].read) + 1] IN worker' = [worker EXCEPT ![w].read = Append(@, tree[f])]
    /\ UNCHANGED <<config, pushed, head, fetched, tree, registry, managerLock, lastCommitSHA, timer, poll, events,
                   operations, errors, watch, missed, rewound>>

(* Validation may be switched off; it looks at one policy at a time.        *)
validatePolicies(versions) == validation => \A i \in DOMAIN versions : Valid(versions[i])

Replace(versions) == [f \in Files |-> versions[CHOOSE i \in DOMAIN versions : SetToSeq(Files)[i] = f]]

AfterSuccess(r) == IF r.then = "record" THEN [r EXCEPT !.at = "record", !.read = <<>>] ELSE Idle
AfterError(r) == IF r.then = "end" THEN Idle ELSE [r EXCEPT !.at = "rollback", !.read = <<>>]

(* What was read cannot be loaded or is not valid, or it is served.         *)
Loads(versions) == (\A i \in DOMAIN versions : Parses(versions[i])) /\ validatePolicies(versions)

FinishReload(w) ==
    /\ worker[w].at = "read" /\ Len(worker[w].read) = Cardinality(Files)
    /\ managerLock' = Nobody
    /\ IF Loads(worker[w].read)
       THEN /\ registry' = Replace(worker[w].read)
            /\ worker' = [worker EXCEPT ![w] = AfterSuccess(@)]
            /\ rewound' = IF "reading" \in rewound THEN {"served"} ELSE {}
       ELSE /\ worker' = [worker EXCEPT ![w] = AfterError(@)]
            /\ UNCHANGED <<registry, rewound>>
    /\ UNCHANGED <<config, pushed, head, fetched, tree, lastCommitSHA, timer, poll, events, operations, errors, watch, missed>>

(* The directory or a file cannot be read.                                  *)
LoadError(w) ==
    /\ worker[w].at = "read" /\ Len(worker[w].read) < Cardinality(Files)
    /\ errors < config.errors /\ errors' = errors + 1
    /\ managerLock' = Nobody
    /\ worker' = [worker EXCEPT ![w] = AfterError(@)]
    /\ missed' = TRUE
    /\ UNCHANGED <<config, pushed, head, fetched, tree, registry, lastCommitSHA, timer, poll, events, operations, watch,
                   rewound>>

-----------------------------------------------------------------------------
(* History for ServesForward: the tree has been moved back since the load   *)
(* of what is served began, and since the load under way did.               *)
Rewinding(n) == rewound' = IF n < head THEN {"served", "reading"} ELSE rewound

(* Git source.  Repository.Pull fast-forwards the tree to the remote head   *)
(* and reports the files that differ; checkForChanges acts on the report    *)
(* after the repository's mutex is released.                                *)
Checkout(n) == head' = n /\ tree' = Content(n) /\ Rewinding(n)

getChangedFilesInternal(from, to) == {f \in Files : Content(from)[f] # Content(to)[f]}

(* Faulty: a commit that the watcher recorded as loaded is not loaded again.*)
hasPolicyFileChangesSinceLast(files) == files # {} /\ poll.to # lastCommitSHA

hasPolicyFileChanges(files) == files # {}

(* The debounce timer is started again for the newest commit.               *)
debounceReload(sha) == timer' = sha

Pull ==
    /\ mode = "git" /\ watch = "on" /\ poll.at = "idle" /\ head # pushed
    /\ poll' = [at |-> "pulled", from |-> head, to |-> pushed]
    /\ Checkout(pushed) /\ fetched' = pushed
    /\ UNCHANGED <<config, pushed, registry, managerLock, lastCommitSHA, timer, events, worker, operations, errors,
                   watch, missed>>

checkForChanges ==
    /\ poll.at = "pulled" /\ poll' = NoPull
    /\ IF hasPolicyFileChanges(getChangedFilesInternal(poll.from, poll.to))
       THEN debounceReload(poll.to) /\ UNCHANGED lastCommitSHA
       ELSE lastCommitSHA' = poll.to /\ UNCHANGED timer
    /\ UNCHANGED <<config, pushed, head, fetched, tree, registry, managerLock, events, worker, operations, errors, watch,
                   missed, rewound>>

(* File source.  The loop takes an event and starts the debouncer's timer   *)
(* again; it ends when it sees that the context is done.                    *)
TriggerDebouncer ==
    /\ mode = "file" /\ events > 0 /\ poll.at = "idle"
    /\ events' = events - 1 /\ timer' = 0
    /\ UNCHANGED <<config, pushed, head, fetched, tree, registry, managerLock, lastCommitSHA, poll, worker, operations,
                   errors, watch, missed, rewound>>

(* Goroutines are alike: the first that is free takes the next timer.       *)
FirstIdle(j) == worker[j].at = "idle" /\ \A k \in Jobs : k < j => worker[k].at # "idle"

(* Faulty: a timer that finds a reload running is content with that one.    *)
TimerFiresUnlessBusy(j) ==
    /\ timer # NoTimer /\ FirstIdle(j)
    /\ timer' = NoTimer
    /\ worker' = IF managerLock # Nobody THEN worker
                 ELSE IF mode = "git" THEN Begin(j, "record", timer, 0) ELSE Begin(j, "end", 0, 0)
    /\ UNCHANGED <<config, pushed, head, fetched, tree, registry, managerLock, lastCommitSHA, poll, events,
                   operations, errors, watch, missed, rewound>>

(* A timer fires: performReload in git mode, the callback in file mode.     *)
TimerFires(j) ==
    /\ timer # NoTimer /\ FirstIdle(j)
    /\ timer' = NoTimer
    /\ worker' = IF mode = "git" THEN Begin(j, "record", timer, 0) ELSE Begin(j, "end", 0, 0)
    /\ UNCHANGED <<config, pushed, head, fetched, tree, registry, managerLock, lastCommitSHA, poll, events, operations,
                   errors, watch, missed, rewound>>

performReload(w) ==
    /\ worker[w].at = "record"
    /\ lastCommitSHA' = worker[w].sha
    /\ worker' = [worker EXCEPT ![w] = Idle]
    /\ UNCHANGED <<config, pushed, head, fetched, tree, registry, managerLock, timer, poll, events, operations, errors,
                   watch, missed, rewound>>

(* The watcher goes back to lastCommitSHA and reloads; ForceSync goes back  *)
(* to where it pulled from and does not.  The checkout may fail.            *)
rollbackToPrevious(w) ==
    /\ worker[w].at = "rollback"
    /\ \/ /\ worker[w].then = "record"
          /\ Checkout(lastCommitSHA)
          /\ worker' = Begin(w, "end", 0, 0) /\ UNCHANGED missed
       \/ /\ worker[w].then = "undo"
          /\ Checkout(worker[w].from)
          /\ worker' = [worker EXCEPT ![w] = Idle] /\ missed' = TRUE
       \/ /\ worker' = [worker EXCEPT ![w] = Idle]
          /\ UNCHANGED <<head, tree, missed, rewound>>
    /\ UNCHANGED <<config, pushed, fetched, registry, managerLock, lastCommitSHA, timer, poll, events, operations,
                   errors, watch>>

-----------------------------------------------------------------------------
(* The operator.                                                            *)
RollbackToCommit(n) ==
    /\ mode = "git" /\ operations < config.operations /\ operations' = operations + 1
    /\ worker[Operator].at = "idle" /\ n <= fetched
    /\ Checkout(n)
    /\ worker' = Begin(Operator, "end", 0, 0)
    /\ UNCHANGED <<config, pushed, fetched, registry, managerLock, lastCommitSHA, timer, poll, events, errors, watch, missed>>

ForceSync ==
    /\ mode = "git" /\ operations < config.operations /\ operations' = operations + 1
    /\ worker[Operator].at = "idle" /\ head # pushed
    /\ Checkout(pushed) /\ fetched' = pushed
    /\ worker' = Begin(Operator, "undo", 0, head)
    /\ UNCHANGED <<config, pushed, registry, managerLock, lastCommitSHA, timer, poll, events, errors, watch, missed>>

(* The watchers are stopped without waiting for a reload that runs.  The    *)
(* file watcher's Stop finds it already stopped when the cancelled context  *)
(* was seen first, and then leaves the debouncer running.                   *)
StopGitWatcher == timer' = NoTimer /\ UNCHANGED events
StopFileWatcher == events' = 0 /\ timer' \in {timer, NoTimer}
Close ==
    /\ watch = "on" /\ watch' = "closed"
    /\ IF mode = "git" THEN StopGitWatcher ELSE StopFileWatcher
    /\ UNCHANGED <<config, pushed, head, fetched, tree, registry, managerLock, lastCommitSHA, poll, worker, operations,
                   errors, missed, rewound>>

ReloadStep(w) == ReloadPolicies(w) \/ LoadFromFile(w) \/ LoadError(w) \/ FinishReload(w) \/ performReload(w) \/ rollbackToPrevious(w)
WatchStep == Pull \/ checkForChanges \/ TriggerDebouncer
ManagerNext ==
    \/ Change \/ WatchStep \/ ForceSync \/ Close
    \/ \E w \in Workers : ReloadStep(w)
    \/ \E j \in Jobs : TimerFires(j)
    \/ \E n \in 0..MaxChanges : RollbackToCommit(n)

(* The poll ticker and the timers fire and what has started ends; nobody    *)
(* has to change anything, operate or close.                                *)
ManagerFairness ==
    /\ WF_managerVars(Pull) /\ WF_managerVars(checkForChanges) /\ WF_managerVars(TriggerDebouncer)
    /\ WF_managerVars(\E j \in Jobs : TimerFires(j))
    /\ \A w \in Workers : WF_managerVars(ReloadStep(w))

ManagerSpec == ManagerInit /\ [][ManagerNext]_managerVars /\ ManagerFairness

-----------------------------------------------------------------------------
Newest == Content(pushed)
Settled ==
    /\ watch = "on" /\ timer = NoTimer /\ poll.at = "idle" /\ events = 0
    /\ \A w \in Workers : worker[w].at = "idle"
    /\ mode = "git" => head = pushed

(* Timers fire while reloads run, and several reloads overlap; but the      *)
(* mutex spans the load and the replacement (manager.go:194), so that a     *)
(* reload which read the files earlier never replaces what a later one      *)
(* read: no policy goes back to an older version, unless a rollback took    *)
(* the tree back after the load of what is served had begun.                *)
ServesForward == []["served" \notin rewound => \A f \in Files : registry[f] <= registry'[f]]_managerVars

(* When nothing is under way any more and a poll would find nothing new,    *)
(* the registry and the working tree are in step, unless the tree is bad:   *)
(* no order of pulls, debounced reloads, rollbacks, forced synchronisations *)
(* and edits loses the reload of the newest policies.  Two exceptions:      *)
(* a ForceSync that fails moves the tree back and does not reload           *)
(* (manager.go:747), so what others served meanwhile may stay; and a load   *)
(* that fails for an I/O error is not tried again (manager.go:204).         *)
SettledInStep == Settled /\ Good(Newest) /\ ~missed => registry = Newest

NoReload == \A w \in Workers : worker[w].at = "idle"

(* If the newest policies stay good, the watch stays on and in the end no   *)
(* poll falls into a reload (the interval is long against the 100 ms of the *)
(* debouncer and a reload), then the newest policies are served in the end: *)
(* after a failed reload the watcher neither goes on serving what it rolled *)
(* back to nor pulls and rolls back for ever.  Without the last condition   *)
(* polls that meet every reload half way keep the old policies for ever.    *)
NewestIsServed ==
    <>[](watch = "on" /\ Good(Newest)) /\ <>[][Pull => NoReload]_managerVars => <>[](registry = Newest \/ missed)
=============================================================================
