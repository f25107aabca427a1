# Jupiter: TLA+ models, checks and proofs

Mercator Jupiter is a Go proxy between applications and LLM providers. A request
is meant to pass middleware (request ID, limits, timeout), to be enriched (tokens,
costs, content), evaluated by the policy engine, routed to a provider, sent with
retries, and to leave an evidence record. Policies, secrets and
certificates are reloaded while the process runs; evidence is pruned in the
background. This directory models the parts in which several goroutines share
state, or in which one step of several may fail, and checks them with TLC and
TLAPS.

## 1. Inventory

| Component | State | Operations | What is hard | What makes it correct |
|---|---|---|---|---|
| Evidence recorder (`pkg/evidence/recorder`) | `pendingRecords`, buffered channel, `done` | RecordRequest, RecordResponse, worker, Close | callers race Close and the drain; shared request IDs; full channel; failing store | no record twice or unaccounted, order kept, drain before Close returns |
| Retention (`pkg/evidence/retention`) and storage | stored records, archive files, cron jobs | Prune by age and count, archive, Start, Stop | jobs overlap and interleave with Store; every storage step may fail; stale cutoffs | newest survive, limit reached, nothing deleted unarchived, Stop outwaits jobs |
| Limits (`pkg/limits`, limits middleware) | buckets, windows, budget, slot counter, RWMutex | CheckLimits, AcquireConcurrent, RecordUsage, ReleaseConcurrent | check before, charge after; truncating arithmetic; lock-free counter; writers keep readers out | bounded overrun, rate bound, exact counter, no request stuck |
| Policy engine (`pkg/policy/engine`) | installed policies, watcher goroutine | EvaluateRequest, ReloadPolicies, Close | reload during evaluation, deadlines, fail-safe modes, broken files, overlapping reloads | each decision is that of one installed set; changes served; quiet after Close |
| Policy manager, registry, file and git watcher (`pkg/policy/manager`, `pkg/policy/git`) | registry, working tree, timers | load, reload, watch, rollback, sync | debounce timers overlap polls; tree and registry move apart; Stop does not wait; include graphs with cycles and links | no older policy returns but by a rollback; newest loadable commit served; every included file once and in order |
| HTTP provider and health checker (`pkg/providers`) | health record, ticker, retry loop | DoRequest, checks, Close | late results, backoff arithmetic, two critical sections | period in range, recovery, calls return |
| Provider factory and manager (`pkg/providerfactory`) | map of providers | add, replace, remove, close | half-failed replace; checkers outlive their providers | the checkers that run are those of the providers served |
| Adapters, handlers, timeout middleware (`pkg/providers/*`, `pkg/proxy`) | bounded chunk channel, response writer, context | convert, send, stream, forward | two formats; consumer leaves, stream breaks; handler outlives its deadline | the client sees the provider's answer; every goroutine ends; truncation visible |
| Router, strategies, sticky cache (`pkg/routing`) | pool, cache, atomic counters | RouteRequest, SelectProvider, Get/Set, UpdateProviders | health and pool change in between; check-then-act | chosen provider permitted, counted once, cache bounded |
| Server and lifecycle (`pkg/server`, `cmd`) | listener, signals, defers | start, shutdown, unwind | two callers of Shutdown; order of closing | storage closed last; a signal ends the process |
| Secrets, TLS, API keys (`pkg/security`) | caches, certificate pair | get, refresh, reload | caches filled after invalidation; two files, two mtimes | no stale secret unnoticed; the newest valid pair served |
| Limits storage (`pkg/limits/storage`) | states by identifier and dimension | save, load, list, delete, cleanup | eviction at the bound; two resolutions of time; overwriting | both backends answer alike, but for CreatedAt |
| Configuration (`pkg/config`) | global configuration | initialise, reload | overrides after validation; defaults; a failed first load | what is served is sound |
| MPL parser and validator (`pkg/mpl`) | none | parse, compose, validate | the engine has other types than the validator; circular variables | what is accepted can be evaluated |
| Request processing, telemetry, export, CLI | mostly none | sequential | text, costs | functions of their input |

Interactions: `runServer` opens the provider manager, the policy engine, storage,
recorder and pruner, and starts the server; its handler chain is recovery, logging,
request ID, CORS and timeout around the chat handler, which picks a healthy provider
and sends or streams. Limits middleware, router, policy evaluation and recording are
complete packages with interfaces for that path, which the chat handler of this commit
does not call yet; they are modelled for any number of concurrent callers. All
sharing is through the structures above: mutexes (engine, cache, buckets,
windows, health), atomics (slot counter, round robin, statistics), channels
(recorder, stop channels, streams), the storage that recorder and pruner share,
and the policy files that editor, watcher and callers of a reload share.

`PROJECT.json` lists every component with its status, the hazards at their
lines, and for each definition the source lines it stands for.

## 2. Modules

| Module | Models | State | Actions |
|---|---|---|---|
| `EvidenceRecorder` | recorder | pending, channel, worker, closer, fates | RecordRequest; RecordResponse as TakePending / TakePendingNilResponse, then Send or Drop; Receive, WriteRecord, SeeDone, Exit; CloseSignal, CloseReturn |
| `EvidenceLog` | abstract: what was accepted is attempted in order | accepted, attempted | Accept, Attempt |
| `Clock` | the clock the timed structures share | now | |
| `ConcurrentLimiter` | lock-free slot counter | current, pc | Acquire (add), Undo (take back), Release, Retry |
| `TokenBucket` | token bucket | tokens, lastRefill | Take, TimeUntilAvailable, Remaining, Reset |
| `SlidingWindow` | both copies of the bucketed window | buckets, head | Add, Sum, Reset |
| `StickyCache` | sticky cache | entries, readers between their two sections, cleaner | Get in two steps, Set, Delete, Clear, RemoveExpired, Close |
| `AffinityMap` | abstract: a bounded map that may forget | provider of each key | Put, Forget |
| `RoundRobin` | round-robin strategy | counter, callers | CounterAdd, Swap |
| `LimitsManager` | manager, limiter, tracker, enforcer, limits middleware for one identifier | buckets, windows, slots, lock | one action per check, Acquire, Undo, Finish, RecordUsage, Release |
| `ProviderHealth` | DoRequest, updateHealth, health checker | health record, ticker, what the provider would answer | one action per half of an attempt, the checker's steps, Close |
| `Router` | RouteRequest, selector, four strategies, statistics | pool, health, cache, counters | one action per critical section |
| `Retention` | pruner, scheduler, storage | stored, deleted, files, jobs | one action per storage operation or archive of Prune, Start, Stop |
| `PolicyEngine` | evaluation, priorities, matcher, executor, reload, FileSource, Close | files, installed policies, reloads, evaluations, what the files held during a reload | one action per policy or rule, per file read or skipped, Install, HandleEvent, Close |
| `PolicyManager` | manager, registry, directory loader, file watcher with debouncer, Git repository and watcher | configuration, registry, working tree, polls, timers, reloads | Change, Pull, checkForChanges, TimerFires, one action per step of a reload, LoadError, performReload, rollbackToPrevious, RollbackToCommit, ForceSync, Close |
| `PolicyIncludes` | include resolver and loader (pure, over a file tree) | tree, order | resolveFile, topologicalSort as operators |
| `MplParser`, `MplValidator` | builder, composer; structural, semantic and action checks (pure) | | one operator per function |
| `PolicyPipeline` | a policy composed, checked and evaluated | stage, policy, verdict | ComposePolicy, CheckPolicy |
| `Configuration` | schema, defaults, validation, environment, singleton | file, environment, global configuration, loaders | Initialize, ReloadConfig, StoreConfig, RewriteConfig |
| `ChatApi` | conversions and errors between client and providers (pure) | | one operator per function |
| `ChatProxy` | one HTTP request: middleware, handlers, adapters, stream producer | context, connection, middleware, handler, producer, channel, response, what the client received | one action per step of each goroutine, the two deadlines, the client leaving |
| `ProviderManager` | factory, manager, checkers | providers, instances | AddProvider, LoadFromConfig, RemoveProvider, Close, CheckerStops |
| `Lifecycle` | runServer, Server.Start, Server.Shutdown | main, start, listener, Once, defers, signals | one action per step of either goroutine |
| `Secrets` | manager, cache, file and environment provider | files, two caches, watcher, lookups | one action per critical section |
| `CertReloader` | certificate reloader | files with times, pair served | needsReload, StatFiles, ReadCertificate, ReadKey |
| `LimitsStorage` | memory and SQLite backend | states of each, with their times | Save, Delete, Cleanup, cleanupLoop |
| `*_MC` | small instances | | |
| `Structures_MC`, `Services_MC` | parts that share no state, side by side | `subject` | |
| `*_proofs` | TLAPS proofs, those of the small structures in `Structures_proofs`, those of the services and the router in `Services_proofs` | | |

Composition: `LimitsManager` instantiates `ConcurrentLimiter` for its slot
invariant, and abstracts `TokenBucket` and `SlidingWindow` to counters that lose
usage or regain tokens at arbitrary moments, a coarser clock than theirs. `Router` uses the affinity map that `StickyCache` is shown
to implement, and treats the round-robin choice as arbitrary because
`GetAvailableProviders` walks a Go map. `EvidenceRecorder` is shown to implement
`EvidenceLog`.

`Structures_MC` puts the structures that share nothing but the clock into one
run: each behaviour chooses a `subject` and exercises it alone. The bounds of
time are those of the subject. `Services_MC` does the same for the services of the
second half of the table. `PolicyPipeline` composes `MplParser`, `MplValidator` and
the field access and operators of the engine; `ChatProxy` builds on `ChatApi`.

Definitions under a comment "Faulty" are versions of a step with a bug that the
code could have had; nothing uses them in the specifications. Each property is
violated when the step it is about is replaced by one of them.

## 3. Runs

`tlc -workers 2 -config <cfg> <module>` in this directory.

| Run | Instance | Shows |
|---|---|---|
| `recorder` | 3 calls, 2 request IDs (arbitrarily shared), channel of 1, one Close | `ExactlyOnePlace`: a record is in the pending map, with one sender, on the channel, with the worker, or ended, and in only one of them. `AcceptedInOrder`: storage sees the channel's order. `DrainedOnClose`; `WorkerProgresses`: what is accepted is attempted and Close returns; `ImplementsLog` |
| `structures` | limiter: 5 goroutines, limit 2; bucket: capacity 3, 2 tokens per 3 ticks, 12 ticks, 1 Reset; windows: 3 buckets of 2 ticks, 10 ticks; cache: 3 keys, 2 entries, TTL 1, 4 Sets; round robin: 3 callers, counter limit 7, 14 picks | `LimiterIsExact` (limit and counter); `RateBound` (never more than bursts plus rate times time), `RetryWithinATick`; `WindowIsAccurate` (the sum lies between the window and the window less one bucket, and the two copies agree); `SizeBounded`, `ImplementsAffinity`; `EvenlySpread` |
| `limits` | 2 requests, block and downgrade, 1 slot, hourly budget 1 of bound 3 | `OvershootBounded`, `SlotsAccounted`, `RequestsEnd` |
| `limits_budget` | as above | violated: `ExceededBudgetBlocks` |
| `health` | 1 caller and the checker, a provider that answers, fails, denies or refuses (4xx), ints of 8 bits, up to 6 counted failures | `RecoversWhenUp`, `RequestsReturn` |
| `health_panic` | up to 9 failures | violated: `CheckerSurvives` |
| `router` | 2 goroutines, 3 requests of 4 kinds, 2 providers, 1 sticky key, 4 strategies | `RouteIsPermitted`, `StatsBalanced` |
| `retention` | 3 records, 2 overlapping jobs, time 0..3, MaxRecords 1, archive on | `KeepsTheNewest` (newest survive, limit reached), `NoJobAfterStop`, `ArchivesWhatItSaw` |
| `retention_archive` | 1 job, a query limit of 1 for the code's 100 | violated: `DeletedIsArchived` |
| `policy_engine` | 2 files, 5 policies over 2 fields, 3 fail-safe modes, 1 evaluator, 1 watcher, 1 caller, up to 2 edits; directories and a single file, one reloader or two that overlap | `DecisionIsExplained` (against a loop-free reference), `ChangeIsServed`, `InstalledWasHeld` (whatever reloads overlap, each installed policy stood in its file during the reload that installed it, and a policy is out of service only because its own file could not be used then), `QuietAfterClose` |
| `policy_management` | 6 configurations: file and Git mode, validation on and off, 2 policy files and another one, up to 4 changes (good, invalid, unparsable), 2 timer jobs, up to 1 operation of the operator and 2 loads that fail to read | `ServesForward` (no reload puts an older version in the place of a newer one, unless the tree was moved back), `SettledInStep` (when nothing is under way the newest good policies are served, except after a forced synchronisation that failed or a load that could not read, section 6), `NewestIsServed` (they are in the end, with the same exceptions) |
| `services`, configuration | 1 loader, 1 rewrite, files and environments that each break one rule | `ServedConfigurationIsSound` |
| `services`, policies | policies over every kind of field, operator and value, compositions of 2 files, chains and circles of variables; trees of 3 files, links and a file outside | `AcceptedPolicyIsEvaluable`, `IncludesAreResolved` (against reachability) |
| `services`, chat | plain and streaming requests, valid and not, 2 providers, 5 paths, channel of 1, the connection's deadline, the context's and a leaving client at every step | `AnswerIsFaithful`, `RequestsSettle` |
| `services`, lifecycle | every combination of components, 2 requests, 2 signals | `TornDownInOrder`, `SignalEndsProcess` |
| `services`, others | 3 provider instances; 1 secret with 2 versions and 2 lookups; 4 certificates over 2 keys, 5 writes; 3 storage keys for 2 places, times 1 to 3 in half seconds, retention 1 | `CheckersAreManaged`; `SecretsFollowFiles`; `CertificateCatchesUp`; `BackendsAgree` |

Every component has a type invariant; those of the components of section 4 are proved.

**Why the bounds are enough.** Each is the smallest at which the interesting case
occurs: a channel of one is full while another record waits; five goroutines can
push the counter of a limit of two past it by three; the bucket's rate is a
fraction, so that truncation loses a part at two of three ticks; ten ticks pass
all three slots of a window and reuse them at every alignment; three keys
compete for two entries; a counter limit of seven is not a multiple of the
weighted list's length and fourteen picks wrap it; six failures pass the point at
which the multiplier is capped, nine the width of the integer; three records
with a limit of one leave two to delete in either order; two edits change the
directory before, while and after it is read, or break a file and repair it. Four
changes of the policy files are a bad set, a good file beside it, the repair and one more;
two jobs let a reload be late while the next is due. Three half seconds put two saves
into one second and into two. A channel of one is full with one chunk under way; one secret suffices, because
the file cache is cleared as a whole; four certificates over two keys contain an
expired one and two that share a key. Requests beyond these only repeat
what two of them do, since no code distinguishes more than "this" and "another"
request. Symmetry is used in `router` (requests) and `retention` (jobs), which
have no temporal properties that it would make unsound.

`CHECK_DEADLOCK FALSE` is set where the system may stop: after Close
(`recorder`, `policy_engine`, `policy_management`) or when a bound is used up or the
process has exited (`structures`, `services`).

**Fairness.**
- `recorder`: weak fairness of the worker, of the return of Close, and of each
  RecordResponse in its select, which has a timer. No response has to arrive.
- `limits`: weak fairness of each request's steps; strong fairness of the steps
  that take the read lock, because Go's RWMutex admits the waiting readers when a
  writer leaves.
- `health`: weak fairness of the steps of callers and checker (timers fire,
  requests answer or time out) and of Close's return.
- `policy_engine`: weak fairness of the watcher's receive and exit, of reading
  the next file, of installing, and of Close's return.
- `policy_management`: weak fairness of the poll, of the timers and of the steps of a
  reload. `NewestIsServed` also assumes that in the end no poll falls into a reload:
  the poll interval is long against debouncing and reload. Without that assumption
  the property fails.
- `services`: weak fairness of the goroutines of a request and of its two deadlines (the
  connection's write deadline passes before the context's, both being `WriteTimeout` and
  the former set first), not of the provider; of both goroutines of the process and the shutdown timeout, not of
  requests; of the reloader, whose ticker keeps ticking.

Nobody is obliged to send a request, edit a file, call a reload or close, and
failures of storage, provider or file system are never fair.

**Scope of three properties.** `EvenlySpread` is about a list of providers in a
fixed order, which the strategy assumes; the router does not provide it (section 6).
`ChangeIsServed` is about a source that sends an event
for every change, as the PolicySource interface promises, with the watcher as the
only one to reload; no source of the repository sends events and overlapping
reloads may install out of order (section 6), which `InstalledWasHeld` bounds. `KeepsTheNewest` and
`ArchivesWhatItSaw` are checked over a storage whose query returns everything,
as MemoryStorage does.

## 4. Proofs

`tlapm <module>` in this directory. All hold for every value of the constants that
satisfies the named assumption.

| Theorem | Assumes | Argument |
|---|---|---|
| `EvidenceRecorder_proofs!TypeCorrect`, `RecordConservation`, `FifoDelivery`, `DrainBeforeClose` | `RecorderAssumption`: capacity at least 1, `NoRecord` is no record | One inductive invariant `IInv`. `ExactlyOnePlace` is not inductive: it does not exclude one record in two pending entries or twice on the channel (`NoDoubles`), a goroutine that sends without holding a record (`Holding`), or a record somewhere before its creation (`Uncreated`). That no record is accepted twice needs `AttemptedEnded`: what was offered to storage has a fate. The drain needs `Shutdown`: done, the worker's exit and Close's return come in this order, and a worker that has exited had offered everything accepted before done was closed |
| `FinalFates` | same | a fate changes only for a record that `IInv` locates in the place the step takes it from |
| `RecorderRefinesLog` | same | Send is Accept, WriteRecord is Attempt of the next accepted record (`AcceptedInOrder`), all else stutters |
| `Structures_proofs!LimitHolds` | `LimiterAssumption`: finitely many requests, positive limit | the limit is not inductive: admission compares the counter, so the invariant says what the counter means (inside plus about to undo); a lemma counts how one move changes the populations |
| `Structures_proofs!RateHolds`, `RetryIsEnough` | `BucketAssumption`: natural capacity, positive rational rate | the invariant adds what the bucket still holds and dates the account at `lastRefill`; truncation then only loses. For the retry it adds that a promised token is there or will be by the time of the promise plus a tick |
| `Structures_proofs!CacheBounded`, `CacheRefinesMap` | `CacheAssumption`: finitely many keys, positive TTL and size | size and types together are inductive; the refinement maps entries to their providers, where the second half of Get changes nothing |
| `Structures_proofs!WindowCountsRight` | `WindowAssumption`: at least one bucket of at least one tick, natural amounts | `WindowInv`: each bucket in use holds exactly what was added in its span of the clock, no two stand for one span, and a span without a bucket has left the window. That overwriting the oldest slot of a full window loses nothing recent is a pigeonhole argument: there are not more spans within the window than slots. That the head is only a shortcut follows from one bucket per span |
| `LimitsManager_proofs!SlotsAreAccounted`, `OvershootStaysBounded` | `ManagerAssumption`: finitely many requests, positive slot limit, natural or unlimited budgets | `SlotInv`: the counter is the requests that hold a slot and those about to give one back, on every path through the middleware. `OvershootInv`: what is spent and what the requests under way may cost is at most the budget and MaxCost for each request, because a request gets under way only while less than the budget is spent |
| `Services_proofs!RoutesAreRoutedRight`, `StatisticsBalance` | `RouterAssumption`: finitely many requests and providers, at least one kind of request | `RouteIsPermitted` alone does not survive the choice: `Precedence` says which requests reach the strategies and which store in the cache. The balance needs the sum over the providers' counters, whose library definition is a recursive function; that the recursion has a solution and how one increment changes it is proved first |
| `Services_proofs!SelectionsAreEven` | `RoundRobinAssumption`: finitely many providers, more than one, natural weights | `SpreadInv`: leaving out the selections in turn since the last reset of the counter, a provider is away from its share by at most the square of a round for each selection out of turn. The list has each provider as often as its share, with weights or without (`ListLaid`, by induction along the list); selections in turn are whole rounds and a part in which neither the provider nor the others exceed their share (`HitsAreFair`). Where a caller is and what it has counted does not matter, nor whether its compare-and-swap succeeds (`OutOfTurn`) |
| `Retention_proofs!StopOutwaitsJobs`, `NewestRecordsSurvive` | `RetentionAssumption`: finitely many records and jobs, a record is stored within less than the retention time | a cutoff read early stays sound: it lies in the past by the retention time, or has more than MaxRecords records at or after it, stored or deleted, and neither is undone by others (`AgeCutoffs`, `CountCutoffs`) |
| `Retention_proofs!PruneKeepsTheNewest` | also `QueryReturnsAll`, true of MemoryStorage | a job that queried keeps MaxRecords of what it saw, and all that is stored is among them unless a record came in since (`Cuts`) |
| `Retention_proofs!DeletesOnlyWhatItArchived` | `QueryReturnsAll`, and `DifferentTimes`: no two records with one request time | the batch has all that the job saw up to its cutoff and is written before Delete (`BatchIsComplete`). With equal times the statement is false (section 6) |
| `Services_proofs!BackendsStayInStep` | `StorageAssumption`: positive bound | the memory backend is a part of the table, state by state; the difference was evicted, and of a state not saved over both have the same CreatedAt |
| `Services_proofs!CheckersStayManaged` | `ManagerAssumption` of ProviderManager: configurations are records of texts | inductive with its types; lemmas say what closing and loading a list do to the running checkers |
| `Services_proofs!TearDownInOrder` | `LifeAssumption` | `StorageBeneath`: the storage is further down among the deferred closes than who writes to it, also among those not opened yet. `ServerInOrder`: whoever ends the server leaves it without requests or with an excuse |
| `Services_proofs!SecretsFollow`, `ReplacementsAreNoticed` | none | who holds old content, the cache or a lookup on its way to it, has news coming or was passed by it; times are taken before the files are read, so what has the file's time has its content |
| `Services_proofs!ConfigurationSound` | `ConfigAssumption`: a file that can be read holds a well-formed tree (what decoding into the Go structs gives) | `ConfigInv`: what is stored globally is the result of a load, and every load ends with a validation after the environment's overrides. So the work is in the operators: a configuration without validation errors can be served (`ValidStarts`), nests its budgets, has downgrades that end, by induction along the walk (`ValidDowngradesEnd`), and is left alone by a second application of the defaults because no default is itself a zero value (`DefaultsSettle`) |
| `ChatProxy_proofs!AnswersAreFaithful` | `ChannelAssumption`: the channel has room for one; `ChatAssumption`: what decoding JSON gives, messages, parts, blocks and events are lists and a content is null, a text, parts or another value | `ChatInv`. Streams: what went out, what is queued in the channel and what the reader holds make up, in this order, what was read (`Linked`), and an error is the last thing in a channel (`Produced`); so a channel found closed and empty in time (the context alive, the connection open) had its finish reason sent. Answers: every answer, written or about to be, repeats the reply (`AnswersMatch`); a status and its body pass through three stages (`StatusFits`), which the timeout middleware cannot disturb in time; a done marker has its reason (`DoneExplained`). Requests: the loops of the adapters keep what they take, in its order (`TakenRounds`, `TakenAligned`), and join the texts of the parts (`CollectIsText`) |
| `PolicyEngine_proofs!ClosedIsQuiet`, `InstalledIsWhatWasHeld`, `ReloadIsEffective` | `EngineAssumptions` | `ReloadInv`: a reload has read the files it no longer has to read, what it read is parsed (`ReadsParsed`) and, when nothing was edited since it began, current (`ReadsCurrent`); with the watcher alone a reload from before the last edit is over when a later one has succeeded (`WatcherAlone`); the watcher is gone when Close returns (`WatcherGone`). `HeldInv`: what each reload under way has read is among what the file held since it began |
| `PolicyEngine_proofs!DecisionsAreExplained` | also `PolicyAssumptions`: policies and rules are what parsing gives, the rules of a policy have different names and so have the policies of different files. The validator asks for the former, nobody for the latter, and the engine checks neither; with equal names and priorities the order of the code's sort, and so the decision, is any | `EngineInv`: files and what was read of them hold what they may (`Holding`), so every list installed is sorted and has sorted rules (`LoadedOK`, `InOrderSorts`: the place of an element is the number of those before it); and every evaluation stands somewhere in a list installed since it began (`Underway`): what it has passed is before what is left, none of it ended the evaluation, and its context tells exactly what the rules passed say that took effect (`Tells`: blocked, routed by the last to route, effects). Executing the actions of a rule adds that rule to what is told (`ExecuteActs`, by induction along the actions; `RuleFires`); a rule that ends the evaluation makes the passed ones the reached ones (`ReachedSoFar`), where the context and the reference agree (`DecisionAgrees`). What a condition evaluates to is a parameter of the argument |
| `PolicyManager_proofs!OnlyRollbacksGoBack` | `HistoriesAssumption`: finitely many files, histories of bounded length | `ForwardInv`: as long as the tree was not moved back, what is served is no newer than the tree, and what the load under way has read lies between the two. Only the holder of the manager's mutex reads (`OneReader`), so no other reload replaces what is served meanwhile; and the versions of the files only grow from commit to commit |
| `PolicyManager_proofs!RestsInStep` | same | `InStep`: the tree is a checkout of the commit it is said to be (`TreeIsCommit`), only the holder of the manager's mutex reads (`OneReader`), a reload starts with nothing read (`StartsAnew`), and when nothing will start a reload later the last one has read, or is reading, the tree as it is (`UpToDate`), except after a load that could not read |

Induction over data: the provers cannot instantiate an induction scheme with a
predicate, but they can with a set of numbers (`NatInduct`) and with a least
counterexample (`Minimal`, `LeastNat`). So the sums over sets, which are the folds of the
library, and the loops over lists (`LoopExists`: every loop has its values) are done
fact by fact, each with the set of numbers or the family of sets of its own.

Only model-checked:
- liveness (`WorkerProgresses`, `RequestsEnd`, `RecoversWhenUp`, `RequestsReturn`,
  `ChangeIsServed` beyond its safety half, `NewestIsServed`, `RequestsSettle`,
  `SignalEndsProcess`, `CertificateCatchesUp`): fairness and ENABLED are outside the
  prover;
- `AcceptedPolicyIsEvaluable` and `IncludesAreResolved`: their operators are recursive
  over trees, and a module with a RECURSIVE operator cannot be proved about.

## 5. What the violated runs show

- `limits_budget`: `Tracker.Check` returns at the hourly alert threshold before it
  has looked at the daily and monthly budgets; an exceeded daily budget admits
  requests.
- `health_panic`: `1 << uint(failures)` becomes negative at 63 and zero at 64
  failures; the cap does not see it and `ticker.Reset` panics.
- `retention_archive`: the archive's query sets no limit, SQLite storage applies
  100, and Delete removes everything up to the cutoff.

## 6. Other places where code and comments differ

Met while modelling; the models follow the code.

- RecordResponse's select may take the send after the worker's drain loop has seen
  an empty channel: Close returns and the record stays on the channel
  (`recorder.go:152`).
- RecordRequest says the record is enqueued; it only waits in `pendingRecords`, and
  for ever if no response comes (`recorder.go:105`).
- The nil check that `updateEvidenceWithResponse` makes for its other fields is
  missing for the original response.
- `Acquire` may reject below the limit while other rejected requests take back their
  increments (`concurrent.go:51`).
- RetryAfter is truncated: after exactly that wait the token may be missing
  (`token_bucket.go:106`).
- The limits middleware and the handlers never call RecordUsage
  (`middleware/limits.go:24`); the model lets a handler record or not.
- persistState saves no counters and NewManager loads none: a restart forgets
  spending.
- A failed health check is counted by DoRequest and by performHealthCheck: the
  circuit opens after two failures, not three.
- The provider list that reaches round robin has the random order of a Go map.
- Two first requests of a sticky key may both miss and be routed apart
  (`sticky.go:10`).
- `DefaultProvider` is never read (`router_impl.go:62`); Snapshot is not
  point-in-time (`stats.go:89`).
- A second prune of a day truncates the archive of the first (`pruner.go:308`); with
  the query limit of SQLite, pruning by count finds nothing for a MaxRecords of 100
  or more.
- Pruning by count archives the oldest records but deletes everything up to the request
  time of the last of them (`pruner.go:207`): a record to be kept with that same time is
  deleted, and not archived. With different request times it cannot happen, as is proved.
- A file of a directory that cannot be read or does not parse is skipped, and its policy
  is out of service until the next reload that finds it well (`source/file.go:95`).
- Of two overlapping reloads the one that read first may install last
  (`engine.go:494`). `InstalledWasHeld` says how far that goes: not further back than the
  beginning of the reload that installs.
- FileSource.Watch never sends (`source/file.go:139`).
- MatchedRules lists every evaluated rule (`engine.go:311`); in fail-open mode a
  missing field makes a deny rule match (`matcher.go:76`).

Policies and configuration:

- The Git watcher's Stop "waits for it to exit" (`git/watcher.go:114`) but only closes
  a channel; a Start after it ends at once.
- With Validation.Enabled false the manager returns before any validation
  (`manager.go:467`) and serves whatever parses; the model has both settings.
- A load that fails for an I/O error is not tried again (`manager.go:204`): the older
  policies are served until the next change. `SettledInStep` and `NewestIsServed` except
  it until the next reload begins.
- A rollback after a failed reload goes to `lastCommitSHA`, which may name a commit
  that was never loaded; the poll then pulls the bad commit again.
- A forced synchronisation that fails moves the tree back (`manager.go:747`) without
  loading it. When others have reloaded meanwhile, the registry serves something else
  than the tree holds, and the next pull, which compares commits, finds nothing changed.
  The proof of `SettledInStep` led to this; two operations of the operator are needed.
  The property and `NewestIsServed` except it until the next reload.
- Files are loaded after what they include (`GetSortedPaths`), except through a
  symbolic link: the order is by name, the identity by target. Two links to one file
  are taken for a loop.
- A `budget` action can never be accepted: the builder consumes the `type` the
  validator asks for. The functions `len`, `lower`, `upper`, `contains` and
  `has_sensitive` pass the validator and are unknown to the matcher; so are all fields
  under `processing.` and `context.` to `extractField`; variables are checked but never
  substituted. `AcceptedPolicyIsEvaluable` is about the comparisons of fields that the
  engine knows. Two variables that refer to one undefined variable are reported as
  circular.
- LoadConfig validates before the environment is applied, and once more after it; an
  explicit `false` of a flag that defaults to true is overridden; a provider that only
  the environment names gets no default timeout; after a failed Initialize the next one
  returns nil and there is no configuration (`singleton.go:28`).

Requests:

- LoggingMiddleware's writer does not implement http.Flusher: the flushes for
  streaming do nothing (`proxy/response.go:140`), the status goes out with the first
  event.
- The 504 of the timeout middleware may be mixed into an answer that has begun; when
  both cases of its select are ready, the error body may even follow a complete answer.
  A stream cut by the deadline may end with `[DONE]` and no error, which is why parts of
  `AnswerIsFaithful` speak of requests in time. A panic of the handler goroutine is
  not recovered.
- "Client receives 504 Gateway Timeout" (`middleware/doc.go:102`): it does not. The
  connection has the same `WriteTimeout` (`server.go:69`) as the middleware
  (`server.go:184`) and its write deadline is set first, so it has passed when the 504 is
  written. In the model the client then receives nothing, and `RequestsSettle` promises
  an answer only to clients that stay and whose request is over before that.
- A producer with an error to report on a full channel stays for ever when the handler
  has left (`openai/client.go:144`); `RequestsSettle` excepts it.
- An empty Anthropic answer becomes a 200 with an empty text; an explicit temperature of
  0 is dropped by omitempty; n, seed and response_format are not passed on; the OpenAI
  adapter drops tool calls of earlier messages; of several system messages Anthropic
  gets the last.
- A ValidationError of an adapter and a network error after all retries become 500, the
  lack of a healthy provider 502; ModelNotFoundError is never constructed.
- A failed replacement leaves the name without a provider (`providerfactory/manager.go:44`),
  and AddProvider holds the mutex while it closes the old one. runServer sets the type
  to the name, so that a provider with a name of its own is unsupported.

Process and files:

- A signal between Start's Notify and main's WaitForShutdown stops the server while main
  waits for a second one; one before any Notify kills the process without the closes;
  a Shutdown before Start has set isRunning uses up the Once. waitForServerReady only
  sleeps. A TLS error leaves isRunning set.
- The secret file cache has no expiry: a value read before and stored after a refresh
  stays until the next one; removal of a file is no reason to refresh
  (`secrets/file.go:145`).
- `CreatedAt` is "when this state was first created" (`storage/types.go:54`). Saving over
  a state, SQLite keeps it (`sqlite.go:139-142`), the memory backend replaces it by that
  of the new state (`memory.go:109-118`). `BackendsAgree` excepts this field of states
  that were saved over.
- The memory backend evicts also when it overwrites; the limits manager stores empty
  states and never loads any.

## 7. Not modelled

Text (formatting, encoding, redaction), cryptography, SQL, metrics and tracing, the
command line, and status getters that read one variable. `float64` rounding, torn
reads of a map replaced without a lock, and MemorySource, which only tests use. The value of a tag (an action may overwrite it, `types.go:265`) is
abstracted to its key.

Left out of modelled components: an error of the list of changed files after a pull,
ForceCheck, and Watch after Close (policy management); positions and suggestions of
errors (MPL); references inside strings, listing, KMS and Vault, which are stubs
(secrets); building TLS configurations and checking client certificates (left to
crypto/tls); aliasing of stored states, SQL errors and Close (limits storage); panics
of handlers (proxy). `CertReloader` assumes that every write has a later modification
time. The packages of secrets and certificates are modelled as libraries: the server
does not import them.

Not modelled at all: API keys (a map under a mutex), token and cost estimates and text
analysis (sequential, about text), logging, metrics and tracing, the health checks of
`pkg/telemetry/health` (imported by nothing), evidence export and query, the command
line.

## 8. Plan

Done: the evidence path, limits, provider health, routing, retention and the policy
engine; then policy management, configuration, the policy language, the proxy, the
lifecycle and the services.

Proved: the safety properties of the core, the structures, the services, the router
and its round robin, the proxy's request, retention and both policy components (section 4).

Left: `CertReloader` (what is served is a pair
that belongs together); abstract specifications of `PolicyManager` (a register of
loadable sets) and `ProviderManager` (a map).
