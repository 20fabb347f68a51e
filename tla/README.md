# kube-insight in TLA+

kube-insight watches Kubernetes clusters, keeps the history of every object as
evidence (versions, facts, edges, changes) in SQLite or ClickHouse, and answers
questions about it through an HTTP API, an MCP server and an agent. Its core
promise is that the evidence is right: nothing the cluster said is lost,
invented, replaced by something older, or cited without a proof, and an answer
says no more than the evidence does. This directory models the parts that have
to keep that promise, checks them with TLC and proves the most important facts
with TLAPS. Paths below are relative to `src/`.

## The system

| Component | State | Operations | Talks to |
|---|---|---|---|
| Collector worker (`internal/collector/watch*.go`), one per resource | `WatchSummary` (resourceVersion, counters), retry loop, previous references | list, reconcile deletions, watch, bookmark, retry, relist, refresh, resume | API server, ingest pipeline, store, scheduler |
| Stream scheduler (`watch_tuning.go`, `watch_resources.go`) | active slots, request table, summaries that score | register, tryAcquire, poll, refresh, release, unregister | workers (shared memory, one mutex, one score mutex) |
| Initial lists (`watch_resources.go`) | semaphore, barrier | list every resource, then start the streams | workers |
| Resource names and profiles (`internal/kubeapi`, `resourceprofile`, `resourcematch`, `processing`) | resolver: registered resources | register, resolve a kind or a resource, logical path, profile of a resource | ingest pipeline, discovery |
| Ingest pipeline, filters, extractors (`internal/ingest`, `filter`, `extractor`) | none of its own | profile, filter, audit, raw document, extract, store | resolver, store: several calls per observation |
| SQLite store (`internal/storage/sqlite`) | objects, versions, latest_index, latest_raw_index, edges, facts, offsets | PutRawLatest, PutObservation, UpsertIngestionOffset, reads | workers; one connection, so transactions are serial |
| SQLite maintenance (`retention.go`, `clusters.go`, `backfill.go`, `prune.go`, `reindex.go`, `compact.go`, `migrations.go`) | the same tables | retention, delete cluster, migrate, backfill, prune, reindex, compact | a timer or a command beside the workers |
| ClickHouse store (`internal/storage/clickhouse`) | buffer, flush timer, batches on their way, tables | PutObservation, UpsertIngestionOffset, Flush, insertPending | workers, timer goroutines, readers |
| Investigation (`storage/sqlite/service_investigate.go`, `storage/clickhouse/read_service.go`) | what one answer has collected | one query after the other | the tables, while they are written |
| Agent runs (`internal/api/agent.go`, `a2a*.go`, `internal/agent/store.go`, `retention.go`) | sessions, runs, their status and event log | create, retry, execute, cancel, fail, recover, follow, retention, delete | HTTP handlers, runner goroutines, store |
| Agent turn (`internal/agent/eino_runner.go`, `api/agent_context.go`, tools) | conversation, queue of messages, tool timings, scripts and their files | replay context, ask the model, call tools, record, cite | the Eino library, the model, the store |
| Health (`internal/mcp/health_cache.go`, `cluster_resolver.go`, `storage/sqlite/offsets.go`) | cached reports, refresh loop | report, resolve a cluster, refresh | offsets of the collectors |
| Service (`internal/cli/command_serve.go`, `command_benchmark_watch.go`, servers) | parts, contexts, background loops, open stores | start, fail, stop, wait | everything above |

Hard behaviours and what they must not break:

* Workers: errors at every call, in any order, with the resume point taken
  *before* an event is stored; lists racing with the cluster; versions that
  expire; crashes between two transactions of one observation. No false
  deletion, no regression to older evidence, no offset ahead of the evidence,
  and convergence after the trouble.
* Scheduler: goroutines that poll for slots, leave for a refresh, rotate, fail
  or are cancelled. No leaked slot, no request without a worker, no idle slot,
  no starvation of a high priority resource that is in good health.
* Pipeline: an object is named by kind, resource, path and UID at different
  places, and the resolver and the database do not know the same resources;
  filters rewrite a document along two paths. An edge leads to the object it
  means, noise makes no version, of a secret's payload nothing is stored but what
  an annotation repeats.
* SQLite: objects are found by UID, stub or name from observations and edges of
  several workers; two latest pointers; retention by several rules beside the
  writers; commands that rewrite history in batches. One row per incarnation,
  pointers to the newest version, numbers that are never reused, evidence with
  a proof, and a history that tells the same story afterwards.
* ClickHouse: batches that are drained under one mutex and inserted under
  another, a timer that is stopped, fired and armed again, partial insertions.
  Nothing stored twice or forgotten, no missed flush, unique numbers.
* Agent runs: a status and the events that tell it are separate writes, and six
  kinds of actors write them. One outcome, told truthfully; followers that skip
  nothing and are released; retention that takes nothing that is needed.
* Agent turn: three goroutines of a run see calls, results and timings in
  different orders. Each call audited, no result without its call, links that
  lead somewhere, earlier turns not forgotten.
* Service: parts that fail, race with the stop, own stores and loops. The cause
  is reported, a stop is heard, nothing works on a closed store.

`PROJECT.json` lists every component with its status and every hazard at its
line with the properties that cover it, or why none does.

## Modules

| Module | Models | Built on |
|---|---|---|
| `WatchWorker` | a collector worker | |
| `StreamScheduler` | the slots of the pool | |
| `KubeNames` | kinds, resources and logical paths (operators) | |
| `Ingest` | pipeline, filters, extractors, the rows they make | `KubeNames` |
| `SqliteStore` | identity, versions, pointers, retention | |
| `SqliteUpkeep` | migrations, backfill, prune, reindex, compact | |
| `ClickHouseBuffer` | buffer, timer, insertion | |
| `ServiceAnswer` | abstract: what an investigation promises | |
| `Investigation` | the investigation on both backends | implements `ServiceAnswer` |
| `RunOutcome` | abstract: the outcome of a run and what is told of it | |
| `AgentRetention` | which runs and artifacts retention takes, what a run replays (operators) | |
| `AgentRuns` | runs, events, doors, followers, retention, crashes | `AgentRetention`; implements `RunOutcome` |
| `Subsequences` | what a loop keeps of a sequence (operator) | |
| `AgentContext` | the conversation a run starts with (operators) | `AgentRetention`, `Subsequences` |
| `AnswerCitations` | artifacts and citations (operators) | `Subsequences` |
| `ScriptTool` | the script tool, its queries and files | |
| `AgentTurn` | a turn of a run | `AgentContext`, `AnswerCitations`, `ScriptTool` |
| `HealthCache` | health reports and their cache | |
| `Service` | serve, its parts, the initial lists, start and stop | `HealthCache` |
| `*Proofs` | theorems, see [Proofs](#proofs) | the module of their name; `CollectorProofs`: `WatchWorker` and `StreamScheduler`; `IngestProofs`: `Ingest` and `ClickHouseBuffer` |
| `MC*` | instances for TLC | the module of their name |

### WatchWorker

One worker, for both entry points: mode `single` is `WatchResourceClientGo`,
`pool` is a worker of `WatchResourcesClientGo` through its initial list,
its queue, its refreshes and its stream. The environment is the API server (a
log of writes; a resourceVersion is an index; objects are UIDs, so one is
created and deleted at most once; a compacted prefix answers 410 Gone) and
faults.

* `pc` is where the goroutine stands; `job` and `phase` say which function it is
  in: `listResourceOnce` (`refs`, `list`, `ingest`, `put`, `commit`) or
  `watchResourceStream` and `handleWatchEvent` (`open`, `announce`, `top`,
  `wait`, `ingest`, `put`, `commit`, `mark`).
* `rv` is `summary.ResourceVersion` of the running call and `base` that of
  `worker.Summary`; `rv` moves when a list or an event arrives, before it is
  stored, as in the code. `listRV` and `needsList` are the loop's locals.
* `PutRawLatest` and `PutObservation` are two steps. A list puts its items
  before the deletions reconciled from the references read before it.
* A `List` with a resourceVersion may return any snapshot not older than it,
  one without returns the most recent one.
* `FailSingle`, `FailList` and `FailStream` are the three error loops: which
  offset status they record, whether they count, give up, list again or end the
  worker. An expired version, a closed stream, a transient and any other error
  are told apart exactly as `isResourceVersionExpired`,
  `isTransientWatchStreamError` and `isGracefulWatchStop` do.
* `Deadline` is the end of a rotation window. Overall `--timeout` and
  `--max-events`, used by tests and benchmarks, are left unset as `serve` does;
  filters keep every observation; ingestion reads a resource in one namespace
  scope.

### StreamScheduler

`watchStreamScheduler` with the goroutines of `runWatchStreamPhase`. The request
table is a sequence in order of arrival, because the sequence number only breaks
ties. `Score` is `watchScheduleScore`, with its caps; its three signals are kept
per worker as the capped sums (`busy`, `trouble`, `cost`), to which a stream adds
what `Gains`, `Losses` and `Costs` allow its worker. Waiting time is
counted in whole minutes up to four, after which the bonus is at its cap.
`Take` is a successful `tryAcquire`; `TryNow` and `Poll` are its two callers;
`Release` frees the slot before `Merge` updates the summary that scores, as the
code does. During a refresh a worker does not poll but its request stays.

### KubeNames and Ingest

`KubeNames` has the resolver (`Register`, `ResolveGVK`, `ResolveGVR` with their
fallbacks; what is registered is kept in order, so that the last of a group and the
first of a kind are found), the logical path of every kind of reference the extractors write
(`Path`, one case per reference site), and the way the store reads a path back
(`TargetInfo`) with the `api_resources` table, which is not the resolver. A path
is the sequence of its segments.

A worker of `Ingest` takes an observation through `IngestJSON` in three steps.
`Decode` registers what the table and a CRD define, resolves the kind, selects the
profile and its chain (`ChainOf`), filters (`Applied`: the filters up to the first
that discards; `Removed`: what those in scope drop) and writes the audit of
decisions. `PutRawLatest` is the first transaction, with its own redaction of
secrets. `StoreObservation` is `ExtractSet` and the second transaction: the
unchanged document is skipped, or else the version and the edges are stored, one
after the other (`PutEdges`), each with the kind and the row of its target. `Fail`
is an error of the store, or the end of the process, before either. The payload of a
secret is in two fields of its own and, after `kubectl apply`, in an annotation
(`lastApplied`), which is a field like any other for both paths. A document is a
function from the fields the filters and references tell apart to values; a field
that a filter brings to a normal form is present when the document is not in it.
Between the two transactions of an observation the object may be left `torn`.

Four assumptions on the constants are for the theorems; TLC evaluates them for the
cluster of the run. `NamesAssumption` is about the cluster: a kind has one
resource in whichever group it may be looked for, which no fallback guesses
wrongly, one type in a version of its group, and `Secret` is the core kind.
`ChainsAssumption` is about the configuration: the chain that a resource's profile
selects takes the noise out of its documents and nothing else, or discards them.
The default chains satisfy it; a chain that drops less makes versions of noise, one
that drops more loses what an object says.

The other two are for the theorem about edges. `ClusterAssumption`: a resource of a
group is served in one version, and an object has a namespace exactly if its type
has. `ReferencesAssumption`: each reference means one resource of the cluster
(`MayMean`), and the three parties that name it agree. The resolver finds it by the
kind and group that the site asks with, or guesses it (`KindIsKnown`); the store
finds it by its path, in discovery or among the standard resources of the version of
the object that refers to it, which excludes groups without a dot (`PathIsKnown`);
and a namespace is written where the API has one (`IsPlaced`). None speaks of the
table or the resolver as they become: that these never unlearn or confuse what they
were given is what is proved. A cluster with two groups that have a kind of one name
does not satisfy it where a reference gives no group.

### SqliteStore

One cluster's tables. A transaction is a step (the pool has one connection);
`inflight` holds an observation between its two transactions. `Candidates`,
`RowFor` and `Ensured` are `ensureObjectRecord`: by UID, then a stub of the name;
without a UID, an observed row before a stub, lowest id first. `Store` is the
second half of `PutObservation` with `putVersion`, `updateLatest` and
`putEdges`; an edge ensures its target by name. `Selected`, `ApplyRetention` are
`retention.go`, where several rules fill one keyed table. What the cluster does
is abstracted to `Observable`: any content of an incarnation that has not been
seen deleted, its DELETED event, and a deletion reconciled by a relist from what
the store itself still takes for live. Facts, changes, observations and blobs
are deleted by the same selection as edges and are not kept apart.

### SqliteUpkeep

A database that this version of the program finds, opens (the migrations) and
maintains while a collector writes. A command plans a batch with a query
(`job.plan`) and applies it in a transaction; the collector and its retention
come in between, and the command may end anywhere. Versions keep their ids and
sequence numbers, `observations` the history that versions are the content of
(the sightings of an object are numbered in the order of `observed_at`),
`evidence` what facts, changes and edges were made of. `Normal` is the filter
chain now in force, applied by backfill to documents that were stored before it.

### ClickHouseBuffer

The buffer, its timer and the insertion. `Drain` is `drainLocked`, a drained
batch waits in `batches` for `insertMu`, `TakeInsertMu` acquires it and reads the
latest versions (`latestVersionStates`), `InsertBatch` and `InsertFails` end it;
a failure may come after any of the tables. `timer` and `firing` distinguish a
timer that is armed from one whose goroutine has been started and not yet run.
Offsets replace each other in the buffer, and in the table the newer
`updated_at` wins. `lost` is a history variable.

### ServiceAnswer and Investigation

`ServiceAnswer` is what an investigation promises to its caller whichever
backend answers. `Investigation` is the code: for SQLite one query per step
(service, edges of each object, versions, ranking), with rows that are named by
path until they are observed; for ClickHouse batches that fill `aliases`,
`versions` and `edges` one after the other and may be lost between two of them.
The refinement maps a query in progress to the question asked.

### RunOutcome, AgentRetention and AgentRuns

`RunOutcome` says that a run is opened once, gets one outcome that never changes,
and that nothing told of it contradicts it. `AgentRuns` is the server: a step is
one call of the store.

* `rs` is the table of runs, `events` the events of each (a set, ordered by
  `num`), `go` the goroutine that works for a run, from the request that created
  it to its end: `running`, iterations with tool calls, citations, the answer,
  completion and its event; a parent waits for its children with a deadline and
  cancels those that are late.
* `cancel` is a request of the API or the A2A door between its read, its update
  and its event; `deletion` the deletion of a session.
* `retention` is a pass between its reads and its transactions, periodic or
  after a successful run.
* `follow` is a client of the event stream, of the A2A stream, or of one task,
  with its cursor. `phase` is the server's life, with `Restart` reading the runs
  to recover and `Recovered` failing them.

### AgentContext, AnswerCitations, ScriptTool and AgentTurn

`AgentContext` puts together the messages a run starts with: the latest recorded
request of each earlier turn of the branch, or what can be read from the events.
`AnswerCitations` selects artifacts for an answer and binds labels to them.
`ScriptTool` has scripts at every helper call: queries that run at once under a
budget, writes beside the file with a rename, reads, lists.

`AgentTurn` has the two goroutines of a run: the agent's (`turn`), which asks the
model, calls tools and puts what they say in `queue`, and the loop that takes it
from there (`loop`, with the answer and the citations it has still to tell, and `todo`)
and appends events to `log`; `timings` is shared by all runs of
the server. `completion.request` events come from the agent's goroutine, so
their order among the others is open. Errors, cancellation and the end of
iterations may come at each step.

### HealthCache and Service

`HealthCache` is the cache of `kube_insight_health`: offsets of collectors over
time, reports made of them, entries per set of options, a call between its
steps (clusters, cache, report, keep), the refresh loop that reads
report by report. `Service` is `serve`: `main` starts the parts and waits for
their errors, each part is a goroutine with its own way to end, `ctx` and `list`
are the contexts of a watch with their initial lists under a semaphore, `task`
the background loops, `open` the stores. `Leave` is a part's return, `Stop` a
signal.

### Composition

The modules meet at named places. `WatchWorker` contains the part of the SQLite
store that one worker can see (row, latest version, offset), with the same two
transactions as `SqliteStore`, which takes over what several workers do to the
tables; `Ingest` puts the pipeline in front of the same tables for objects of
many kinds. `StreamScheduler` decides when `WatchWorker`'s `StartStream`,
`RefreshQueued` and rotation happen; `WatchWorker` allows them at any time, so
what holds there holds under every schedule. `ClickHouseBuffer` replaces the
store below a worker that uses ClickHouse. `Service` contains `HealthCache`:
its collectors write the offsets that a report reads, and its end ends the
refresh loop. `AgentTurn` uses the retry and replay rules of `AgentRetention`
that `AgentRuns` prunes by.

## Runs

Each run of `PROJECT.json` is an MC module with a `.cfg`.

| Run | Question | Instance |
|---|---|---|
| `watch_safe` | Under every fault, for ever: is a deletion ever invented, does evidence regress, is an open stream ever behind? (`NoFalseDelete`, `NeverRegresses`, `StreamCaughtUp`) | both modes, rotation, 2 objects (symmetric), 4 writes |
| `watch_pool_live` | Does a worker whose relists and store calls succeed converge after gaps, expiry and crashes, and is the offset always covered? (`Converges`, `OffsetIsDurable`) | pool, 2 objects, 3 writes |
| `streams_fair` | Slots, orphan requests, idle slots, starvation of high by low (`SlotsAreAccounted`, `NoOrphanRequest`, `IdleSlotIsTaken`, `HealthyHighIsNotStarved`) | a high worker with errors and many objects, two low ones that share a key or do not, 1 slot, rotation, refreshes, failures, cancellation |
| `sqlite_store` | Do pointers, identity, raw documents and proofs agree, and is enough history kept, under interleaved writers and retention? (`TablesAgree`, `HistoryIsKept`) | 2 incarnations of a pod, a slice with edges to the pod, 3 versions, 2 ages |
| `sqlite_upkeep` | Do migrations, backfill, prune, reindex and compaction keep pointers, proofs and the story of every object? (`PointersHold`, `EvidenceHasProof`, `StoryIsKept`) | 3 old databases with a history of three versions, one new with retention; 2 objects, 3 documents |
| `clickhouse_buffer` | Is every observation in one place, numbered once, and does everything land? (`InOnePlace`, `EverythingLands`) | 2 workers, 3 observations, batches of 2 |
| `ingest` | Do edges reach the object they mean, does noise stay out of the history, and what is stored of a payload? (`EdgesReachTheirObject`, `NoiseMakesNoVersion`, `LatestSaysWhatRawSays`, `OnlyTheAnnotationKeepsAPayload`) | 2 workers (symmetric), 3 of 25 observations, which cover every reference site and filter |
| `investigation` | Does an answer hold what was related to the service and nothing else, with its proof, while the store is written? (`KeepsThePromise`, `ProofIsShown`) | a service, a slice, a pod and its node; 5 observations for SQLite, 3 for ClickHouse; a limit and none |
| `agent_runs` | Does a run get one outcome, and does retention leave what answers and work in progress need? (`OneOutcome`, `CitationsResolve`, `AnAnswerStays`, `WorkInProgressIsKept`) | a run and its retry or child, an artifact each, one cancel request, retention, aborted requests, early ends of the model |
| `agent_follow` | Does a run end, does a follower see everything and is it let go, does a completed task come with its answer? (`RunsEnd`, `FollowerSkipsNothing`, `FollowersAreReleased`, `CompletedTaskHasItsAnswer`) | one run, each kind of follower, an A2A cancel, a deletion, one stop and restart |
| `agent_turn` | Is every call audited, does every link resolve, do results follow their calls, is what earlier turns said replayed, are files read whole? (`CallsAreAudited`, `LinksResolve`, `ResultsFollowCalls`, `EarlierTurnsAreKept`, `ReadsAreWhole`) | eight scenarios, below |
| `serve` | Are answers of the health tool fresh and right about coverage; when serve ends, is the cause reported, is a stop heard, is everything stopped? (`AnswersAreFresh`, `AnswersHaveEvidence`, `CauseIsReported`, `StopIsHeard`, `StopsClean`) | seven selections of services, below |

### Bounds

*Worker.* A property names one object, and the second lets a list have something
before, after and beside it. Four writes allow create, update, delete and one
write of the other object or of another resource between any two steps; the
trouble (expiry, rotation, refresh, crash) can come several times within them,
since faults are not counted. Faults that a worker handles alike are represented
by one of them in `watch_safe`.

*Scheduler.* One slot is the worst case for starvation and two waiting workers
are enough for every order of requests; two workers that share a key take each
other's requests, and two that do not can pass the slot to each other; four
minutes reach the cap of the waiting bonus, and the clock jumps by four so that a
tick is "long enough". The signals of the score reach their caps: a low worker has no
events before its first stream and as many as count (50) after it; the high one has
as many objects as count (40), and its streams and refreshes meet no error or two
(20 each), up to the cap (80). So its score falls below that of the low ones, and the property says when it does
not: `Healthy` is the condition under which the longest wait makes up for it.

*SQLite.* Two incarnations of one name, one object that refers to the name, and
three versions, so that one can expire while the minimum is kept. For the
maintenance commands three found versions give every pattern of equal
neighbours; there is room for four sightings, so a collector writes while a
command is under way. Only one command runs at a time.

*ClickHouse.* A worker that fills a batch alone and one that shares it, and three
observations, so that two batches can be on their way at once.

*Pipeline.* Each input is there because one site, filter or scope treats it in a
way of its own; three calls are two versions of one object and an object between
them, or a source, its target and its definition in every order.

*Investigation.* Five observations let every object be a stub, be observed, and
change its edges once while a query of at most seven reads is under way.

*Agent runs.* Two runs are a retry and what it hides, or a parent and its child;
every property names one run or one such pair. `agent_follow` has one run
because a follower follows one. One crash can fall at every step; recovery starts
from what it left.

*Agent turn.* `Answering` is one turn with calls of several tools, answers with
and without labels, errors and cancellation; `Branching` the same as a child;
`Following` a turn after another; `Talking` three turns with retries;
`Overlapping` two turns at once in one session; `Scripting` scripts that query,
write, read and lose their session's files; `Sharing` two scripts of one reply;
`Condensing` the condensing tool. Two model requests are one round of calls and
an answer; three calls are two of one reply and one of another turn.

*Service.* Web UI beside a collector of two contexts (one with two resources);
API with MCP; the app beside a collector; MCP alone with a client that names a
cluster, abbreviates it, names two at once, asks without a name while offsets
are written, or asks while time passes.

Counters with a bound in a guard: `MaxRV`, `MaxVersions`, `MaxClock`, `MaxObs`,
`MaxRuns`, `MaxNew`, `MaxArtifacts`, `MaxCrashes`, `MaxIngests`, `MaxTime`,
`MaxBatch`, `MaxIterations`, `MaxCalls`, `MaxHelpers`, `MaxWrites`, `MaxLoops`,
`room`; `Minutes` bounds a jump of the clock.

Deadlock is not checked where the system may rest: a quiet cluster leaves a
worker waiting, a worker or a cancelled pool ends, a session has no more turns,
bounds stop a behaviour.

### Fairness

* `WatchWorker`: weak fairness of the worker's own steps, because it is a
  goroutine whose calls return; weak fairness of `Heal`, which says that faults
  stop some day (runs that do not want it allow the fault `forever`); strong
  fairness of `StartStream`, since a worker that keeps leaving for refreshes
  polls between them, and of `DeliverEvent`, since every rotation window starts
  again behind the last event seen. The cluster has no fairness: it may stop.
* `StreamScheduler`: time passes, goroutines that can run do, a refresh and a
  rotated stream end. Strong fairness of a poll that would succeed: the timer
  fires every 250 ms whatever the others do. A refresh that retries for ever
  does not end, and then `IdleSlotIsTaken` does not hold either: see its hazard.
* `ClickHouseBuffer`: timers fire, their goroutines run, an insertion returns.
* `AgentRuns`: goroutines run, the model answers in the end (`Iterated`: there is
  a limit on iterations), a request that was started ends, retention ends, a
  stopped server is started again, a stream's ticker fires. No client is obliged
  to ask for anything.
* `Service`: goroutines run, a listener that is shut down returns by its deadline,
  a list or a stream of a context whose context is cancelled ends. Before the
  stop nothing says that a list ends, as retries are unlimited.

The other specifications have safety properties only.

## Proofs

`CollectorProofs` proves of `WatchWorker`, for every set of objects, every log length, both
modes, every retry limit, with or without rotation and for every choice of
faults:

* `TypeCorrect`: `Spec => []TypeOK`;
* `NoFalseDeletion`: `Spec => []NoFalseDelete`: whatever fails, races, retries
  or crashes, an object the store calls deleted has been deleted.

Assumption: `ConstantsAssumption`, the kinds of the constants. `NoFalseDelete`
is not inductive: a deletion is inferred from a reference that was live in the
store and is absent from a list. For this to be right the list must not be older
than the reference, and that is a fact about the whole history of the worker.
The inductive invariant `IInv` adds what the code relies on, part by part:

* `KnownIsBorn`, `KnownIsCovered`: what the store takes for live was created,
  no later than the version that the next list will ask for (or the worker will
  ask for the most recent one);
* `AsksForLastSeen`, `ListComesFirst`: a retried list asks for at least the last
  version seen, and a new call that may know less lists the most recent state;
* `StreamFollows`: an open watch delivers from the resume point on;
* `PreviousIsKnown`: the references of a list are known objects;
* `WorkIsTruthful`, `WorkIsOver`: every observation still to be stored says
  something that is true of the cluster, and there is none left outside the
  ingesting states;
* `SeenIsLogged`, `DeletedWasBorn`: versions are indices of the log, and a
  deletion in it follows a creation.

`IInv` was first checked with TLC. The proof has one lemma per group of actions
(environment, errors, list, queue, stream); monotonicity of `Born` and `Died` in
the log is stated once and cited everywhere. The same module goes on from `IInv`
in three layers, each with an inductive invariant on top of the one before:

* `StreamStaysCaughtUp`: `Spec => []StreamCaughtUp`, without an assumption.
  `LifeInv`: an object ends once (`LogIsLife`); an observation in hand carries
  the version of a write, or of the list that missed its object
  (`WorkIsLogged`); nothing comes between the references and the list
  (`RefsAreCurrent`); and what the last version seen says is stored or in hand
  (`CaughtUp`), which is what an idle stream with nothing in hand makes into the
  property.
* `EvidenceNeverRegresses`: `Spec => NeverRegresses`, assuming that the retries
  are the default ones (`MaxRetries < 0`) where a pool meets store failures.
  `OrderInv`: what a stream has seen covers what is stored (`LatestIsSeen`,
  `BaseIsSeen`), what is in hand is newer than what is stored (`WorkIsNewer`).
  The assumption is needed: with `--retries` at a number, a refresh that the
  store fails and that gives up leaves stored versions above the version that
  its stream starts from; see the list of divergences below.
* `OffsetStaysDurable`: `Spec => []OffsetIsDurable`, assuming that the calls of
  the store succeed (`"store" \notin Faults`), as the run does. `DurableInv`:
  what is recorded and what a stream will start from has been seen, and
  everything seen is stored or in hand. With store failures the property is
  false, for the reason in the list below: `rv` moves before the event is stored.

Its second part proves of `StreamScheduler`, for any finite set of workers, any number of
slots, any priorities, any sharing of schedule keys and any order of polls,
refreshes, rotations, failures and cancellation:

* `SchedulerTypesHold`: `SchedulerSpec => []SchedulerTypeOK`, in particular the
  counter of open streams stays between zero and the limit and the capped signals
  within their caps;
* `SlotsAccounted`: `SchedulerSpec => []SlotsAreAccounted`: the counter is the
  number of open streams;
* `NoOrphans`: `SchedulerSpec => []NoOrphanRequest`.

Assumption: `SchedulerAssumption`; the limit is positive because with a zero
limit `acquire` grants every request without counting. `SchedulerTypeOK` is not inductive: that a
release does not make the counter negative follows from `SlotsAreAccounted`.
`NoOrphanRequest` is not inductive either, because workers that share a key share
a request and a worker that is cancelled removes it only if it made it or joined
it since (`mine`). The invariant therefore says who is responsible:

* `RequestsAreUnique`: a key has at most one request, so dropping one leaves none
  of its key;
* `OwnRequest`: a worker that owns the request under its key is in the queue;
* `RequestsAreOwned`: every request has an owner.

There is one lemma per way a step changes the table (it stays, drops or grows)
and one for each change of the set of open streams (stays, opens, ends); the step
lemmas combine them.

`AgentRunsProofs` proves, for any number of runs, artifacts, cancel requests and
crashes, any requests, faults and followers:

* `OutcomesAreOne`: `Spec => OneOutcome`: `AgentRuns` implements `RunOutcome`,
  with the status of a run as the outcome and the statuses in its events as what
  is told;
* `EventsAreTrue`: an event that tells an outcome tells the one that its run has
  in the store.

Assumption: `AgentRunsAssumption`, the kinds of the constants. A step of
`AgentRuns` maps to a step of `RunOutcome` only if whoever is about to write an
outcome knows what became of the run since it looked: the goroutine that
completed it, a cancel request between its update and its event, a parent that
gave up on a child, a recovery. The inductive invariant `IInv` has a part for
each place where such knowledge is kept:

* `TableOK`: runs of the table have been created and have a status;
* `EventsOK`: what an event tells is the `Truth`: the outcome of its run, if the
  run is still there; ids are not given twice;
* `GoOK`: a goroutine that is about to tell an outcome owes (`Owes`) the true one;
* `CancelOK`: so does a cancel request;
* `RetentionOK`: the artifacts that a pass is about to delete tell no outcome.

`Truth` is kept by every step because an outcome never changes and a deleted run
never comes back (`StoreStep` says this of the store). Every way to
change the store (nothing, an event, a status, a run created, runs deleted,
artifacts deleted) has a lemma that gives the new store and the abstract step,
and every action has one that says which it is.

Its second part goes on from that invariant, with the same assumption, to what
the events of a run hold. It sorts the steps by what they do to the events
(`NextKind`: quiet, an event appended by its writer, a deletion, a pass of
retention, a follower, an exit), so that each invariant has one lemma per kind:

* `CitationsStay`: `Spec => []CitationsResolve`. `CiteInv`: while the goroutine
  of a run may still write its answer or a citation, the run is not completed
  (`StillAtWork`); what it is about to cite and has cited is stored
  (`CitesHold`, `CitationsHold`); and what a pass has chosen to delete belongs to
  runs that are over, whose answers do not cite it (`PassSpares`). The last part
  is the reason why a pass may delete what it chose long before;
* `TasksHaveTheirAnswer`: `Spec => []CompletedTaskHasItsAnswer`. `TaskInv`: a task
  whose status was read as completed stays completed, so the events that are read
  next hold the answer, which is written before the status;
* `StreamsAreComplete`: `Spec => []FollowerSkipsNothing`, assuming that retention
  does not run (as in `agent_follow`). `StreamInv`: events are numbered without a
  gap (`NumbersOK`), and what is up to the cursor was sent (`CursorOK`). With
  retention it is false; see the list below.

Its last part is about what a pass of retention takes, with the same assumption:

* `AnswersStay`: `Spec => AnAnswerStays`, and `WorkIsKept`:
  `Spec => WorkInProgressIsKept`. `FamilyInv` has three parts. `KinOK`: a run was
  created after the run its retries began with (`Origin`), and the parent of a run is older than that
  one, because a retry takes over the parent of what it retries. `LeavesAnAnswer`: what a
  pass has chosen to delete leaves a completed run, unless the session is being
  deleted, however many runs start and end between the read and the deletion.
  `PassWaits`: a pass takes artifacts only of runs that have their outcome, as has
  all they descend from.

`LeavesAnAnswer` needs what `SupersededRuns` computes. `RetryBranch` is a fold over
the runs in their order, and `BranchOK` its invariant, by least counterexample
(`BranchesHold`): for every run that goes there is a completed one that does not,
whose retries began no later (`StandsFor`). `BranchGrows` and `BranchCut` are its two
steps. A run goes with its children, so the completed run that stands for it could go
as a child of another that goes; but then that one is an older run that goes, by
`KinOK`, and the oldest of those has a completed run that stays (`AnAnswerIsLeft`).
`Reached` is the least set closed under a link, so what a run descends from
needs no induction (`ReachedClosed`, `ReachedLeast`, `Ancestors`).

`AgentTurnProofs` proves, for any scenarios (runs, tools, replies of the model,
failures), any limits and budgets:

* `ScriptsReadWholeFiles`: `Spec => []ReadsAreWhole`, assuming `~SharedPaths`: no
  path is written by a script while another writes it. The temporary name is
  made of the path alone (`internal/agent/scratch_store.go:129`), so two writers of
  a path share it, and the property is false. `FilesInv`: a path belongs to one writer; what is under its
  temporary name is what that writer has done so far, unless a cleanup removed
  it; and what has the final name is whole;
* `CompletedRunsAreAudited`: `Spec => []CallsAreAudited`. `AuditInv` follows a call
  through the hands it passes: it is open in the tools node, or its result is in
  the queue, or its audit is among the events to append or in the log (`Kept`).
  The results of the queue are of different calls, each with the input of the call in the
  shared `timings` until it is taken, and an audit is made once (`Book`). The runs
  share `timings`, so no two runs have a call in common: ids are new when the
  model gives them (`FreshIdsAreNew`). A run completes with an empty queue,
  nothing to append and no call open, so all its calls are in the log.

* `NoResultWithoutItsCall`: `Spec => []ResultsFollowCalls`, and
  `EveryEarlierTurnIsGiven`: `Spec => EarlierTurnsAreKept`. `TalkInv` says of every
  run that its messages are a conversation (a result follows the message that made
  the call) with its own question in it, that every request in the log is one, and
  that until a request is there the log says nothing but the question. The
  last part is needed for the turns that follow: of a turn without a request the
  single messages are read, which know a reply without its calls, and a
  turn that has results has a request. The tools node hands back the results of
  the reply that stands in the messages (`Replied`). `TurnIsGiven` says what
  can be read of one such log: a conversation with the question and, after it,
  the last answer; `PriorRunsAre` that a branch has earlier runs only;
  `ConversationIs` puts the turns together;
* `AnswersCiteTheirEvidence`: `Spec => []LinksResolve`. `LinkInv`: the log has no
  answer before the loop tells it (`NoFinal`, also of what waits to be appended),
  the answer told is the loop's, with its citations, whose artifacts are in
  the log before it (`FinalsOK`), the citations below `told` are in the log (`CitesOK`),
  and a completed run has told all of them (`EndOK`). That what is cited is an
  artifact of the log follows from `CandidatesAre`, `VerifiedIs` and `PlacedIs`:
  each label and each name finds a candidate, whatever the scores (`BestIs`), and
  placing keeps the order; `MarkersAre` says that an annotated text has no other links.

Assumptions: `TurnAssumption`, `ScriptAssumption` and `PathsAssumption`, the kinds
of the constants (the model writes labels; a link is what replaces one, so its
text has none) and that "none" is not a path. The lemmas on sequences (`Concat`,
`AuditsAdd`, `AuditsSplit`, `QueueAdds`, `QueueSplit`) say which calls a sequence
of events speaks of after an append, a concatenation or a head and tail. What a
loop computes is a recursive function here (`Picked`, `ActiveBranch`, `Bound`,
`Noticed`), or `FlattenSeq`, and is proved about with two lemmas: `Iteration`, a
function carried on from one number to the next exists, and `UpTo`, a set of
numbers that holds 0 and with each the next one holds all.

`ServiceProofs` proves, for any clusters, streams, clients, times to live and
selections of services (`ServiceAssumption`, `HealthAssumption`):

* `AnswersStayFresh`, `AnswersKeepEvidence`: what the health tool answers is not
  older than a time to live, names the cluster that the input means, and is
  complete only when every stream it counts had been listed. `HealthInv` says this
  of every place a report passes through: the query, the loop, the cache, the
  answer (`GoodQuery`, `GoodLoop`, `GoodEntry`, `GoodAnswer`), and of the offsets
  it is made from (`StatusIsEarned`);
* `CauseStaysReported`: by `CauseComesFirst`, no part reports twice and the first
  error comes before the stop; `ErrorsArrive` says that whoever cancels the
  others has put its error first;
* `TypesHold`, `StoresStayClosed`: by `OwnersHold` and `LoopsAreWaitedFor`, a
  store is open and a loop runs only while their owner is there;
* `StopStaysClean`: `Spec => []StopsClean`, assuming `~Racing`: two first calls of
  the health tool that race start two loops, and `Close` knows one. What holds
  also then is `StoresStayClosed`.

`IngestProofs` proves of `Ingest`, for any number of workers, any observations with
any number of references, any rules and chains, whichever transactions fail, from
`NamesAssumption` and `ChainsAssumption`, and the last from all four assumptions:

* `HistoryEndsWithTheLatest`: `IngestSpec => []LatestSaysWhatRawSays`;
* `VersionsDifferInMeaning`: `IngestSpec => []NoiseMakesNoVersion`;
* `SecretFieldsStayOut`: `IngestSpec => []OnlyTheAnnotationKeepsAPayload`;
* `EdgesReach`: `IngestSpec => []EdgesReachTheirObject`.

None is inductive. `IngestInv` follows an observation from the API server to its
version:

* `KnownFits`: whatever the resolver and the table have learned gives the kind of
  an observation its own resource, so its profile is that of its type
  (`InfoIsType`). Registrations come from the cluster, from discovery, from
  definitions and from edges that guess; `Fits` says of each that it is no wrong
  answer, and the lemmas up to `TargetFits` that registering, ensuring a kind and
  guessing one keep that;
* `JobsFit`, `OneWorker`: what a worker carries is what its chain left of the
  observation, and no two workers carry one object (`KeysDiffer`);
* `RowsFit`, `RawFits`: versions and raw documents are of observations of their
  object, the former filtered, the latter redacted;
* `RawIsWritten`: between the two transactions the raw document and the mark of
  deletion are those of the observation. Other workers make rows for the targets of
  their edges meanwhile, and even that leaves versions alone and only makes rows
  live (`Grows`);
* `ObservedLives`: what is observed was not seen deleted, so the newest version
  that is compared is not a deletion;
* `VersionsDiffer`: versions in a row differ. With filtered documents that is
  `NoiseMakesNoVersion`.

The edges have an invariant of their own, `EdgeInv`, next to it. What happens to the
table is the point of it: every reference and every observation writes the resource
it names into the table (`EnsureKind`), scope included, and later paths are read with
what is there.

* `Lists`: the rows of the table are resources of the cluster with their own scope,
  those discovered among them. `EnsureKindLists` shows that a target that is read
  right leaves it so;
* `Learns`: once an observation has been decoded, the resolver knows the standard
  and the discovered resources, and nothing that the cluster does not have
  (`LearnedLearns`).

The lemmas follow a reference: what its site asks for (`ClassAsks`, `SiteAsks`),
which resource and scope the resolver gives it (`ResolvesTo`, `ScopeIs`), the
namespace and the path that come of it (`PathAsks`, `PathIsWritten`), the segments of
that path (`PathSegments`), and what the store makes of them (`TargetInfoIs`,
`PathLeads`). `EdgeLeads` puts the two ends together.

Registering, storing edges and the table are recursive functions and choices of
the first or last index; `RegistersExist` and `PutsExist` show, by the least
counterexample, that the functions are what their equations say.

Its second part proves of `ClickHouseBuffer`, for any number of workers and
observations, any batch size and any failures and crashes, `BufferTyped` and
`StaysInOnePlace`: `Spec => []InOnePlace`. `BufferInv` adds to the property that
what is on its way is finite and numbered (`GoodOnes`) and that, while a batch is
inserted, the versions are those that it has read (`ReadIsCurrent`): the insertion
mutex is why numbers are not given twice. `NewNumbersDiffer` is the lemma about
the numbers a batch gives, whatever is in it.

`SqliteStoreProofs` proves, for any names, incarnations, references and
retention rules:

* `TablesStayAgreed`: `Spec => []TablesAgree`. `StoreInv` adds that UIDs belong to
  their names, that versions belong to rows and ids are unique, and
  `DeletionsAreGone`: a deletion that is between its two transactions has left no
  raw document, neither in the row of its UID nor in a stub that would take
  the UID. Without it, the second transaction could not be shown to leave
  `RawIsLive` alone;
* `HistoryStaysKept`: `Spec => HistoryIsKept`. Of the versions of a row that
  retention takes, the newest is beyond the minimum of the rule that took it
  (`RetentionKeepsEnough`), so that many newer ones stay.

`SqliteUpkeepProofs` proves, for any objects, documents and filters, any history
that is found, any batches, and any order of commands, crashes and writes between
them:

* `PointersStay`: `Spec => []PointersHold`;
* `EvidenceStays`: `Spec => []EvidenceHasProof`;
* `StoryStays`: `Spec => StoryIsKept`.

All three assume `RetentionIsNew`: retention runs only on a database that was
created by this version. On an old one it may take the version that a plan merges
into, and the pointers are then wrong; see the list of divergences.
`EvidenceStays` also assumes `ReindexIsOffline`, since a reindex stores the
evidence of its plan without looking whether the version is still there.
`UpkeepInv` has two halves. Of the tables:

* `VersionsOK`, `PointersOK`: ids and sequence numbers of an object grow together,
  and both pointers name the newest version;
* `SightingsOK`: a later sighting is never of an older version;
* `RunsAreSeen`: an old database keeps versions that no sighting refers to, but
  each has the document of one before it that was seen, and of all between
  (`SameFrom`). This is why a prune, which keeps only what was seen, loses no
  content and why the pointer it moves shows what was seen last.

Of a plan that waits (`JobOK`, `BackfillOK`):

* an id that it names was given and is not given again, so what has the id is the
  version that was planned (`Given`, `UpdatesOK`): a new id is the highest plus
  one, and retention never takes the newest version of all;
* a version to prune and the one that takes its place have one normal form, all
  versions between them are pruned too, and nothing is pruned into what is itself
  pruned (`Replaces`, `PrunesOK`), so sightings stay in order when they move;
* what was not seen goes (`UnseenGo`).

Without retention the version that is pruned into is still there; with it, the
foreign key of the sightings fails the transaction (`EachMoves`). For the
evidence, `EvidenceInv` adds that what a reindex is about to store is still true
of its version (`ItemsOK`), and `BackfillSeen` that sightings moved to a version
come after its own first one, which says whether it is a deletion. The story is
kept because every step leaves each sighting with content of the same normal form
(`Retold`); the sightings that a migration makes refer to the first of a run of
equal documents, which has the document of all (`OpenTellsTheSame`).

The store modules need the least and greatest element of finite sets; they get
them from the library's theorem that every set of naturals has a minimum of the
well-founded order, which takes a set and not an operator.

`InvestigationProofs` proves, for any finite set of objects of any kinds, any
edges, windows and limits, any batches, and any writing between two queries:

* `PromiseKept`: `Spec => KeepsThePromise`: both backends implement
  `ServiceAnswer`. A write or a query that gathers is a `Learn` of the abstract
  specification, the first query an `Ask`, the last a `Reply` or a `Refuse`;
* `ProofShown`: `Spec => []ProofIsShown`;
* `AnswersAreGathered`: the invariant that both need.

Assumption: `InvestigationAssumption`, the kinds of the constants, and that the
service is of kind Service. The difficulty is that the tables and the names in
them change under a search that takes many queries, so that what it will find is
none of the states of the graph. `AnswerInv` therefore brackets it: from above,
what is gathered is related to the service *now* (`VisitedIsRelated`,
`GatheredIsRelated`, `RowsAreRelated`, `NamesAreRelated`), which more edges do not
undo; from below, there is a set `E` of edges, those of the moment of the
question, so that each object that is to be looked behind waits or has shown all
that `E` relates it to (`SearchIsThorough`, `RowsAreThorough`), and nothing that
had a document then has been dropped (`NothingIsDropped`). For ClickHouse this
rests on the order of the tables: a name by uid is registered before a row uses it
(`NamesOK`), so the names that an alias query returns include the one that each
edge uses (`AliasesCover`). When nothing waits, what was visited is closed under
`E`, and so holds what was reached.

The last step needs what `Reach` means. It counts rounds up to the number of
objects; `ReachIsLeast` proves that it is the least set that is closed under the
links, and `ReachGrows` that it is monotone. Both are inductions over the rounds,
done by least counterexample: the rounds for a number exist (`SpreadsExist`), each
adds an object or ends the search (`RoundsGrow`), none leaves a closed set
(`RoundsStayInside`).

### What is only model-checked

* All liveness (`Converges`, `IdleSlotIsTaken`, `HealthyHighIsNotStarved`,
  `EverythingLands`, `RunsEnd`, `FollowersAreReleased`, `StopIsHeard`): beyond the
  prover.

Every safety and action property of the runs is stated by a theorem.

## Where the documentation says more than the code does

Met while modelling; each is reachable in a model when its fault, input or
schedule is allowed, and none contradicts a property of the runs. The first two
are findings of `PROJECT.json`: the runs contain them, and their properties say
what is left of the claim.

* `docs/dev/test-acceptance-plan.md:187` "high-priority resources are not starved by
  low-priority churn": objects and watch errors take up to 40 and 80 points off
  (`internal/collector/watch_tuning.go:300`) and events add up to 50. A high
  resource with both has 60 points after the longest wait, a busy low one 140, so
  low ones take turns for ever. `HealthyHighIsNotStarved` holds; without its
  `Healthy` TLC finds the cycle in the run's own instance.
* `docs/dev/test-acceptance-plan.md:26` "no Secret payload is stored in safe-default
  mode" (also line 284, and `docs/operators/security/security-retention.md:17`): a
  secret that was applied with kubectl carries it a second time, in the annotation
  `kubectl.kubernetes.io/last-applied-configuration`. Neither the filters
  (`internal/filter/filter.go:133`) nor the default chains
  (`internal/config/default.yaml:179`) nor the redaction of the raw document
  (`internal/ingest/raw_latest.go:10`) take it out, although
  `docs/operators/ingestion/ingestion-and-extraction.md:143` lists it as ignored by
  default. So a secret that is applied with another payload also gets a version.

* `docs/dev/test-acceptance-plan.md:64` "watch gaps recover through relist": a
  store transaction that fails for one event leaves the resume point behind the
  event (`internal/collector/watch_resources.go:305`), and no relist follows.
* `docs/dev/test-acceptance-plan.md:65` "delete events are represented by watch
  tombstones or relist reconciliation": a crash between the two transactions of
  a deletion leaves `deleted_at` without a DELETED version
  (`internal/ingest/json.go:123`), and the relist does not look for the object.
* `docs/operators/data/data-model.md:185` "`deleted_at` is the time kube-insight
  observed a Kubernetes delete event": an edge that names a deleted object
  clears it (`internal/storage/sqlite/store.go:647`).
* `docs/operators/data/data-model.md:103` edge types between pods, replica sets
  and deployments: with a group without a dot (`apps`) the store reads the path
  of the target as kind, namespace and name (`store.go:660`).
* `docs/operators/data/data-model.md:260` "points at the newest normalized
  `versions` row": after retention has taken a canonical version a prune can
  point to it (`internal/storage/sqlite/backfill.go:309`).
* `docs/operators/configuration/configuration.md:377` "It deletes expired older
  versions": a version that two rules select fails the transaction
  (`internal/storage/sqlite/retention.go:222`).
* `docs/contributors/ingestion/global-watcher-design.md:179` "Offsets are
  committed only after the corresponding retained version ... is durable": with
  ClickHouse a batch with an offset can overtake the one with the evidence
  (`internal/storage/clickhouse/store.go:159`).
* `docs/users/tutorials/a2a-integration.md:159` "The terminal snapshot includes
  `"final": true`": a run whose terminal event was never written has none, and
  its stream does not end (`internal/api/a2a_stream.go:86`).
* `docs/dev/agent-session-context-storage-plan.md:191` "must not read cumulative
  snapshots from previous runs": `internal/api/agent_context.go:177` does.
* `docs/contributors/product/agent-first-web-ui.md:231` a label is kept only when
  it can be bound to a verified artifact: an unlabelled citation takes a label
  of its block that was meant for another
  (`internal/agent/answer_citations.go:270`).
* `docs/dev/background-tasks.md:28` the refresh loop stops with `Close`: two first
  calls at once may start two loops, of which `Close` knows one
  (`internal/mcp/health_cache.go:126` looks outside the mutex); `Racing = FALSE`
  leaves this out of the run.

* `docs/contributors/ingestion/global-watcher-design.md:179` "Offsets are
  committed only after the corresponding retained version ... is durable" also
  fails with SQLite when a call of the store fails (`rv` has moved past the event,
  `internal/collector/watch_resources.go:305`): `OffsetStaysDurable` assumes that
  none does.
* The summary of a refresh that gives up is not merged into that of its worker
  (`internal/collector/watch_resources.go:143`): with a finite `--retries` and a
  store that fails in the middle of a list, the stream starts behind what the
  refresh has stored and puts older versions after newer ones.
  `EvidenceNeverRegresses` leaves this case out; the default never gives up.
* Retention may take the newest event of a run (an artifact of a cancelled run
  whose goroutine is still at work); the next event gets the number again, and a
  stream whose cursor stands there may pass over it, since events of one number
  are told apart by random ids (`internal/api/agent.go:675`).
  `StreamsAreComplete` assumes that retention is off.

## Not modelled, and simplified

Left out, with the reason in `PROJECT.json`: single queries, DDL, one-shot
collectors, flags and output, configuration and sanitizing, benchmarks, the chDB
and memory stores, and the agent store over ClickHouse. What is simplified in a
module:

* `Ingest`, `Investigation`: one incarnation of every object (`SqliteStore` has
  several). Facts and changes are not told apart. An investigation's `from`,
  facts and documents are left out; SQLite may show an object twice whose stub is
  upgraded in the middle of a query; ClickHouse refuses a whole answer for one
  neighbour without a document, and its cap counts the two names of an object.
* `Ingest`: whether a profile is enabled is asked by the collector and not by the
  pipeline, so it is no field of a rule. The scope of the leader election is that of
  the default configuration, which gives paths (the filter without paths asks for
  the core group, `internal/filter/filter.go:273`). That a filter may discard a
  change and keep the resource (`internal/ingest/json.go:127`) is left out: no
  filter of the repository does.
* `SqliteUpkeep`: dry runs, vacuum, the rollup of filter decisions and the move of
  documents out of `latest_index` are left out. Retention pauses while a reindex
  runs (`Offline`), since that command is documented as offline, and runs beside
  the others only on a database of this version; see the hazards at `reindex.go:283` and `backfill.go:451`.
* `HealthCache`: the filters by status and errors are left out: a filtered report
  counts only the rows it shows (`internal/storage/sqlite/offsets.go:158`), and so
  says less by being complete.
* `AgentRuns`: what an event tells is its status. Its type is not kept, and may say
  something else: a request to cancel that comes too late records `run.cancelled` with
  the status that the run had ended with (`internal/api/a2a.go:420`), and a branch that
  fails too late `run.failed` (`internal/agent/parallel_investigation_tool.go:239`).
  The wait of SendMessage ends at any time; a task is one read of the
  status and one of the events; session listing and its paging are left out.
* `AgentTurn`: `message.delta` events are one per answer, and a stream that breaks in
  its middle is left out; so are follow-up suggestions, transcripts of the
  oldest format and the runtime context message, and links to citations that the
  model itself writes, which the code neither makes nor looks for. Provider call ids are taken to be
  unique, and a tool's timing to be put before its message is read. Children of
  a parallel investigation are turns of their own (`Branching`).
* `ScriptTool`: scripts write paths of their own in the run (`SharedPaths = FALSE`):
  two that write one path share its temporary file. No path is the temporary name of
  another: a script may load one that ends in `.tmp`
  (`internal/agent/scratch_store.go:188`), and find half a file.
* `Service`: the store is SQLite; a ClickHouse store of a watch is neither flushed nor
  closed. Deadlines of shutdown are nondeterministic. The metrics server
  behaves as the web UI. Errors of the reads of a health call are left out.

## Plan

Done: the collector, scheduler, pipeline, both stores, maintenance,
investigation, agent and service, with the refinements of `RunOutcome` and
`ServiceAnswer`. Next:

1. The agent store over ClickHouse as a second instance below `AgentRuns`, where a
   deleted run may come back (`internal/storage/clickhouse/agent.go:96`).
2. `WatchWorker` over `ClickHouseBuffer`, and several workers of `WatchWorker`
   over one `SqliteStore`, as refinements of an abstract evidence log.
