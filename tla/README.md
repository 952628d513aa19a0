# Verification of the PowerSyntax language server

TLA+ specifications of the language server in `src/server/` (paths below are
relative to the repository), TLC configurations that check them on small
instances, and TLAPS proofs about the modules everything else rests on.
`PROJECT.json` says for every definition which lines it models, for every run
which properties it checks, and for every hazard which property would catch it.

The server is a Node process: one thread, so what runs between two `await`s is
atomic, and everything hard in it is what happens *at* the awaits, in the files
it leaves behind when it dies, and in state that is maintained incrementally.
An action of a specification is a method or handler up to its next await.

## 1. The system

| Component | State | Operations | Talks to |
|---|---|---|---|
| **Task scheduler** `runtime/scheduler.ts` | two queues, a slot per lane, armed drain, cancellation tokens | `runInteractive`, `enqueueNear`, `enqueueBackground`, `requestDrain`, `cancelAll*`, `shutdown`, the drain loop | every request handler, the indexer and the watcher submit work; asks an admission gate (memory pressure, latency governor) |
| **Semantic index** `knowledge/KnowledgeBase.ts` | published state, staged state of an open batch, epoch | upsert, remove, clear, nested batches, resync, restore | written by editor, watcher, indexer, startup; read by every feature; its epoch keys the caches |
| **Semantic invalidation** `knowledge/semanticInvalidation.ts`, `semanticDiff.ts` | none (a plan per edit) | plan before, plan after, merge | document handlers and watcher intake; evicts serving caches |
| **Workspace indexer** `indexer/workspaceIndexer.ts` | passes and cursors of a run, file states, status | structural pass, enriched pass in a batch, skip, cancellation | the startup task, which holds the Background slot; worker pool; index and document cache |
| **Worker pool** `indexer/workerPool.ts` | workers, the task of each, a queue | run, answer, error and replacement, terminate | indexer |
| **Inheritance graph** `knowledge/resolution/InheritanceGraph.ts` | caches of one epoch | ancestors, distance, descendants, member closure | index; features, through the hot context |
| **Persistent semantic cache** `cache/cacheStore.ts`, `cacheCheckpoint.ts` | files (checkpoint, journal, one of each per project, manifest); journals in memory | load, append, checkpoint, compaction, validation, clear | startup, analysis cache, maintenance commands |
| **Serving caches** `ServingCache`, `HotContextCache`, `PresentationCache`, code lenses | LRU partitions keyed by document version and epoch | get, set, invalidate, export, restore | features; invalidation plans; snapshot file |
| **Flush coordinator** `cache/servingCacheFlushCoordinator.ts` | dirty flag, flush in flight | mark, flush | serving caches, store |
| **Analysis and document caches** `analysis/analysisCache.ts`, `knowledge/DocumentCache.ts` | analyses by URI and fingerprint, LRU of 512 records with pins | analyse, invalidate, evict, export, restore | index, store |
| **Diagnostics** `analysis/diagnosticScheduler.ts`, `runtime/generationGuard.ts` | a timer and a generation per URI | schedule, cancel, clear | document handlers, scheduler |
| **File watcher** `system/fileWatcherDebouncer.ts`, `workspace/watchedFileIntake.ts` | pending events by URI, a timer | push, flush, apply | scheduler (Background, preemptible), index, caches |
| **Lifecycle** `handlers/lifecycleHandlers.ts` | phase of startup | early restore, discovery, restore, checkpoint, index, checkpoint | all of the above |
| **Workspace state, readiness** | project routing, readiness | | read by features |

Not server logic, or pure: parser and analysis (functions from text to facts),
language features (read-only queries), build runners and the ORCA bridge (child
processes of Windows tools), the editor client, and `plugin_old` (the previous
implementation). `fairScheduler`, `indexStateInvariants` and `cacheJournal` are
reached by their own tests only. `PROJECT.json` lists them all with the reason.

### What is hard about each, and what makes it correct

* **Scheduler.** Cancellation is cooperative: a cancelled body goes on and ends
  later, when its slot may hold another task; several drain loops are suspended
  at once; a refused Background task is retried by a timer that shares a flag
  with the immediate drain. Correct: the lanes exclude each other, no queued
  task is forgotten, and every one of them settles.
* **Index.** An upsert touches only the buckets of the document's old and new
  contribution, under shared ids, in nested batches. Correct: all maps answer
  from the same contributions, an edit changes what is shown of its own
  document only, and a batch is published whole or not at all.
* **Invalidation.** The edit that takes away an export is the one after which
  nobody depends on it any more, so plans of two states are merged; the watcher
  awaits a file between the two. Correct: exactly the documents that rested on
  the edited one, before or after, are invalidated.
* **Persistent cache.** Up to 2n + 3 files without a commit point; torn writes;
  half-deleted directories; appends that nobody awaits; a compaction beside
  them. Correct: what is restored is never older than what was acknowledged.
* **Indexing pass and worker pool.** A batch waits for its slowest file; a worker
  may die with a task; cancellation is seen at the head of a loop. Correct: every
  task settles, the pass ends, and what it reports is what the index holds.
* **Freshness.** Startup, watcher and editor write contents they read some awaits
  ago to one index; windows of watcher events overflow and forget timers; an
  intake that was preempted goes on beside its successor. Correct: the index
  comes to hold what the disk has, or the editor.
* **Diagnostics.** Timers, immediate publications, background refreshes, deletions
  and closes cross. Correct: nothing stays that is stale, and every open document
  gets full diagnostics of its last text.
* **Caches of answers.** Three of them hang on the epoch, which a restore may set
  back; their file is written by flushes that overlap edits and fail. Correct: an
  answer bound to an epoch is that of the epoch's content.
* **Inheritance graph.** Cycles, duplicates, native ancestors; the search upwards
  and the one downwards use different indexes. Correct: both are the closure of
  the declared relation.

## 2. The modules

| Module | Extends or instantiates | Holds |
|---|---|---|
| `Scheduler` | | the task scheduler |
| `LaneContract` | | what it promises: the abstract specification |
| `SchedulerProperties` | `Scheduler`, instance of `LaneContract` | invariants, refinement mapping, liveness |
| `Subsequences` | | `Array.filter`, by the positions of what it keeps |
| `QueueLemmas` | `Subsequences` | facts about sequences used as queues, about filtering them, and about when loops end |
| `SchedulerProofs` | `SchedulerProperties`, `QueueLemmas` | theorems |
| `MCScheduler` | `SchedulerProperties` | instance for TLC |
| `KnowledgeBase` | | the semantic index |
| `KnowledgeBaseProperties`, `MCKnowledgeBase` | in that order | its properties, instance |
| `SemanticInvalidation` | `KnowledgeBase` | editor, watcher and indexer as actors on the index, and the plans; its properties |
| `KnowledgeProofs` | `KnowledgeBaseProperties`, `SemanticInvalidation`, `HierarchyProperties`, `QueueLemmas` | theorems about the three parts of `knowledge/`: index, invalidation, inheritance graph |
| `MCInvalidation` | `SemanticInvalidation` | instance |
| `SemanticCacheStore` | | the store, its files, startup, crashes |
| `SemanticCacheStoreProperties`, then `SemanticCacheStoreProofs` and `MCCacheStore` | each the properties | its properties, theorems, instance |
| `WorkerPool` | | the pool of analysis workers |
| `IndexingPass` | `WorkerPool`, `Subsequences` | both passes of the indexer over the pool |
| `IndexingPassProperties`, then `IndexingPassProofs` (with `QueueLemmas`) and `MCIndexingPass` | each the properties | its properties, theorems, instance |
| `DiagnosticScheduler` | | timers, generations, and the handlers that use them |
| `DiagnosticProperties`, then `DiagnosticProofs` and `MCDiagnostics` | each the properties | its properties, theorems, instance |
| `FileWatcherDebouncer` | | the window of watcher events |
| `WorkspaceIndexing` | `FileWatcherDebouncer` | disk, editor, startup task and intakes as writers of one index |
| `WorkspaceIndexingProperties`, then `WorkspaceIndexingProofs` (with `QueueLemmas`) and `MCWorkspaceIndexing` | each the properties | its properties, theorems, instance |
| `ServingCache` | `Subsequences` | the cache of answers, its flushes and its file |
| `InteractiveServing` | `ServingCache` | epochs, requests, hot context, graph cache, sessions |
| `InteractiveServingProperties`, then `InteractiveServingProofs` (with `QueueLemmas`) and `MCServing` | each the properties | its properties, theorems, instance |
| `InheritanceGraph` | | the searches over the declared types |
| `HierarchyProperties`, `MCHierarchy` | in that order | their reference definitions and properties, instance |

### Scheduler, LaneContract, SchedulerProperties

`Scheduler` has one action for every public method of `TaskScheduler` and two
for the continuations: `DrainFires` (the `setImmediate` or the 25 ms timer calls
`drainQueues`) and `FinishTask` (a body ends: the loop that awaited it settles
its promise, clears the slot if the task still holds it and goes round). Every
suspended activation of `drainQueues` awaits one body, so the set `running` of
awaited bodies *is* the set of suspended loops; `cancelled` are the tasks whose
token is cancelled. A task in both is a preempted body that has not noticed yet.
`DrainQueues(near, background, run, scheduled)` is one round of the loop, shared
by both; its alternatives are to start Near, to start Background, to be refused
by the gate, to end. The gate is a nondeterministic choice. Which workloads may
be preempted (`backpressurePolicy.ts`) is the constant `Preemptible`.

`LaneContract` is what the rest of the server relies on, without queues, slots
or loops: the life of a task, which live bodies are compatible, and that
Background starts only when nothing above it waits. `SchedulerProperties` maps
the scheduler to it by computing a task's status from the sets.

### KnowledgeBase, KnowledgeBaseProperties

The states of the index are records of functions, so an unchanged bucket is
literally unchanged. `RemoveFromState`, `UpdateDependencies` and `FileFacts` are
the incremental updates; `WriteState` applies a change to the staged state of an
open batch or publishes it under the next epoch. Four bucket maps of the code
are maintained by four copies of one algorithm; `globalSymbols` stands for all.
What a document contributes is a record: the ids it defines, whether it was
analysed, and the ids it needs.

### SemanticInvalidation

Extends the index with the editor (open, change, close), the watcher (delete;
create and change in two steps around the await of the file) and the indexer's
batches. `invalidated` holds the documents the last plan lists. The loop that
computes a plan is a recursive function over its state (what it has visited, and
its queue), one layer of the queue at a time; the property compares it with a
definition without a loop, `RestOn`, the least set that contains the documents that
need an id of the edited one and those that need an id of its elements. Every
caller passes the snapshot of its analysis, so contributions are `Analyses` here.

### SemanticCacheStore, SemanticCacheStoreProperties

The files of the store, its memory, startup, and one action per file written or
deleted, so that `Crash` and `FailCheckpoint` can come between any two: they may
tear the file being written or leave any part of the directory being deleted. A
record is a version number of its document. Six ghost variables remember what
the code does not: the edits and versions, those acknowledged, and what is known
about the files.

### WorkerPool, IndexingPass

`WorkerPool` has `runTask` and the handlers of a worker's events; `IndexingPass`
is `indexWorkspace()` cut at its awaits. While `step` is `"batch"` the function
awaits `Promise.all` of a batch: files are read, workers answer or die, the token
may be cancelled; at any other step only the function itself goes on. What the
index holds of a file is where it came from, `"before"`, `"structural"` or
`"enriched"`.

### DiagnosticScheduler

An interactive task without an await runs inside the call that submits it, so a
handler with all the publications it makes is one action. Diagnostics are their
tier, the text they were computed from and the *basis*: a counter of what the
index says of the documents they rest on. `owed` are the refreshes a background
writer will do when it ends.

### FileWatcherDebouncer, WorkspaceIndexing

The window of events and the timers, one of them with a handle and the others
`leaked`: the flush at the limit forgets the handle of an armed timer. In
`WorkspaceIndexing` contents are numbers, `captured` and the intakes' `content`
are what was read and not yet published, and `staged` is the open batch, into
which the editor's analyses go as well. `contended`, `overwritten`, `touched` and
`opened` are history variables: each names a case that the code does not handle,
and the properties say so instead of being weakened silently.

### ServingCache, InteractiveServing

The serving cache is the sequence of its entries in LRU order; `inFlight` is what
a flush of the coordinator is writing, `direct` what the startup task writes past
it. `InteractiveServing` adds the epochs: a publication replaces the content and
counts up, a restore sets both. What a feature answers is `Computed(d, c)`, any
operator; `meaning` remembers the content of each epoch and `reused` the epochs
that have named two.

### InheritanceGraph, HierarchyProperties

The searches are recursive functions over the state of the code's loops (`Climb`,
`Search`, `Collect`; a round of each loop is an operator); `HierarchyProperties` defines the parents of a type and the closure without any
search. `Declare`, `Withdraw`, `AddMember` and `RemoveMember` are what upserts and
removals do to the types and members the graph reads.

## 3. The runs

| Run | Properties | States | Question |
|---|---|---|---|
| `scheduler` | `TypeOK`, `SlotsHoldLiveBodies`, `HigherLanesExclude`, `NoLostWakeup`, `ImplementsContract`, `EveryQueuedTaskSettles` | 43,566 | do the lanes keep their promises under every interleaving, and does every queued task settle? |
| `knowledge` | `TypeOK`, `IndexesConsistent`, `EditsReplaceOneDocument`, `BatchesAreAtomic` | 5,608 | does incremental maintenance keep the maps in step, through nested batches, resyncs and restores? |
| `invalidation` | `ImpactedDocumentsAreInvalidated` | 245,635 | does an edit invalidate exactly the documents that rested on the edited one, before or after? |
| `cache_store` | `TypeOK`, `JournalsAreValid`, `NoStaleRecord`, `IdleRestoreIsExact` | 295,031 | what does `load()` return after a crash or a failed checkpoint at any file, calls taking turns? |
| `indexing_pass` | `TypeOK`, `PendingTasksAreHeld`, `NoWorkerIdlesBesideTheQueue`, `ReportMatchesIndex`, `EveryTaskSettles`, `PassEnds` | 25,284 | does the pass end with all tasks settled and a true report, whatever dies, fails or is cancelled? |
| `diagnostics` | `TypeOK`, `NoOrphanTimers`, `ClosedDocumentsShowNothing`, `FullDiagnosticsArrive` | 244,444 | does nothing stale stay, and does every open document get its full diagnostics? |
| `freshness` | `TypeOK`, `WindowHasTimer`, `WindowTellsTheDisk`, `NeverOpenedFilesConverge`, `OpenDocumentsAreShown`, `ChangesAreWorkedOff` | 890,772 | does the index come to hold what the disk or the editor has? |
| `serving` | `TypeOK`, `FreshAnswersAreCurrent`, `RestorableAnswersAreRight`, `SnapshotIsSettled` | 719,678 | is an answer bound to an epoch that of the epoch's content, in memory and in the file? |
| `hierarchy` | `HierarchyTypeOK`, `AncestorsAreTheClosure`, `DistanceCountsSteps`, `DescendantsInvertAncestors`, `ClosureIsConsistent` | 36,123 | do the searches agree with the closure of the declared relation? |
| `invalidation_open` | `OpenedDocumentReachesDependents` | violated | finding 1 |
| `freshness_open` | `WatcherLeavesOpenDocuments` | violated | finding 2 |
| `serving_stale` | `EpochBoundAnswersAreCurrent` | violated | finding 3 |

Every property of a passing run has a mutant: a definition marked `Mutant:` that
replaces one of the code's steps by a plausible mistake (a slot not cleared, a
promise not rejected, a timer not armed, an epoch not compared), under which TLC
finds the property violated.

### Bounds, and why they suffice

* `MCScheduler`: two tasks in every lane. Two interactive tasks overlap, a queue
  holds one task behind another, and a preempted body runs beside its successor
  in the slot; one Background task is preemptible and one is not. A third task
  of a lane adds no new kind of neighbour: slots hold one, and a loop that
  awaits a preempted body acts on no other task. A task is submitted once, so
  the run is finite without a bound; the safety part is proved for any number.
* `MCKnowledgeBase`: two documents that share an id one may define and the
  other need; batches nest twice (`MaxDepth`), so an inner commit, an inner
  rollback and an outer commit differ; `MaxEpoch = 2` leaves room for an edit
  after a batch. Also proved without these bounds.
* `MCInvalidation`: three documents and two ids give chains, cycles, rival
  definitions and definitions that come late. `MaxEpoch = 4` is three documents
  indexed and one edit that matters, and a rollback or commit in between;
  `MaxDepth = 1`, for the indexer does not nest. The constraint `SmallBatches`
  lets a batch touch one document: the plans read the published state only. The
  documents are symmetric. `VIEW` leaves out `invalidated`, which no action
  reads, so it distinguishes no behaviour; the property judges it in the step
  that sets it, and TLC evaluates every step. Deadlock checking is off in the
  `invalidation*` runs because the bound on the epoch ends them.
* `MCCacheStore`: one document of no project and one of the only project, so
  both kinds of partition occur, with and without documents. `MaxEdits = 2` with
  `MaxPending = 1` and `MaxJournal = 1` gives one mutation in a file and one in
  flight around every checkpoint, compaction and clear, and any number of
  crashes, restarts and failed checkpoints, which are not bounded.
* `MCIndexingPass`: three files in batches of two, so that a pass has a full and a
  partial batch, and two workers, so that a task may wait behind another one's;
  one death (`MaxDeaths`), which may hit a busy or an idle worker, a structural or
  an enriched task. A worker that dies is replaced at once, so a second death
  meets a pool no different from the first.
* `MCDiagnostics`: two documents and two writers, whose refreshes cross; three
  edits (`MaxEdits`) are an open, an edit and a reopen, or two opens and an edit;
  two changes of the index (`MaxChanges`), one of each writer or both of one.
* `MCWorkspaceIndexing`: two files and a window of one (`MaxPending = 1`), so that
  every event of the other file overflows it; two contents beyond the first
  (`MaxContent = 4`), so that a file changes while it is being read and again
  after; two intakes beside each other (`MaxIntakes`), which is what one
  preemption gives. The editor opens one of the two files, and the other is there
  from the start (`MCInit`).
* `MCServing`: one entry in the cache (`Capacity = 1`), so that every second one
  evicts; two sessions; epochs up to 2, which leaves room for a checkpoint, a
  reused number and an edit after it. `MCNext` restricts the second session (no two
  publications of one content, the graph asked together with the hot context, no
  shutdown and no failing write), which keeps the run within minutes; the first
  session has all of these. Documents are symmetric.
* `MCHierarchy`: all sequences of up to three declarations of three names with any
  base, which gives chains, trees, cycles of length 1 to 3, a name declared
  twice with different bases, and types that end in a native chain of length 3;
  two members with the same key at any two types.

Deadlock checking is off in `indexing_pass` (the pass ends), `diagnostics`,
`freshness` and `serving` (bounded edits end, and a server that was shut down
stops).

### Fairness

Safety and refinement need none. `FairSpec` of the scheduler assumes: an armed
`setImmediate` or timer fires (`WF` of `DrainFires`); every body that was
started ends (`WF` of `FinishTask` and `FinishInteractive`: bodies are analyses
bounded by their input, or child processes with a timeout); and the admission
gate does not refuse for ever (`SF` of starting Background work: the latency
block expires with the clock, and memory pressure is relieved by the server's own
evictions; strong, because a refusal and a preemption come between). Nothing is assumed of submissions and
cancellations. Interactive work cannot starve Background for ever in the
instance because its tasks are finitely many; in the program a user who never
pauses can, by design.

`IndexingPass`: the event loop resumes the function, a file that is read settles,
a worker answers or dies; nothing about cancellation. `DiagnosticScheduler`: armed
timers fire, and a writer that has changed the index comes to its end.
`WorkspaceIndexing`: timers fire, startup and intakes go on to their end, and the
drain of the scheduler starts what waits when the slot is free (that it does is
`EveryQueuedTaskSettles` of `scheduler`). All of it is weak fairness of steps the
event loop takes on its own; nothing is assumed of the editor, the disk or
preemptions. The other modules state no liveness.

## 4. What is proved

TLAPS checks the seven `*Proofs` modules and `QueueLemmas` for every value of the
constants, from no other assumption than those the modules name on them:
`TasksAssumption` (the lanes are disjoint), `ContributionsAssumption` (a
contribution does not need what it defines, and needs nothing unless analysed, as
`collectSnapshotDependencyKeys` guarantees), and for the others
`BoundsAssumption`, `DiagnosticAssumption`, `DebouncerAssumption`,
`WorkspaceAssumption`, `PoolAssumption`, `PassAssumption`, `CapacityAssumption`,
`ServingAssumption`, `StoreAssumption` and `HierarchyAssumption`
(bounds are numbers, and the values that stand for nothing are no documents, tasks
or files; the last also says that the table of native parents is finite and has no
cycle, as the constant table of `nativeAncestors.ts` has none).

* **Scheduler, any number of tasks.** `NoLostWakeup` is not inductive alone: it
  must be known that a slot holds a body that runs (or its end would never
  drain), that queued tasks are neither cancelled nor started (or starting one
  would fill a slot without a body), and that each task is queued once. The
  inductive invariant `Inv` joins these: `TypeOK`, `QueuedTasksAreLive`,
  `SlotsHoldLiveBodies`, `RunningIsPending`, `CancelledIsOver`,
  `HigherLanesExclude`, `NoLostWakeup`. Lemma `DrainQueuesStep` shows that one
  round of the drain loop re-establishes it from what holds at the loop's head,
  and serves both `DrainFires` and `FinishTask`; the other actions follow one by
  one. `QueuedTasksAreLive` also justifies that the model omits the code's test
  for a cancelled task at the head of a queue: it is never true.
* **`SchedulerImplementsContract`.** Under `Inv` the status of a task reads off
  the sets (`StatusMeans`); `TasksMove`, `LanesCompatible` and
  `BackgroundInTurn` are the three conjuncts of a step of `LaneContract`.
* **Index, any documents, ids, contributions and depth.** `Inv` is `TypeOK` and
  `IndexesConsistent`, the latter for the published *and* the staged state: an
  upsert removes a document only from the buckets its own list of symbols names,
  so without consistency before the step an entry could be left behind. From it
  follow `KnowledgeBaseEdits` and `KnowledgeBaseBatches`, the action properties.
* **Loops that search.** The provers have no induction over data, and TLA+ promises
  nothing of a recursive definition before a solution is known to exist.
  `QueueLemmas` brings both down to sets: `LoopExists` gives every loop `done` /
  `step` / `out` over a set of states a solution, whether or not it ends, and
  `LoopKeeps` says that a loop whose steps stay in a set `I` and lower a number, or
  else a second one, ends with what `I` and `done` imply. It follows from a least
  counterexample. Plans and searches are instances: the first number counts what
  can still be found, the second measures the queue.
* **Writers of the index** (`WritersUseTheIndex`). Editor, watcher and indexer
  implement the specification of the index step by step, so its invariant holds
  beside the await of the watcher.
* **Invalidation is exact, any documents and dependencies** (`InvalidationIsExact`).
  That a plan is `{u}` with `RestOn(state, u)` (`PlanFacts`) needs a consistent
  state, for the plan reads the reverse map and `RestOn` the dependencies, and that
  finitely many documents depend on anything. The property also compares the
  published snapshot with what the index holds: this is sound because a document
  without a snapshot defines nothing (`StatesAnalysed`, kept for the staged state
  too). For the watcher, `ReadingIsFresh` says that what was found before the await
  is what would be found now, unless the epoch has moved: every publication moves
  it. These join the invariant of the index in `InvalidationInductive`.
* **Inheritance graph, any declarations.** The types of the two variables are the
  whole invariant of the steps; what is hard is what the searches answer in one
  state. `AncestorsAreInherited` and `DescendantsAreTheInverse` keep, round by
  round, that what was found is inherited and listed once, and that the parents
  (children) of all of it were found or wait in the queue (`Searching`,
  `Collecting`): when the queue is empty the set found is closed, hence all of it.
  A native type queues its whole chain, so `ChainStep` and `ChainTail` relate the
  chain of a type to those of its ancestors. For `DistancesAreSteps` the order of
  the queue matters too (`Orderly`): whatever waits was found, or is the parent of
  the type found last, or comes in its native chain after one that waits before it.
  `ClosuresAreConsistent` needs that `getMemberClosure()` can sort at all
  (`SortedOrder`, by a smallest set that cannot be sorted).

* **Diagnostics, any documents and edits.** The set of armed timers is not
  bounded by what one sees of it: that none is orphaned follows only from the
  stronger `timers = Armed(scheduledByUri)`, the timers are *exactly* those of the
  map, and `TimersAreLive`, each carries the current generation of a document that
  is open. `ClosedDocumentsShowNothing` needs both, for a timer that fires
  publishes.
* **The watcher's window** (`WorkspaceIndexingProofs`). A flush at the limit
  forgets a timer without clearing it. `WindowInv` says which timer a window has,
  and that its events agree with the disk; it is kept by each action of the
  workspace that changes the disk, and the types of the whole state go with it.
* **Open documents are shown.** `getDocumentAnalysis()` skips the upsert on a
  cache hit. That this is sound needs `ShownInv`: a closed document has no
  analysis, an open one that no background writer overwrote has its text both in
  the cache and in what the index will show, and no content is newer than the
  clock, so an edit never hits. This is where a rolled-back batch would break it,
  and the reason why overwritten documents are exempt.
* **The index converges** (`IndexConverges`). That the index shows the disk when
  nothing is under way is about all that was under way before, so `ConvergeInv`
  says of every content on its way to the index what entitles it to end there. In
  the queue of batches the *last* waiting event of a file tells the disk
  (`QueueTells`; each batch has a file once). An intake's event, and the content it
  has read across its await, agree with the disk unless they are superseded: a later
  event of the file waits, or another intake has one too (`IntakesTell`). When
  startup is done, a file without any event is shown as it is (`IndexTells`); while
  it runs, a file it read before a change has that change waiting in the window, for
  no batch is taken before startup is done (`StartupTells`, `PassTells`). The
  exceptions are those of the property: failed files, restored records of files that
  went, and files two intakes had at once.
* **Worker pool, any size, any deaths.** `TasksAreHeld` (a promise is pending
  exactly while its task waits or is with one worker) and `WorkersAreUsed` (a task
  waits for busy workers only) are inductive together with `PassWaits`: between
  batches the pool has nothing to do, so `terminate()` meets no pending promise.
* **What a pass reports, any files and sizes of batches** (`PassInv`). The report
  at the end is about a run that kept its books on the way, so the invariant says
  what holds of every file at every step: which outcome goes with which state,
  document record and fact of the index, before the cursor, within the batch and
  behind it; that the enriched pass runs over distinct files; and what a rolled-back
  batch gives back. It is stated by *positions* in the list of files, because the
  second pass goes over a filtered list. `Subsequences` defines the filter by the
  rank of each position, without recursion, and `RankFacts` and `SubsequenceFacts`
  prove that it keeps exactly these elements, in their order, once each.
* **Answers bound to an epoch, any capacity, documents and contents.** An epoch is
  a number that a restore may set back, so the invariant relates every cache to the
  ghost `meaning`, what each epoch has named: `CachesSound` says it of the serving
  cache, of the file, *and of both writes under way*, which carry a copy of the
  cache from before edits that came since; of the graph's cache and of the hot
  context too. `EpochsMean` ties the current epoch to the current content.
  `SnapshotIsSettled` rests on `FlushesCatchUp`: of two flushes the one that ends
  last brings the current entries, or is known to be overtaken (`raced`), or
  followed by another because `dirty` was set again meanwhile. `FlagsTyped`,
  `IndexTyped` and `StoreIsOpen` complete it.
* **Journals** (`JournalsAreAlwaysValid`, under `~Overlapping`: calls take turns).
  `JournalsGrow` carries the order of the numbers through the three places where a
  journal lives: the file, the entries in memory, and the payload of the write in
  flight, which a crash may leave whole, torn or unwritten.
* **What is restored, any documents, projects and crashes** (`NoRecordIsStale`,
  `RestoreIsExact`, under `~Overlapping`). A checkpoint replaces its files one by
  one, so after a crash a journal of any age lies beside a checkpoint of any other,
  and an invariant about matching pairs is hopeless. `Sound` asks what survives
  this: the last entry a journal has of a document is as new as what was
  acknowledged *whatever checkpoint comes before it*, so an old journal may follow
  a new checkpoint (`SoundCheckpoint`). An entry acknowledged in one partition must
  not leave an older record in another that `load()` also reads; `Placed` (records
  are where their documents belong), `Apart` (the checkpoint of the workspace has
  none of a listed project) and `UpTells` (nor has its journal, once the projects
  are known) exclude it (`NothingElsewhere`). `Progress` says which files a
  checkpoint has written at each of its steps, `MemoryTells` that the store has in
  memory the journals on file it will append to, `AppendTells` and
  `CheckpointTells` what the calls in flight have of the server, and `IntactTells`
  what is on file or about to be. That a replay looks for the last entry of a
  document needs the order of `Inv` (`ReplayLast`, `ReplayAppended`).
* **`StoreTyped`.** That numbers stay within `MaxEdits` is not about types:
  `Counts` says that each edit allows for one more number, also while the append
  that will take it is under way.

Model-checked only:

* liveness, in `scheduler`, `indexing_pass`, `diagnostics` and `freshness`: it rests
  on fairness, and so on `ENABLED`, which the installed provers do not reason about.

Every invariant and action property of a passing run, and the refinement of
`LaneContract`, is a theorem.

## 5. Findings

1. `invalidation_open`: `onDidOpen` indexes the document through its diagnostics
   before the change handler compares, so opening a text unlike the one indexed
   invalidates no dependents.
2. `freshness_open`: the watcher asks whether a document is open before it awaits
   the file, not after, and so indexes the disk's content of a document opened
   meanwhile.
3. `serving_stale`: a restore may set the epoch to a number this session has
   handed out for other content; the caches that compare epochs keep what they
   have. `FreshAnswersAreCurrent` shows that this is the only way.

### Further disagreements

The modules state these properties too; no run checks them, but putting one
under `INVARIANTS` (or `PROPERTIES`, for those with `[][...]`) of its
configuration shows the trace.

* `BackgroundOnlyWhenIdle` (`SchedulerProperties`): `runtime/scheduler.ts:9` says
  Background work is executed only while nothing of a higher lane is pending or
  active. A body whose workload is not preemptible goes on beside them; a test of
  the repository expects that, so the header is stale.
* `WatchedChangeReachesDependents` (`SemanticInvalidation`): a document that comes
  to depend on a file while the watcher reads it is in neither plan when the new
  content drops what it needs (`docs/done-log.md:728`).
* `LoggedMutationsAreRestored` (`SemanticCacheStoreProperties`): a mutation of a
  document whose project had no documents at the last checkpoint goes to a journal
  that `load()` does not read (`docs/done-log.md:4622`).
* `CompactionMergesMutations` (same, with `Overlapping = TRUE`): a compaction
  deletes the journal with entries written after its own load; the append that
  reaches the threshold is one of them if it is not written yet when the
  compaction reads (`docs/done-log.md:705`).
* `TornFilesForceRebuild` (same, with `MaxEdits = 3`): `load()` refuses torn files
  but leaves them, and the next appends overwrite the journal it did not read;
  once a checkpoint has deleted the torn manifest and the server stops, an old
  checkpoint with a new journal is restored (`docs/done-log.md:5281`).
* `CancelledRunsAreCounted` (`IndexingPassProperties`): a run cancelled during its
  last batch ends without `markPartial()` and is not counted
  (`specs/196-indexer-last-activity-surface/spec.md:32`); its batch is rolled back.
* `DescendantsExcludeTheType` (`HierarchyProperties`): on a cycle of declarations a
  type is listed among its own descendants (comment at `InheritanceGraph.ts:277`),
  and the member closure lists its members twice.

Seen and not stated as a property: a crash between the workspace checkpoint and
the manifest restores the documents of the workspace alone (absent documents are
indexed again, so `NoStaleRecord` allows it); `resyncDocuments()` in an open
batch discards the caller's batch, but no caller does so; a clean shutdown empties
the serving cache before its last flush, so the snapshot serves restarts after a
crash only; unsaved facts of a closed document stay until its file changes;
records of files deleted while no server ran are restored and never removed; a
restore or an invalidation drops the pins of open documents; the worker pool is
made before two early returns that do not terminate it (its caller never takes
them).

## 6. Not modelled

Abstractions inside the modules are named in their header comments. The main
ones: order within a bucket of the index, and scopes; sets of 32 and more watcher
events, which clear the derived caches whole; events of project markers and build
files, and the rematerialisation of documents whose source origin changes; two
appends of the store in flight at once, known as FINDING-016 of `docs/audits/`; the
512-document limit and the pins of the document cache; the answers a feature may
give while it is blocked, which are old by design; presentation and code-lens
caches, which are invalidated by the same plans as the serving cache; positions,
locales and fingerprints in cache keys.

Components left out, each with its reason in `PROJECT.json`: the latency governor
and memory policies are thresholds on measured quantities, and enter as free
choices; parser, analysis and language features are pure functions of their input
that no property here tells apart, and make up most of the repository's lines
together with tables of the language's functions; the editor client and the build
runners drive an editor and Windows tools; `plugin_old` is not built.

Composition across modules stops where the state would multiply without new
behaviour: `WorkspaceIndexing` and `InteractiveServing` take the batches of the index
as proved by `KnowledgeBase`, the Background slot as checked by `Scheduler`, and the
checkpoint as checked by `SemanticCacheStore`.
