----------------------- MODULE IndexingPassProperties -----------------------
(***************************************************************************)
(* What the worker pool and the indexing pass promise.                     *)
(***************************************************************************)
EXTENDS IndexingPass

FileStates == {"pending", "indexing", "indexed", "skipped", "failed"}

\* The variables hold the values the code can give them.
TypeOK ==
  /\ workers \in Seq(Workers)
  /\ active \in [Workers -> Tasks \cup {NoTask}]
  /\ queue \in Seq(Tasks)
  /\ promise \in [Tasks -> {"none", "pending", "resolved", "rejected"}]
  /\ deaths \in 0 .. MaxDeaths
  /\ pass \in {"structural", "enriched"}
  /\ step \in Running \cup {"batch", "yield", "ended"}
  /\ cursor \in Nat \ {0} /\ processed \in Nat /\ partialRuns \in Nat
  /\ reading \subseteq FileSet /\ records \subseteq FileSet
  /\ submitting \in Seq(FileSet) /\ prepared \in Seq(FileSet)
  /\ outcome \in [FileSet -> Outcomes \cup {"none"}]
  /\ fileStates \in [FileSet -> FileStates]
  /\ phase \in {"structural", "enriched", "partial", "ready"}
  /\ index \in [FileSet -> {"before", "structural", "enriched"}]
  /\ staged = NoBatch \/ staged \subseteq FileSet
  /\ committed \in BOOLEAN /\ indexDirty \in BOOLEAN /\ cancelled \in BOOLEAN

Pending == {t \in Tasks : promise[t] = "pending"}
Busy == {w \in Range(workers) : ~Idle(w)}

\* However answers, deaths and submissions interleave, a promise that is pending
\* belongs to one task that waits in the queue or is with one worker of the pool,
\* so there is someone to settle it; and the pool is never terminated with a
\* promise pending (terminate() settles none).
PendingTasksAreHeld ==
  /\ Pending = Range(queue) \cup {active[w] : w \in Busy}
  /\ \A i, j \in DOMAIN queue : queue[i] = queue[j] => i = j
  /\ \A v, w \in Busy : active[v] = active[w] => v = w
  /\ \A w \in Busy : active[w] \notin Range(queue)
  /\ step = "ended" => Pending = {}

\* runTask() starts one task at most, the one at the head of the queue, and nobody
\* looks at the queue again before a worker is done: so no worker of the pool may be
\* idle while a task waits.
NoWorkerIdlesBesideTheQueue == queue # <<>> => Busy = Range(workers)

Shown(f) == index[f] = "enriched" \/ outcome[f] = "matching"

\* When the indexer says "ready" every file came to an end, and, "ready" or
\* "partial", the files it calls indexed are those the index shows with their
\* enriched facts; the document cache has no analysis the index lacks.
ReportMatchesIndex ==
  /\ step = "ended" /\ phase = "ready" =>
       \A f \in FileSet : fileStates[f] \in {"indexed", "skipped", "failed"}
  /\ step = "ended" /\ phase \in {"ready", "partial"} =>
       /\ \A f \in FileSet : fileStates[f] = "indexed" => Shown(f)
       /\ \A f \in FileSet : index[f] = "enriched" => fileStates[f] = "indexed"
       /\ \A f \in records : index[f] = "enriched"

\* Every analysis the pass submits is answered, whichever workers die.
EveryTaskSettles ==
  \A t \in Tasks : promise[t] = "pending" ~> promise[t] # "pending"

\* The pass ends and gives the Background slot back, whatever fails.
PassEnds == <>(step = "ended")

-----------------------------------------------------------------------------
(* What the documents of the repository say.                               *)

\* specs/196-indexer-last-activity-surface/spec.md:32: the indexer counts the runs
\* that a cancellation left partial; so a run that ends cancelled and unfinished is
\* counted.
CancelledRunsAreCounted ==
  step = "ended" /\ phase # "ready" => partialRuns = 1
=============================================================================
