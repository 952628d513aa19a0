---------------------------- MODULE IndexingPass ----------------------------
(***************************************************************************)
(* indexWorkspace() of src/server/indexer/workspaceIndexer.ts: a           *)
(* structural and an enriched pass over the files of the workspace, in     *)
(* batches whose files are read and analysed together by the worker pool.  *)
(*                                                                         *)
(* The code runs without interruption from one await to the next.  While   *)
(* `step` is one of Running only the action that goes on is possible; at   *)
(* "batch" it awaits the files of a batch, at "yield" the event loop.      *)
(*                                                                         *)
(* Startup is its only caller: there is at least one file, and discovery   *)
(* has just marked the index dirty, so the returns of lines 300 and 308    *)
(* are not taken.  Its token is cancelled by the shutdown of the scheduler *)
(* only.  What the index holds of a file is reduced to where it came from. *)
(***************************************************************************)
EXTENDS WorkerPool, Subsequences

CONSTANTS
  Files,        \* the files, in the order of prioritizeFilesForIndexing()
  BatchSize,    \* BATCH_SIZE
  NoBatch       \* no batch of the index is open

FileSet == {Files[i] : i \in DOMAIN Files}

ASSUME PassAssumption ==
  /\ Files \in Seq(FileSet) /\ Files # <<>>
  /\ \A i, j \in DOMAIN Files : Files[i] = Files[j] => i = j
  /\ BatchSize \in Nat \ {0}
  /\ \A S \in SUBSET FileSet : S # NoBatch
  /\ Tasks = FileSet \X {"structural", "enriched"}

VARIABLES
  pass, step,       \* where the function is
  cursor,           \* i of the two loops
  reading,          \* the files of the batch that readFile() has not returned
  submitting,       \* the files of an enriched batch not yet handed to the pool
  outcome,          \* of a file in the structural pass
  prepared,         \* preparedDocuments
  processed,        \* enrichedProcessed
  committed,
  fileStates,
  phase, partialRuns,     \* of indexerStatus
  indexDirty,       \* of WorkspaceState
  index,            \* where what the index publishes of a file comes from:
                    \* "before" the pass, its "structural" or "enriched" pass
  staged,           \* files of the open batch of the index, or NoBatch
  records,          \* files whose analysis the pass put into DocumentCache
  cancelled         \* token.isCancelled

passVars == <<pass, step, cursor, reading, submitting, outcome, prepared,
              processed, committed, fileStates, phase, partialRuns, indexDirty,
              index, staged, records, cancelled>>
vars == <<poolVars, passVars>>

Running == {"loop", "submit", "settled", "finish"}
Awaiting == step \in {"batch", "yield"}

Loop == IF pass = "structural" THEN Files ELSE prepared
BatchPositions == {k \in DOMAIN Loop : k >= cursor /\ k < cursor + BatchSize}
Batch == {Loop[i] : i \in BatchPositions}

\* "fresh": analysed by a worker.  "cached": DocumentCache has an analysis of
\* the same content.  "matching": so does the index already.
SkipsPublication(f) == outcome[f] = "matching"
NeedsWorker(f) == outcome[f] = "fresh"
IsPrepared(f) == outcome[f] \in {"fresh", "cached", "matching"}

\* Promise.all() of the batch resolves with its last file.
NextStep ==
  step' = IF reading' = {} /\ \A t \in Tasks : promise'[t] # "pending"
          THEN "settled" ELSE "batch"

-----------------------------------------------------------------------------

\* markPartial() and the return or break that follows it.
GiveUp ==
  /\ phase' = "partial" /\ partialRuns' = partialRuns + 1
  /\ committed' = (processed > 0)
  /\ step' = "finish"
  /\ UNCHANGED <<poolVars, pass, cursor, reading, submitting, outcome, prepared,
                 processed, fileStates, indexDirty, index, staged, records,
                 cancelled>>

StartStructuralBatch ==
  /\ step = "loop" /\ pass = "structural" /\ cursor <= Len(Files)
  /\ IF cancelled
     THEN GiveUp
     ELSE /\ reading' = Batch
          /\ fileStates' = [f \in FileSet |->
                              IF f \in Batch THEN "indexing" ELSE fileStates[f]]
          /\ step' = "batch"
          /\ UNCHANGED <<poolVars, pass, cursor, submitting, outcome, prepared,
                         processed, committed, phase, partialRuns, indexDirty,
                         index, staged, records, cancelled>>

\* readFile() returns: the file is analysed, reused, too large, or fails.
ReadFile(f, o) ==
  /\ f \in reading
  /\ reading' = reading \ {f}
  /\ outcome' = [outcome EXCEPT ![f] = o]
  /\ fileStates' = [fileStates EXCEPT ![f] =
                      IF o \in {"skipped", "failed"} THEN o ELSE @]
  /\ IF o = "fresh" THEN RunTask(<<f, "structural">>) ELSE UNCHANGED poolVars
  /\ NextStep
  /\ UNCHANGED <<pass, cursor, submitting, prepared, processed, committed, phase,
                 partialRuns, indexDirty, index, staged, records, cancelled>>

\* The catch of the structural pass: the file failed.
FailStructural(t) ==
  IF t[2] = "structural"
  THEN /\ outcome' = [outcome EXCEPT ![t[1]] = "failed"]
       /\ fileStates' = [fileStates EXCEPT ![t[1]] = "failed"]
  ELSE UNCHANGED <<outcome, fileStates>>

\* A worker answers, or dies, and the code that awaited it goes on.
WorkerAnswers(w, success) ==
  /\ Awaiting
  /\ Answer(w, success)
  /\ IF success THEN UNCHANGED <<outcome, fileStates>>
                ELSE FailStructural(active[w])
  /\ UNCHANGED reading /\ NextStep
  /\ UNCHANGED <<pass, cursor, submitting, prepared, processed, committed, phase,
                 partialRuns, indexDirty, index, staged, records, cancelled>>

WorkerDies(w) ==
  /\ Awaiting
  /\ Die(w)
  /\ IF Idle(w)
     THEN UNCHANGED <<outcome, fileStates, reading, step>>
     ELSE FailStructural(active[w]) /\ UNCHANGED reading /\ NextStep
  /\ UNCHANGED <<pass, cursor, submitting, prepared, processed, committed, phase,
                 partialRuns, indexDirty, index, staged, records, cancelled>>

\* The results of a batch, and the yield if its time slice is used up.
EndStructuralBatch ==
  /\ step = "settled" /\ pass = "structural"
  /\ prepared' =
       prepared \o Subsequence(Files, {i \in BatchPositions : IsPrepared(Files[i])})
  /\ cursor' = cursor + BatchSize
  /\ step' \in {"loop", "yield"}
  /\ UNCHANGED <<poolVars, pass, reading, submitting, outcome, processed,
                 committed, fileStates, phase, partialRuns, indexDirty, index,
                 staged, records, cancelled>>

\* The event loop resumes the function.
Resume ==
  /\ step = "yield" /\ step' = "loop"
  /\ UNCHANGED <<poolVars, pass, cursor, reading, submitting, outcome, prepared,
                 processed, committed, fileStates, phase, partialRuns, indexDirty,
                 index, staged, records, cancelled>>

\* The structural facts are published in one batch; the enriched one is opened.
PublishStructural ==
  /\ step = "loop" /\ pass = "structural" /\ cursor > Len(Files)
  /\ LET changed == {f \in Range(prepared) : ~SkipsPublication(f)}
     IN /\ index' = [f \in FileSet |->
                       IF f \in changed THEN "structural" ELSE index[f]]
        /\ staged' = IF changed = {} THEN NoBatch ELSE {}
  /\ pass' = "enriched" /\ phase' = "enriched" /\ cursor' = 1
  /\ UNCHANGED <<poolVars, step, reading, submitting, outcome, prepared, processed,
                 committed, fileStates, partialRuns, indexDirty, records, cancelled>>

-----------------------------------------------------------------------------

StartEnrichedBatch ==
  /\ step = "loop" /\ pass = "enriched" /\ cursor <= Len(prepared)
  /\ IF cancelled
     THEN GiveUp
     ELSE /\ submitting' =
               Subsequence(prepared, {i \in BatchPositions : NeedsWorker(prepared[i])})
          /\ step' = "submit"
          /\ UNCHANGED <<poolVars, pass, cursor, reading, outcome, prepared,
                         processed, committed, fileStates, phase, partialRuns,
                         indexDirty, index, staged, records, cancelled>>

\* map() hands the files of the batch to the pool one after the other.
Submit ==
  /\ step = "submit"
  /\ IF submitting = <<>>
     THEN UNCHANGED <<poolVars, submitting, reading>> /\ NextStep
     ELSE /\ RunTask(<<Head(submitting), "enriched">>)
          /\ submitting' = Tail(submitting)
          /\ UNCHANGED <<reading, step>>
  /\ UNCHANGED <<pass, cursor, outcome, prepared, processed, committed, fileStates,
                 phase, partialRuns, indexDirty, index, staged, records, cancelled>>

Failed(f) == promise[<<f, "enriched">>] = "rejected"

\* Mutant: the state of a file is what the structural pass made of it.
StateBefore(f) == outcome[f]

\* The state of a file after the enriched pass.
StateAfter(f) == IF Failed(f) THEN "failed" ELSE "indexed"

EndEnrichedBatch ==
  /\ step = "settled" /\ pass = "enriched"
  /\ LET written == {f \in Batch : ~SkipsPublication(f) /\ ~Failed(f)}
     IN /\ staged' = IF written = {} THEN staged ELSE staged \cup written
        /\ records' = records \cup written
  /\ fileStates' = [f \in FileSet |->
                      IF f \in Batch THEN StateAfter(f) ELSE fileStates[f]]
  /\ processed' = processed + Cardinality(Batch)
  /\ cursor' = cursor + BatchSize
  /\ step' \in {"loop", "yield"}
  /\ UNCHANGED <<poolVars, pass, reading, submitting, outcome, prepared, committed,
                 phase, partialRuns, indexDirty, index, cancelled>>

\* After the loop the token is looked at once more.
EndEnrichedPass ==
  /\ step = "loop" /\ pass = "enriched" /\ cursor > Len(prepared)
  /\ IF cancelled
     THEN UNCHANGED <<committed, phase, indexDirty>>
     ELSE committed' = TRUE /\ phase' = "ready" /\ indexDirty' = FALSE
  /\ step' = "finish"
  /\ UNCHANGED <<poolVars, pass, cursor, reading, submitting, outcome, prepared,
                 processed, fileStates, partialRuns, index, staged, records,
                 cancelled>>

\* Mutant: only a pass that is complete is published.
CommitsIfReady == IF staged # NoBatch /\ phase = "ready" THEN staged ELSE {}

\* The files whose enriched facts the finally clause publishes.
Commits == IF staged # NoBatch /\ committed THEN staged ELSE {}

Finish ==
  /\ step = "finish"
  /\ index' = [f \in FileSet |->
                 IF f \in Commits THEN "enriched" ELSE index[f]]
  /\ staged' = NoBatch
  /\ Terminate
  /\ step' = "ended"
  /\ UNCHANGED <<pass, cursor, reading, submitting, outcome, prepared, processed,
                 committed, fileStates, phase, partialRuns, indexDirty, records,
                 cancelled>>

\* shutdown() of the scheduler cancels the token.
Cancel ==
  /\ Awaiting /\ ~cancelled
  /\ cancelled' = TRUE
  /\ UNCHANGED <<poolVars, pass, step, cursor, reading, submitting, outcome,
                 prepared, processed, committed, fileStates, phase, partialRuns,
                 indexDirty, index, staged, records>>

-----------------------------------------------------------------------------

Outcomes == {"fresh", "cached", "matching", "skipped", "failed"}

Init ==
  /\ PoolInit
  /\ pass = "structural" /\ step = "loop" /\ cursor = 1
  /\ reading = {} /\ submitting = <<>> /\ prepared = <<>>
  /\ outcome = [f \in FileSet |-> "none"]
  /\ processed = 0 /\ committed = FALSE
  /\ fileStates = [f \in FileSet |-> "pending"]
  /\ phase = "structural" /\ partialRuns = 0 /\ indexDirty = TRUE
  /\ index = [f \in FileSet |-> "before"]
  /\ staged = NoBatch /\ records = {} /\ cancelled = FALSE

PassSteps ==
  \/ StartStructuralBatch \/ EndStructuralBatch \/ Resume \/ PublishStructural
  \/ StartEnrichedBatch \/ Submit \/ EndEnrichedBatch \/ EndEnrichedPass \/ Finish

Next ==
  \/ PassSteps
  \/ \E f \in FileSet, o \in Outcomes : ReadFile(f, o)
  \/ \E w \in Workers :
       (\E success \in BOOLEAN : WorkerAnswers(w, success)) \/ WorkerDies(w)
  \/ Cancel

Spec == Init /\ [][Next]_vars

\* The event loop goes on, files are read, workers answer.
FairSpec ==
  /\ Spec
  /\ WF_vars(PassSteps)
  /\ \A f \in FileSet : WF_vars(\E o \in Outcomes : ReadFile(f, o))
  /\ \A w \in Workers : WF_vars(\E success \in BOOLEAN : WorkerAnswers(w, success))
=============================================================================
