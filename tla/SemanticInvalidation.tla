------------------------ MODULE SemanticInvalidation ------------------------
(***************************************************************************)
(* Which documents are invalidated by an edit,                             *)
(* src/server/knowledge/semanticInvalidation.ts, as its callers use it:    *)
(* the change handler of src/server/handlers/documentHandlers.ts and the   *)
(* watcher intake of src/server/workspace/watchedFileIntake.ts take a plan *)
(* before and a plan after the upsert and invalidate what both list.  The  *)
(* handler does it in one synchronous step; the watcher takes the first    *)
(* plan, awaits the content of the file, and goes on.  The indexer         *)
(* publishes its documents in a batch, without a plan.                     *)
(*                                                                         *)
(* One watched change is in progress at a time.  (The scheduler can let    *)
(* the next intake start while a cancelled one still awaits its file.)     *)
(* The watcher's events come in sets of fewer than 32: a larger set clears *)
(* the derived caches whole.  Edits that the analysis cache recognises as  *)
(* known text do not reach the index and are left out.                     *)
(***************************************************************************)
EXTENDS KnowledgeBase

CONSTANT NoRead   \* no file is being read

VARIABLES
  open,           \* the documents open in the editor
  invalidated,    \* allUris of the plan of the last edit
  reading         \* the watched change in progress: the document, and the
                  \* snapshot, plan and epoch found before the await; or NoRead

ivars == <<vars, open, invalidated, reading>>

\* Every caller passes the snapshot of its analysis.
Analyses == {d \in Contributions : d.analysed}

Visits == [visited : SUBSET Uris, queue : SUBSET Uris]

\* Works off one layer of the queue of createSemanticInvalidationPlan().
VisitLayer(state, v) ==
  LET next == (UNION {DependentDocuments(state, u) : u \in v.queue}) \ v.visited
  IN [visited |-> v.visited \cup next, queue |-> next]

\* allUris of createSemanticInvalidationPlan(): the documents visited when the queue is empty.
SemanticInvalidationPlan(state, u) ==
  LET visit[v \in Visits] ==
        IF v.queue = {} THEN v.visited ELSE visit[VisitLayer(state, v)]
  IN visit[[visited |-> {u}, queue |-> {u}]]

\* diffSemanticSnapshots().changed
SnapshotChanged(previous, next) ==
  previous.defines # next.defines \/ previous.needs # next.needs

\* Mutant: the plan of the state before the edit is dropped.
NextPlanOnly(u, previous, next, previousPlan, nextPlan) ==
  IF SnapshotChanged(previous, next) THEN nextPlan ELSE {u}

\* createSnapshotAwareInvalidationPlan()
SnapshotAwarePlan(u, previous, next, previousPlan, nextPlan) ==
  IF SnapshotChanged(previous, next) THEN previousPlan \cup nextPlan ELSE {u}

\* What the published snapshot of a document says of it.
PublishedSnapshot(u) ==
  IF u \in published.documentSnapshots
  THEN [defines |-> published.documentSymbols[u],
        needs |-> published.documentDependencies[u]]
  ELSE [defines |-> {}, needs |-> {}]

-----------------------------------------------------------------------------
InvalidationInit ==
  Init /\ open = {} /\ invalidated = {} /\ reading = NoRead

\* onDidChangeContent().  While a batch is open both plans are taken of the
\* published state before it.
ChangeDocument(u, d) ==
  /\ u \in open
  /\ UpsertDocument(u, d)
  /\ invalidated' =
       SnapshotAwarePlan(u, PublishedSnapshot(u), d,
                         SemanticInvalidationPlan(published, u),
                         SemanticInvalidationPlan(published', u))
  /\ UNCHANGED <<open, reading>>

\* onDidOpen(), and the onDidChangeContent() the document manager fires with it:
\* the diagnostics of the former analyse and index the document, so the latter
\* takes both plans, and the snapshot before, of the state after the upsert.
OpenDocument(u, d) ==
  /\ u \notin open
  /\ open' = open \cup {u}
  /\ UpsertDocument(u, d)
  /\ invalidated' =
       SnapshotAwarePlan(u, PublishedSnapshot(u)', d,
                         SemanticInvalidationPlan(published', u),
                         SemanticInvalidationPlan(published', u))
  /\ UNCHANGED reading

\* onDidClose(): the index keeps what the editor showed last.
CloseDocument(u) ==
  /\ u \in open
  /\ open' = open \ {u}
  /\ invalidated' = SemanticInvalidationPlan(published, u)
  /\ UNCHANGED <<vars, reading>>

\* A delete event of the watcher: one plan, taken before the removal.  (The
\* handler removes the document twice; the second time changes nothing but the
\* epoch, which is counted once.)
DeleteDocument(u) ==
  /\ reading = NoRead
  /\ RemoveDocument(u)
  /\ invalidated' = SemanticInvalidationPlan(published, u)
  /\ UNCHANGED <<open, reading>>

\* A create or change event of the watcher, up to the await of readFile(); that
\* of an open document is skipped.
ReadChangedFile(u) ==
  /\ reading = NoRead
  /\ u \notin open
  /\ reading' = [uri      |-> u,
                 snapshot |-> PublishedSnapshot(u),
                 plan     |-> SemanticInvalidationPlan(published, u),
                 epoch    |-> published.semanticEpoch]
  /\ UNCHANGED <<vars, open, invalidated>>

\* The rest of it; the content may also be unreadable.
ApplyChangedFile(d) ==
  /\ reading # NoRead
  /\ UpsertDocument(reading.uri, d)
  /\ invalidated' =
       SnapshotAwarePlan(reading.uri, reading.snapshot, d, reading.plan,
                         SemanticInvalidationPlan(published', reading.uri))
  /\ reading' = NoRead
  /\ UNCHANGED open

FailToReadFile ==
  /\ reading # NoRead
  /\ reading' = NoRead
  /\ UNCHANGED <<vars, open, invalidated>>

\* The batch of the indexer.
IndexerStep ==
  /\ \/ BeginBatchUpdate \/ CommitBatchUpdate \/ RollbackBatchUpdate
     \/ \E u \in Uris, d \in Analyses : batchDepth > 0 /\ UpsertDocument(u, d)
  /\ UNCHANGED <<open, invalidated, reading>>

InvalidationNext ==
  \/ IndexerStep
  \/ \E u \in Uris : CloseDocument(u) \/ DeleteDocument(u) \/ ReadChangedFile(u)
  \/ \E d \in Analyses :
       ApplyChangedFile(d) \/ \E u \in Uris : ChangeDocument(u, d) \/ OpenDocument(u, d)
  \/ FailToReadFile

InvalidationSpec == InvalidationInit /\ [][InvalidationNext]_ivars

-----------------------------------------------------------------------------
\* v names an id that u defines.
Needs(state, v, u) == state.documentDependencies[v] \cap state.documentSymbols[u] # {}

\* The documents whose meaning rests on u's: the least set with those that need u and those
\* that need its elements (an ancestor of an ancestor).
RestOn(state, u) ==
  LET closed == {S \in SUBSET Uris : \A v \in Uris :
                   (\E w \in S \cup {u} : Needs(state, v, w)) => v \in S}
  IN {v \in Uris : \A S \in closed : v \in S}

\* The plan of an edit of u that lasts from the published state `before' to the
\* next one lists every document that rested on u or does so now, and no other.
PlanIsExact(u, before) ==
  invalidated' = {u} \cup RestOn(before, u) \cup RestOn(published', u)

Unchanged(u) ==
  /\ published'.documentSymbols[u] = published.documentSymbols[u]
  /\ published'.documentDependencies[u] = published.documentDependencies[u]

\* An edit outside a batch invalidates exactly the documents that rested on the
\* edited one before it or do so after it, so no derived view of them survives;
\* when neither exports nor dependencies change it invalidates nothing else.
\* A watched change does so if nothing was published while its file was read.
ImpactedDocumentsAreInvalidated ==
  [][batchDepth = 0 =>
       /\ \A u \in Uris :
            /\ \E d \in Analyses : ChangeDocument(u, d)
            => IF Unchanged(u) THEN invalidated' = {u} ELSE PlanIsExact(u, published)
       /\ \A u \in Uris : DeleteDocument(u) => PlanIsExact(u, published)
       /\ /\ \E d \in Analyses : ApplyChangedFile(d)
          /\ reading.epoch = published.semanticEpoch
          => IF Unchanged(reading.uri) THEN invalidated' = {reading.uri}
             ELSE PlanIsExact(reading.uri, published)]_ivars

\* What docs/done-log.md:728 says: when a document changes, the documents that
\* depend on it are invalidated.  Here: the change is found when the document is
\* opened with a text that differs from the one indexed.
OpenedDocumentReachesDependents ==
  [][\A u \in Uris :
       /\ batchDepth = 0
       /\ \E d \in Analyses : OpenDocument(u, d)
       /\ ~Unchanged(u)
       => DependentDocuments(published, u) \subseteq invalidated']_ivars

\* What docs/done-log.md:728 says: when a document changes, the documents that
\* depend on it are invalidated.  Here: also when another document came to
\* depend on it while the watcher was reading its file.
WatchedChangeReachesDependents ==
  [][/\ batchDepth = 0
     /\ \E d \in Analyses : ApplyChangedFile(d)
     /\ ~Unchanged(reading.uri)
     => DependentDocuments(published, reading.uri) \subseteq invalidated']_ivars
=============================================================================
