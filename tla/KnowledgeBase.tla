--------------------------- MODULE KnowledgeBase ---------------------------
(***************************************************************************)
(* The semantic index of the workspace,                                    *)
(* src/server/knowledge/KnowledgeBase.ts (class KnowledgeBase).            *)
(*                                                                         *)
(* Each document contributes facts, filed in buckets under their id, kind, *)
(* container and base type, and, when it was analysed, a snapshot that     *)
(* says on which ids it depends.  The index is maintained incrementally:   *)
(* an upsert takes the old contribution of the document out of the maps    *)
(* and files the new one.  Readers see `published'; a batch works on a     *)
(* copy, `staged', which the outermost commit publishes under the next     *)
(* epoch.  All methods are synchronous, so each of them is one action.     *)
(*                                                                         *)
(* The four bucket maps (globalSymbols, entitiesByKind,                    *)
(* entitiesByContainer, typeEntitiesByBaseType) are updated by four copies *)
(* of the same code; `globalSymbols' stands for all of them and an id for  *)
(* any of their keys.  A key is deleted from its map when its bucket is    *)
(* empty, so an absent key is an empty bucket here.  The order inside a    *)
(* bucket, scopes, statistics, the string interner and the epoch listeners *)
(* are left out.                                                           *)
(***************************************************************************)
EXTENDS Naturals, FiniteSets

CONSTANTS
  Uris,           \* normalised document URIs
  Ids,            \* the keys facts are filed under and dependencies name
  Contributions,  \* what the analysis of a document may contribute
  NoState,        \* no staged state: null in the code
  MaxDepth,       \* bound on the nesting of batches
  MaxEpoch        \* bound on the epoch

Contribution ==
  [defines: SUBSET Ids, analysed: BOOLEAN, needs: SUBSET Ids]

\* What a document that is not in the index contributes.
Nothing == [defines |-> {}, analysed |-> FALSE, needs |-> {}]

\* The dependencies come from the snapshot, without the document's own ids.
ASSUME ContributionsAssumption ==
  /\ Contributions \subseteq Contribution
  /\ \A d \in Contributions : /\ d.needs \cap d.defines = {}
                              /\ ~d.analysed => d.needs = {}
ASSUME BoundsAssumption == MaxDepth \in Nat /\ MaxEpoch \in Nat

VARIABLES
  published,   \* publishedState: what every query reads
  staged,      \* stagedState, or NoState
  batchDepth

vars == <<published, staged, batchDepth>>

\* createEmptyState()
EmptyState ==
  [documentSymbols      |-> [u \in Uris |-> {}],
   globalSymbols        |-> [k \in Ids |-> {}],
   documentSnapshots    |-> {},
   documentDependencies |-> [u \in Uris |-> {}],
   reverseDependencies  |-> [k \in Ids |-> {}],
   semanticEpoch        |-> 0]

-----------------------------------------------------------------------------
(* The incremental maintenance of one state.                               *)

\* Mutant: the reverse map keeps the document.
RemoveDependenciesKeepsReverse(state, u) ==
  [state EXCEPT !.documentDependencies[u] = {}]

RemoveDependencies(state, u) ==
  [state EXCEPT
     !.reverseDependencies =
        [k \in Ids |-> IF k \in state.documentDependencies[u]
                       THEN state.reverseDependencies[k] \ {u}
                       ELSE state.reverseDependencies[k]],
     !.documentDependencies[u] = {}]

\* Mutant: the document's symbols are forgotten before its buckets are visited.
RemoveFromStateKeepsBuckets(state, u) ==
  [RemoveDependencies(state, u) EXCEPT
     !.documentSymbols[u] = {},
     !.documentSnapshots = state.documentSnapshots \ {u}]

\* removeDocumentFromState(): only the buckets of the document's own symbols
\* are visited.
RemoveFromState(state, u) ==
  [RemoveDependencies(state, u) EXCEPT
     !.globalSymbols =
        [k \in Ids |-> IF k \in state.documentSymbols[u]
                       THEN state.globalSymbols[k] \ {u}
                       ELSE state.globalSymbols[k]],
     !.documentSymbols[u] = {},
     !.documentSnapshots = state.documentSnapshots \ {u}]

\* updateDependenciesFromSnapshot()
UpdateDependencies(state, u, needs) ==
  [RemoveDependencies(state, u) EXCEPT
     !.documentDependencies[u] = needs,
     !.reverseDependencies =
        [k \in Ids |-> IF k \in needs THEN @[k] \cup {u} ELSE @[k]]]

\* The buckets and symbols of indexDocumentIntoState().
FileFacts(state, u, d) ==
  [RemoveFromState(state, u) EXCEPT
     !.globalSymbols =
        [k \in Ids |-> IF k \in d.defines THEN @[k] \cup {u} ELSE @[k]],
     !.documentSymbols[u] = d.defines]

\* indexDocumentIntoState()
IndexIntoState(state, u, d) ==
  IF d.analysed
  THEN UpdateDependencies(
         [FileFacts(state, u, d) EXCEPT !.documentSnapshots = @ \cup {u}],
         u, d.needs)
  ELSE RemoveDependencies(FileFacts(state, u, d), u)

-----------------------------------------------------------------------------
(* Publication.                                                            *)

Init ==
  /\ published = EmptyState
  /\ staged = NoState
  /\ batchDepth = 0

\* The state a mutation works on: the staged one inside a batch.
Target == IF batchDepth > 0 THEN staged ELSE published

\* publishState()
PublishState(next) ==
  /\ published.semanticEpoch < MaxEpoch
  /\ published' = [next EXCEPT !.semanticEpoch = published.semanticEpoch + 1]

\* writeState(): staged inside a batch, published at once outside of one.
WriteState(next) ==
  \/ /\ batchDepth > 0
     /\ staged' = next
     /\ UNCHANGED <<published, batchDepth>>
  \/ /\ batchDepth = 0
     /\ PublishState(next)
     /\ UNCHANGED <<staged, batchDepth>>

BeginBatchUpdate ==
  /\ batchDepth < MaxDepth
  /\ staged' = IF batchDepth = 0 THEN published ELSE staged
  /\ batchDepth' = batchDepth + 1
  /\ UNCHANGED published

\* Mutant: every level publishes.
CommitEveryLevel ==
  /\ batchDepth > 0
  /\ batchDepth' = batchDepth - 1
  /\ PublishState(staged)
  /\ staged' = IF batchDepth = 1 THEN NoState ELSE staged

\* commitBatchUpdate(): only the outermost commit publishes.
CommitBatchUpdate ==
  /\ batchDepth > 0
  /\ batchDepth' = batchDepth - 1
  /\ \/ /\ batchDepth = 1
        /\ PublishState(staged)
        /\ staged' = NoState
     \/ /\ batchDepth > 1
        /\ UNCHANGED <<published, staged>>

\* Mutant: one level is rolled back.
RollbackOneLevel ==
  /\ batchDepth > 0
  /\ batchDepth' = batchDepth - 1
  /\ staged' = NoState
  /\ UNCHANGED published

\* rollbackBatchUpdate(): at any depth, the whole batch is given up.
RollbackBatchUpdate ==
  /\ batchDepth' = 0
  /\ staged' = NoState
  /\ UNCHANGED published

UpsertDocument(u, d) == WriteState(IndexIntoState(Target, u, d))

RemoveDocument(u) == WriteState(RemoveFromState(Target, u))

Clear == WriteState(EmptyState)

\* resyncDocuments() with two updates, which carry no snapshot.  Inside a batch
\* its own commit publishes nothing, and its finally block, which finds a batch
\* active, rolls the batch of the caller back.
ResyncDocuments(u, d, v, e) ==
  LET plain(c) == [c EXCEPT !.analysed = FALSE, !.needs = {}]
  IN \/ /\ batchDepth = 0
        /\ PublishState(IndexIntoState(IndexIntoState(published, u, plain(d)),
                                       v, plain(e)))
        /\ UNCHANGED <<staged, batchDepth>>
     \/ /\ batchDepth > 0
        /\ RollbackBatchUpdate

\* The records of a checkpoint indexed into an empty state: `records' gives the
\* contribution of every document, `Nothing' of one without a record.
StateOf(records, epoch) ==
  [documentSymbols      |-> [u \in Uris |-> records[u].defines],
   globalSymbols        |-> [k \in Ids |-> {u \in Uris : k \in records[u].defines}],
   documentSnapshots    |-> {u \in Uris : records[u].analysed},
   documentDependencies |-> [u \in Uris |-> records[u].needs],
   reverseDependencies  |-> [k \in Ids |-> {u \in Uris : k \in records[u].needs}],
   semanticEpoch        |-> epoch]

\* restoreDocumentRecords(): an open batch is dropped, and the epoch is the one
\* of the checkpoint, be it lower than the current one.
RestoreDocumentRecords(records, epoch) ==
  /\ published' = StateOf(records, epoch)
  /\ staged' = NoState
  /\ batchDepth' = 0

Next ==
  \/ BeginBatchUpdate \/ CommitBatchUpdate \/ RollbackBatchUpdate
  \/ Clear
  \/ \E u \in Uris : RemoveDocument(u) \/ \E d \in Contributions : UpsertDocument(u, d)
  \/ \E u, v \in Uris, d, e \in Contributions : ResyncDocuments(u, d, v, e)
  \/ \E records \in [Uris -> Contributions \cup {Nothing}], epoch \in 0..MaxEpoch :
        RestoreDocumentRecords(records, epoch)

Spec == Init /\ [][Next]_vars

-----------------------------------------------------------------------------
(* Queries: they read the published state only.                            *)

\* getDependentDocumentsForUri()
DependentDocuments(state, u) ==
  (UNION {state.reverseDependencies[k] : k \in state.documentSymbols[u]}) \ {u}
=============================================================================
