---------------------- MODULE KnowledgeBaseProperties ----------------------
(***************************************************************************)
(* The properties of the semantic index.                                   *)
(***************************************************************************)
EXTENDS KnowledgeBase

State ==
  [documentSymbols      : [Uris -> SUBSET Ids],
   globalSymbols        : [Ids -> SUBSET Uris],
   documentSnapshots    : SUBSET Uris,
   documentDependencies : [Uris -> SUBSET Ids],
   reverseDependencies  : [Ids -> SUBSET Uris],
   semanticEpoch        : Nat]

\* The fields hold what their declarations say, and a batch has a staged state
\* exactly while it is open (so writeState() never copies one on demand).
TypeOK ==
  /\ published \in State
  /\ batchDepth \in 0..MaxDepth
  /\ staged \in IF batchDepth > 0 THEN State ELSE {NoState}

\* Every map answers from the same contributions: a bucket lists exactly the
\* documents that define its key, the reverse map exactly those that depend on
\* it, and only analysed documents depend on anything.
Consistent(state) ==
  /\ \A u \in Uris, k \in Ids :
       /\ u \in state.globalSymbols[k] <=> k \in state.documentSymbols[u]
       /\ u \in state.reverseDependencies[k] <=> k \in state.documentDependencies[u]
  /\ \A u \in Uris \ state.documentSnapshots : state.documentDependencies[u] = {}

\* The incremental updates of upsertDocument() and removeDocument(), which touch
\* only the keys of the document's old and new contribution, never leave an
\* entry behind or lose one, in the published state or in a batch.
IndexesConsistent ==
  /\ Consistent(published)
  /\ batchDepth > 0 => Consistent(staged)

Inv == TypeOK /\ IndexesConsistent

-----------------------------------------------------------------------------
\* What the queries can tell of a document, read from the buckets.
Shown(state, u) ==
  [defines  |-> {k \in Ids : u \in state.globalSymbols[k]},
   analysed |-> u \in state.documentSnapshots,
   needs    |-> {k \in Ids : u \in state.reverseDependencies[k]}]

ShownTarget == [u \in Uris |-> Shown(Target, u)]

\* An upsert shows exactly the new contribution of its document, a removal
\* nothing of it, and neither changes what any other document shows, whatever
\* ids they share.
EditsReplaceOneDocument ==
  [][\A u \in Uris :
       /\ \A d \in Contributions :
            UpsertDocument(u, d) => ShownTarget' = [ShownTarget EXCEPT ![u] = d]
       /\ RemoveDocument(u) => ShownTarget' = [ShownTarget EXCEPT ![u] = Nothing]]_vars

\* A batch is published whole or not at all: while it is open, at whatever
\* depth, no query sees a part of it, and its outermost commit publishes all of
\* it under the next epoch.
BatchesAreAtomic ==
  [][/\ batchDepth > 0 /\ batchDepth' > 0 => published' = published
     /\ batchDepth = 1 /\ CommitBatchUpdate =>
          /\ \A u \in Uris : Shown(published', u) = Shown(staged, u)
          /\ published'.semanticEpoch = published.semanticEpoch + 1]_vars

=============================================================================
