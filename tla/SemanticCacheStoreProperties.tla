-------------------- MODULE SemanticCacheStoreProperties --------------------
(***************************************************************************)
(* The properties of the persistent semantic cache.                        *)
(***************************************************************************)
EXTENDS SemanticCacheStore

Records == [Docs -> 0..MaxEdits]

\* The files hold records, journals and lists of projects, or are absent or cut
\* short; the store and the calls in flight hold what their declarations say.
TypeOK ==
  LET Journal == Seq([sequence : 0..MaxEdits, doc : Docs, record : 0..MaxEdits])
  IN /\ checkpoint \in [Partitions -> Records \cup {NoFile, Torn}]
     /\ \A p \in Partitions : /\ journal[p] \in {NoFile, Torn} \/ journal[p] \in Journal
                              /\ entries[p] \in Journal
     /\ manifest \in (SUBSET Projects) \cup {NoFile, Torn}
     /\ nextSequence \in [Partitions -> 0..MaxEdits]
     /\ partitioned \in BOOLEAN /\ model \in BOOLEAN /\ restored \in BOOLEAN
     /\ {pending, edits} \subseteq 0..MaxEdits
     /\ phase \in {"down", "early", "up"}
     /\ {cache, version, durable} \subseteq Records
     /\ unlogged \cup unread \subseteq Docs
     /\ integrity \in {"intact", "open", "torn", "failed"}

\* While appends and checkpoints take turns no journal ever repeats a number, so
\* load() never refuses one for its sequence, whatever crashed or failed before
\* and however often the store was opened again.
JournalsAreValid ==
  \A p \in Partitions : journal[p] # Torn => ValidJournal(JournalOf(p))

Fresh == Load = Rebuild \/ \A d \in Docs : Load[d] = 0 \/ Load[d] >= durable[d]

\* A record that load() returns is never older than the last one the store has
\* acknowledged, nor is a removed document restored: not after a crash at any
\* write, in either mode, with journals of any age beside the checkpoints.  (Up
\* to the next whole checkpoint not if the store went on with a torn file of the
\* workspace or after a checkpoint that failed, or if the deletion of a directory
\* was cut short.)
NoStaleRecord == integrity \notin {"torn", "failed"} => Fresh

Idle == phase # "down" /\ append = NoCall /\ persist = NoCall

\* Between calls, load() would return exactly what the server has in memory,
\* but for the documents indexed without a mutation and those whose mutation
\* went to a journal that load() does not read.
IdleRestoreIsExact ==
  integrity = "intact" /\ Idle =>
    /\ Load # Rebuild
    /\ \A d \in Docs \ (unlogged \cup unread) : Load[d] = cache[d]

-----------------------------------------------------------------------------
(* What the documents of the repository say.                               *)

\* docs/done-log.md:4622: the restore puts the whole together from the
\* checkpoint and the journal of every partition; so what was logged is there.
LoggedMutationsAreRestored ==
  integrity = "intact" /\ Idle =>
    Load # Rebuild /\ \A d \in Docs \ unlogged : Load[d] = cache[d]

\* docs/done-log.md:705: the checkpoint of a compaction merges the mutations that
\* have accumulated; so no step beside a compaction makes what load() returns older
\* than what was acknowledged.
CompactionMergesMutations ==
  [][/\ persist # NoCall /\ persist.kind = "compaction"
     /\ {integrity, integrity'} \cap {"torn", "failed"} = {}
     /\ Fresh
     => Fresh']_vars

\* docs/done-log.md:5281: a journal or checkpoint left half written forces a clean
\* rebuild; so what was acknowledged before is not undone by what is restored.
TornFilesForceRebuild == integrity # "failed" => Fresh
=============================================================================
