------------------------- MODULE SemanticCacheStore -------------------------
(***************************************************************************)
(* The persistent semantic cache, src/server/cache/cacheStore.ts, with the *)
(* restore rules of src/server/cache/cacheCheckpoint.ts and the callers    *)
(* that drive it: startup (src/server/handlers/lifecycleHandlers.ts), the  *)
(* analysis cache (src/server/analysis/analysisCache.ts), the compaction   *)
(* of src/server/cache/semanticCacheRuntimeController.ts and the clear     *)
(* command of src/server/handlers/runtimeCommandHandlers.ts.               *)
(*                                                                         *)
(* A checkpoint is one file, or one of the workspace and one per project   *)
(* that a manifest lists; each has a journal beside it.  The files are     *)
(* written one after the other, and the server may die, or a write fail,   *)
(* at any of them.  A record is the version of a document, 0 none.         *)
(*                                                                         *)
(* Nothing in the code makes the calls of the store take turns: its caller *)
(* does not await an append, and the compaction it may start runs beside   *)
(* it.  With Overlapping an append and one other call are in flight        *)
(* together; without, the calls take turns.  (Appends always do here.      *)
(* That two of them lose mutations is known, docs/audits/                  *)
(* macro-instant-semantic-indexing-findings.md:342.)                       *)
(*                                                                         *)
(* A failed append rejects a promise that nobody handles, which ends the   *)
(* process: it is Crash.  The schema version, the pruning of other         *)
(* workspaces, the serving snapshot, budgets in bytes and the LRU limit of *)
(* the exported documents are left out.                                    *)
(***************************************************************************)
EXTENDS Naturals, Sequences, FiniteSets

CONSTANTS
  Docs,
  Projects,
  ProjectOf,     \* the project of a document, or Workspace
  Workspace,     \* the partition of the documents without a project
  MaxEdits,      \* bound on the versions of all documents together
  MaxPending,    \* maxPendingMutations
  MaxJournal,    \* maxJournalEntries
  Overlapping,   \* may an append be in flight beside another call?
  NoFile,        \* an absent file
  Torn,          \* a file whose write was cut short: invalid JSON
  NoCall,        \* no call of the store is in flight
  Rebuild        \* load() found nothing it may reuse

Partitions == Projects \cup {Workspace}

\* An entry of a journal, and the calls in flight as far as they have come.
JournalEntry == [sequence : Nat, doc : Docs, record : Nat]

AppendCall == [step : {"called", "writing"}, entry : JournalEntry, part : Partitions,
               payload : Seq(JournalEntry), version : Nat]

StoreCall == [kind : {"checkpoint", "compaction", "clear"},
              step : {"begin", "manifest", "projects", "checkpoint", "project", "journal",
                      "validate", "clear"},
              docs : [Docs -> Nat], rest : SUBSET Projects]

ASSUME StoreAssumption ==
  /\ Workspace \notin Projects
  /\ ProjectOf \in [Docs -> Partitions]
  /\ MaxEdits \in Nat /\ MaxPending \in Nat \ {0} /\ MaxJournal \in Nat
  /\ Overlapping \in BOOLEAN
  /\ NoFile # Torn
  /\ \A x \in {NoFile, Torn} : x \notin Seq(JournalEntry) /\ \A P \in SUBSET Projects : x # P
  /\ \A x \in {NoFile, Torn, Rebuild} : x \notin [Docs -> Nat]
  /\ NoCall \notin AppendCall \cup StoreCall

VARIABLES
  checkpoint, journal,      \* the files of every partition
  manifest,                 \* the projects listed, NoFile or Torn
  entries, nextSequence,    \* of the store, for every partition: the journal
                            \* it keeps in memory and the last number used
  partitioned,              \* partitionedPersistenceEnabled
  pending,                  \* pendingMutations
  model,                    \* was the store created with a project model?
  phase,                    \* of startup: "down", "early", "up"
  restored,                 \* earlyRestoreApplied
  cache,                    \* the records of DocumentCache
  append,                   \* the appendJournalMutation() in flight, or NoCall
  persist,                  \* the persistCheckpoint() or clear() in flight, or NoCall
  (* What the properties speak of; the code does not have it.              *)
  edits,                    \* edits and removals so far, of all documents
  version,                  \* of a document, counting its edits and removals
  durable,                  \* the last version recorded where load() looks
  unlogged,                 \* documents changed since without a mutation
  unread,                   \* documents whose mutation went where load() does not look
  integrity                 \* of the files: "intact" after a whole checkpoint,
                            \* "torn" since the store was opened on a torn file of
                            \* the workspace, "failed" since a checkpoint failed and
                            \* the server went on or the deletion of a directory was
                            \* cut short, else "open"

files == <<checkpoint, journal, manifest>>
memory == <<entries, nextSequence, partitioned, pending>>
ghosts == <<edits, version, durable, unlogged, unread, integrity>>
vars == <<files, memory, model, phase, restored, cache, append, persist, ghosts>>

Nowhere == [d \in Docs |-> 0]

\* calculateHash() of a version and the analysis it stands for are the version.
Entry(n, d, v) == [sequence |-> n, doc |-> d, record |-> v]

-----------------------------------------------------------------------------
(* load()                                                                  *)

\* Mutant: a store that is opened again starts its numbers over.
StartOver(j) == 0

LastSequence(j) == IF j = <<>> THEN 0 ELSE j[Len(j)].sequence

\* A file that does not exist is read as an empty journal.
JournalOf(p) == IF journal[p] = NoFile THEN <<>> ELSE journal[p]

\* validateJournalEntries(), of the sequence only.
ValidJournal(j) == \A i, k \in DOMAIN j : j[i].sequence = j[k].sequence => i = k

\* The replay of resolveCheckpointRestore(), in the order of the sequence.
Replay(docs, j) ==
  [d \in Docs |->
     LET of == {i \in DOMAIN j : j[i].doc = d}
     IN IF of = {} THEN docs[d]
        ELSE j[CHOOSE i \in of :
                 \A k \in of : j[k].sequence <= j[i].sequence].record]

\* resolveCheckpointRestore(): without a checkpoint the roots do not match.
Restorable(p) ==
  /\ checkpoint[p] \notin {NoFile, Torn}
  /\ journal[p] # Torn
  /\ ValidJournal(JournalOf(p))

Restore(p) == Replay(checkpoint[p], JournalOf(p))

Listed == IF manifest \in {NoFile, Torn} THEN {} ELSE manifest

\* The records of the partitions follow those of the workspace, so they win.
Load ==
  IF manifest = Torn \/ ~\A p \in Listed \cup {Workspace} : Restorable(p)
  THEN Rebuild
  ELSE [d \in Docs |->
          LET of == {p \in Listed : Restore(p)[d] # 0}
          IN IF of = {} THEN Restore(Workspace)[d]
             ELSE Restore(CHOOSE p \in of : TRUE)[d]]

WorkspaceTorn == Torn \in {checkpoint[Workspace], journal[Workspace], manifest}

\* The partitions whose journal load() takes over: all, or some of those it can
\* restore if it gives up at the first it cannot; none if the workspace is refused.
TakenOver(matches) ==
  IF ~matches \/ ~Restorable(Workspace) THEN {{}}
  ELSE LET restorable == {p \in Listed : Restorable(p)}
       IN IF restorable = Listed THEN {Listed} ELSE SUBSET restorable

\* What load() leaves in the store; nothing if a file of the workspace is torn.
LoadMemory(e, n, mode, matches) ==
  IF WorkspaceTorn
  THEN entries' = e /\ nextSequence' = n /\ partitioned' = mode
  ELSE \E taken \in TakenOver(matches) :
         LET kept(p) == IF p \in taken \cup {Workspace} THEN JournalOf(p) ELSE <<>>
         IN /\ entries' = [p \in Partitions |-> kept(p)]
            /\ nextSequence' = [p \in Partitions |-> LastSequence(kept(p))]
            /\ partitioned' = (Listed # {})

NoEntries == [p \in Partitions |-> <<>>]
NoSequences == [p \in Partitions |-> 0]

\* Mutant: the store does not carry on the journal it finds.
OpenWithoutJournal(matches) ==
  /\ entries' = NoEntries /\ nextSequence' = NoSequences
  /\ partitioned' = (Listed # {})
  /\ pending' = 0

\* createSemanticCacheStore() and the load() that follows it.
OpenStore(matches) ==
  LoadMemory(NoEntries, NoSequences, FALSE, matches) /\ pending' = 0

-----------------------------------------------------------------------------
(* appendJournalMutation()                                                 *)

MayAppend == append = NoCall /\ (Overlapping \/ persist = NoCall)
MayCall   == persist = NoCall /\ (Overlapping \/ append = NoCall)

\* An analysis (kept) or a removal of a document: the record goes to the cache
\* and a mutation to the store, up to the await of createDirectory().
Mutate(d, kept) ==
  /\ phase # "down" /\ MayAppend
  /\ edits < MaxEdits /\ edits' = edits + 1
  /\ version' = [version EXCEPT ![d] = @ + 1]
  /\ LET record == IF kept THEN version[d] + 1 ELSE 0
     IN /\ cache' = [cache EXCEPT ![d] = record]
        /\ append' = [step |-> "called", entry |-> Entry(0, d, record),
                      part |-> Workspace, payload |-> <<>>, version |-> version'[d]]
  /\ pending' = pending + 1
  /\ UNCHANGED <<files, entries, nextSequence, partitioned, model, phase, restored,
                 persist, durable, unlogged, unread, integrity>>

\* The indexer and the watcher index documents without a mutation.
IndexUnlogged(d) ==
  /\ phase # "down" /\ edits < MaxEdits /\ edits' = edits + 1
  /\ version' = [version EXCEPT ![d] = @ + 1]
  /\ cache' = [cache EXCEPT ![d] = version[d] + 1]
  /\ unlogged' = unlogged \cup {d}
  /\ UNCHANGED <<files, memory, model, phase, restored, append, persist,
                 durable, unread, integrity>>

\* partitionJournalMutation()
PartitionFor(d) == IF partitioned /\ model THEN ProjectOf[d] ELSE Workspace

\* Mutant: the number is advanced twice.
SkipNumber(p) == nextSequence[p] + 2

NextNumber(p) == nextSequence[p] + 1

\* writeJournalEntry(), up to the await of the write: the workspace keeps its
\* entry and number at once, a project its number when the write has ended (and
\* its first entry; the others at once, which calls in turn cannot tell apart).
PushEntry ==
  /\ append # NoCall /\ append.step = "called"
  /\ LET p == PartitionFor(append.entry.doc)
         e == [append.entry EXCEPT !.sequence = NextNumber(p)]
         payload == Append(entries[p], e)
     IN /\ append' = [append EXCEPT !.step = "writing", !.entry = e, !.part = p,
                                     !.payload = payload]
        /\ entries' = IF p = Workspace THEN [entries EXCEPT ![p] = payload] ELSE entries
        /\ nextSequence' = IF p = Workspace
                           THEN [nextSequence EXCEPT ![p] = e.sequence] ELSE nextSequence
  /\ UNCHANGED <<files, partitioned, pending, model, phase, restored, cache, persist,
                 ghosts>>

\* Where load() finds the last word on a document.
LooksAt(p, d) == p \in Listed \/ (p = Workspace /\ ProjectOf[d] \notin Listed)

EndAppend ==
  /\ append # NoCall /\ append.step = "writing"
  /\ LET p == append.part
         d == append.entry.doc
     IN /\ journal' = [journal EXCEPT ![p] = append.payload]
        /\ entries' = IF p = Workspace THEN entries ELSE [entries EXCEPT ![p] = append.payload]
        /\ nextSequence' = [nextSequence EXCEPT ![p] = append.entry.sequence]
        /\ IF LooksAt(p, d)
           THEN /\ durable' = [durable EXCEPT ![d] = append.version]
                /\ unread' = unread \ {d}
           ELSE unread' = unread \cup {d} /\ UNCHANGED durable
        /\ unlogged' = IF version[d] = append.version THEN unlogged \ {d} ELSE unlogged
  /\ append' = NoCall
  /\ UNCHANGED <<checkpoint, manifest, partitioned, pending, model, phase, restored,
                 cache, persist, edits, version, integrity>>

-----------------------------------------------------------------------------
(* persistCheckpoint(), one action per file.                               *)

DocsOf(docs, p) == [d \in Docs |-> IF ProjectOf[d] = p THEN docs[d] ELSE 0]

\* The projects that get a partition.
ProjectsOf(docs) == {p \in Projects : DocsOf(docs, p) # Nowhere}

Call(kind, docs) ==
  [kind |-> kind, step |-> IF kind = "clear" THEN "clear" ELSE "begin",
   docs |-> docs, rest |-> ProjectsOf(docs)]

At(step) == persist # NoCall /\ persist.step = step

Goto(step) == persist' = [persist EXCEPT !.step = step]

\* The checkpoint that startup writes once the index is complete.
SaveCheckpoint ==
  /\ phase = "up" /\ MayCall
  /\ persist' = Call("checkpoint", cache)
  /\ UNCHANGED <<files, memory, model, phase, restored, cache, append, ghosts>>

\* runMaintenance() at a threshold, after an append or by command: load(), then the
\* checkpoint of what it found.
Compact ==
  /\ phase # "down" /\ MayCall
  /\ \/ pending >= MaxPending
     \/ journal[Workspace] # Torn /\ Len(JournalOf(Workspace)) > MaxJournal
  /\ LoadMemory(entries, nextSequence, partitioned, TRUE)
  /\ persist' = IF Load = Rebuild THEN NoCall ELSE Call("compaction", Load)
  /\ UNCHANGED <<files, pending, model, phase, restored, cache, append, ghosts>>

OnlyWorkspace(f, empty) == [p \in Partitions |-> IF p = Workspace THEN f[p] ELSE empty]

\* The store changes its mode and forgets the journals of the projects.
BeginCheckpoint ==
  /\ At("begin")
  /\ partitioned' = model
  /\ entries' = OnlyWorkspace(entries, <<>>)
  /\ nextSequence' = OnlyWorkspace(nextSequence, 0)
  /\ Goto(IF model THEN "projects" ELSE "manifest")
  /\ UNCHANGED <<files, pending, model, phase, restored, cache, append, ghosts>>

DeleteManifest ==
  /\ At("manifest")
  /\ manifest' = NoFile /\ Goto("projects")
  /\ UNCHANGED <<checkpoint, journal, memory, model, phase, restored, cache, append,
                 ghosts>>

DeleteProjects ==
  /\ At("projects")
  /\ checkpoint' = OnlyWorkspace(checkpoint, NoFile)
  /\ journal' = OnlyWorkspace(journal, NoFile)
  /\ Goto("checkpoint")
  /\ UNCHANGED <<manifest, memory, model, phase, restored, cache, append, ghosts>>

\* After its last file but the journal the store starts a new journal.
ResetJournal ==
  /\ entries' = [entries EXCEPT ![Workspace] = <<>>]
  /\ nextSequence' = [nextSequence EXCEPT ![Workspace] = 0]
  /\ pending' = 0

WriteWorkspace ==
  /\ At("checkpoint")
  /\ IF model
     THEN /\ checkpoint' = [checkpoint EXCEPT ![Workspace] = DocsOf(persist.docs, Workspace)]
          /\ Goto("project") /\ UNCHANGED <<entries, nextSequence, pending>>
     ELSE /\ checkpoint' = [checkpoint EXCEPT ![Workspace] = persist.docs]
          /\ Goto("journal") /\ ResetJournal
  /\ UNCHANGED <<journal, manifest, partitioned, model, phase, restored, cache, append,
                 ghosts>>

\* In the order of their URIs in the code.
WriteProject(p) ==
  /\ At("project") /\ p \in persist.rest
  /\ checkpoint' = [checkpoint EXCEPT ![p] = DocsOf(persist.docs, p)]
  /\ entries' = [entries EXCEPT ![p] = <<>>]
  /\ nextSequence' = [nextSequence EXCEPT ![p] = 0]
  /\ persist' = [persist EXCEPT !.rest = @ \ {p}]
  /\ UNCHANGED <<journal, manifest, partitioned, pending, model, phase, restored, cache,
                 append, ghosts>>

WriteManifest ==
  /\ At("project") /\ persist.rest = {}
  /\ manifest' = ProjectsOf(persist.docs)
  /\ ResetJournal /\ Goto("journal")
  /\ UNCHANGED <<checkpoint, journal, partitioned, model, phase, restored, cache, append,
                 ghosts>>

\* A checkpoint of what the server has in memory makes the files whole again.
EndCheckpoint ==
  /\ IF persist.kind = "compaction"
     THEN Goto("validate") /\ UNCHANGED <<durable, integrity>>
     ELSE /\ persist' = NoCall /\ integrity' = "intact"
          /\ durable' = [d \in Docs |-> IF persist.docs[d] = 0 THEN version[d]
                                         ELSE persist.docs[d]]
  /\ unlogged' = {d \in unlogged : cache[d] # persist.docs[d]}
  /\ unread' = {d \in unread : cache[d] # persist.docs[d]}

\* Mutant: the journal of the checkpoint before stays.
KeepJournal ==
  /\ At("journal") /\ EndCheckpoint
  /\ UNCHANGED <<files, memory, model, phase, restored, cache, append, edits, version>>

DeleteJournal ==
  /\ At("journal") /\ EndCheckpoint
  /\ journal' = [journal EXCEPT ![Workspace] = NoFile]
  /\ UNCHANGED <<checkpoint, manifest, memory, model, phase, restored, cache, append,
                 edits, version>>

\* The load() that checks the result of a compaction, or that of the command
\* powerbuilder.validatePersistentCache.
Validate ==
  /\ phase # "down"
  /\ MayCall \/ At("validate")
  /\ LoadMemory(entries, nextSequence, partitioned, TRUE)
  /\ persist' = NoCall
  /\ UNCHANGED <<files, pending, model, phase, restored, cache, append, ghosts>>

-----------------------------------------------------------------------------
(* clear()                                                                 *)

BeginClear ==
  /\ phase # "down" /\ MayCall
  /\ entries' = NoEntries /\ nextSequence' = NoSequences
  /\ partitioned' = FALSE /\ pending' = 0
  /\ persist' = Call("clear", Nowhere)
  /\ UNCHANGED <<files, model, phase, restored, cache, append, ghosts>>

EndClear ==
  /\ At("clear")
  /\ checkpoint' = [p \in Partitions |-> NoFile]
  /\ journal' = [p \in Partitions |-> NoFile]
  /\ manifest' = NoFile
  /\ persist' = NoCall
  /\ integrity' = IF integrity = "intact" THEN "open" ELSE integrity
  /\ UNCHANGED <<memory, model, phase, restored, cache, append, edits, version, durable,
                 unlogged, unread>>

-----------------------------------------------------------------------------
(* Startup, failures and the end of the process.                           *)

\* The first store, without a project model.
Start ==
  /\ phase = "down"
  /\ phase' = "early" /\ model' = FALSE
  /\ OpenStore(TRUE)
  /\ cache' = IF Load = Rebuild THEN Nowhere ELSE Load
  /\ restored' = (Load \notin {Rebuild, Nowhere})
  /\ unlogged' = {} /\ unread' = {}
  /\ integrity' = IF WorkspaceTorn /\ integrity # "failed" THEN "torn" ELSE integrity
  /\ UNCHANGED <<files, append, persist, edits, version, durable>>

\* The end of discovery: the second store, with the projects found (if any).
\* The metadata of the checkpoint may not match the projects.
Discover(known, matches) ==
  LET found == IF matches THEN Load ELSE Rebuild
      kept == IF found = Rebuild THEN IF restored THEN Nowhere ELSE cache
              ELSE IF restored \/ found = Nowhere THEN cache ELSE found
  IN /\ phase = "early" /\ append = NoCall /\ persist = NoCall
     /\ phase' = "up" /\ model' = known
     /\ OpenStore(matches)
     /\ cache' = kept
     /\ unlogged' = unlogged \cup {d \in Docs : cache[d] # kept[d]}
     /\ persist' = Call("checkpoint", kept)
     /\ UNCHANGED <<files, restored, append, edits, version, durable, unread, integrity>>

\* The calls that delete a directory.
Deleting == At("clear") \/ At("projects")

\* What a call cut short leaves: the file it was writing may be torn, of the
\* directory it was deleting any files may be left.
Interrupted ==
  \/ UNCHANGED files
  \/ /\ append # NoCall /\ append.step = "writing"
     /\ journal' = [journal EXCEPT ![append.part] = Torn]
     /\ UNCHANGED <<checkpoint, manifest>>
  \/ /\ At("checkpoint")
     /\ checkpoint' = [checkpoint EXCEPT ![Workspace] = Torn]
     /\ UNCHANGED <<journal, manifest>>
  \/ /\ At("project")
     /\ \/ \E p \in persist.rest : /\ checkpoint' = [checkpoint EXCEPT ![p] = Torn]
                                   /\ UNCHANGED manifest
        \/ persist.rest = {} /\ manifest' = Torn /\ UNCHANGED checkpoint
     /\ UNCHANGED journal
  \/ /\ Deleting
     /\ \E c, j \in SUBSET (IF At("clear") THEN Partitions ELSE Projects) :
          /\ checkpoint' = [p \in Partitions |-> IF p \in c THEN NoFile ELSE checkpoint[p]]
          /\ journal' = [p \in Partitions |-> IF p \in j THEN NoFile ELSE journal[p]]
     /\ manifest' \in IF At("clear") THEN {manifest, NoFile} ELSE {manifest}

IntegrityAfter ==
  IF Deleting THEN "failed"
  ELSE IF integrity = "intact" /\ (append # NoCall \/ persist # NoCall) THEN "open"
  ELSE integrity

\* A checkpoint that fails is given up; the store goes on in its present state.
FailCheckpoint ==
  /\ persist # NoCall
  /\ Interrupted
  /\ persist' = NoCall
  /\ integrity' = "failed"
  /\ UNCHANGED <<memory, model, phase, restored, cache, append, edits, version, durable,
                 unlogged, unread>>

Crash ==
  /\ phase # "down"
  /\ Interrupted
  /\ phase' = "down" /\ model' = FALSE /\ restored' = FALSE
  /\ entries' = NoEntries /\ nextSequence' = NoSequences
  /\ partitioned' = FALSE /\ pending' = 0
  /\ cache' = Nowhere
  /\ append' = NoCall /\ persist' = NoCall
  /\ integrity' = IntegrityAfter
  /\ unlogged' = {} /\ unread' = {}
  /\ UNCHANGED <<edits, version, durable>>

Init ==
  /\ checkpoint = [p \in Partitions |-> NoFile]
  /\ journal = [p \in Partitions |-> NoFile]
  /\ manifest = NoFile
  /\ entries = NoEntries /\ nextSequence = NoSequences
  /\ partitioned = FALSE /\ pending = 0
  /\ model = FALSE /\ phase = "down" /\ restored = FALSE
  /\ cache = Nowhere
  /\ append = NoCall /\ persist = NoCall
  /\ edits = 0 /\ version = Nowhere /\ durable = Nowhere
  /\ unlogged = {} /\ unread = {} /\ integrity = "open"

Next ==
  \/ \E d \in Docs, kept \in BOOLEAN : Mutate(d, kept)
  \/ \E d \in Docs : IndexUnlogged(d)
  \/ PushEntry \/ EndAppend
  \/ SaveCheckpoint \/ Compact
  \/ BeginCheckpoint \/ DeleteManifest \/ DeleteProjects \/ WriteWorkspace
  \/ \E p \in Projects : WriteProject(p)
  \/ WriteManifest \/ DeleteJournal \/ Validate
  \/ BeginClear \/ EndClear
  \/ Start \/ \E known, matches \in BOOLEAN : Discover(known, matches)
  \/ FailCheckpoint \/ Crash

Spec == Init /\ [][Next]_vars
=============================================================================
