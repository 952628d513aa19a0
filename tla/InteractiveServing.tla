------------------------- MODULE InteractiveServing -------------------------
(***************************************************************************)
(* What the interactive features answer from, over the startups of the     *)
(* server: the pipeline of src/server/serving/interactiveServingPipeline.ts *)
(* and the three caches behind it, which all hang on the epoch of the      *)
(* index: the serving cache and its file, HotContextCache.ts and           *)
(* InheritanceGraph.ts.                                                    *)
(*                                                                         *)
(* A request runs on the one thread without an await, so it is one action. *)
(* What a feature answers about a document is a function of the content of *)
(* the index, Computed; a publication replaces the content and counts the  *)
(* epoch up, and a restore sets both to those of the checkpoint.  The      *)
(* checkpoint is the content of one epoch here; how it is kept is the      *)
(* subject of SemanticCacheStore.  Answers given while a feature is        *)
(* blocked, which may be old by design, change no state and are left out.  *)
(***************************************************************************)
EXTENDS ServingCache

CONSTANTS
  Docs,           \* the documents, or types, a feature is asked about
  Contents,       \* what the index may hold
  Blank,          \* the content of an empty index
  Computed(_, _), \* Computed(d, c): the answer about d from the content c
  None,           \* no value, no document
  MaxEpoch,       \* bound on the epoch
  MaxSessions     \* bound on the startups

Values == {Computed(d, c) : d \in Docs, c \in Contents}
Epochs == 0 .. MaxEpoch

ASSUME ServingAssumption ==
  /\ Blank \in Contents
  /\ MaxEpoch \in Nat /\ MaxSessions \in Nat \ {0}
  /\ None \notin Docs /\ None \notin Contents /\ None \notin Values
  /\ \A n \in 0 .. Capacity :
       NoFlight \notin [1 .. n -> [doc : Docs, epoch : Epochs, value : Values]]

NoVersion == MaxEpoch + 1     \* -1 in the code

VARIABLES
  phase,       \* where the startup task is
  session,     \* the number of the session
  content,     \* the published content of the index
  epoch,       \* its epoch
  graph,       \* InheritanceGraph: lastVersion and the cached answers
  hot,         \* HotContextCache: activeUri, semanticEpoch, the members
  saved,       \* the checkpoint, [content, epoch], or None
  meaning,     \* history: the content an epoch was last published with
  reused       \* history: the epochs that have named two contents

indexVars == <<content, epoch, meaning, reused>>
vars == <<cacheVars, indexVars, phase, session, graph, hot, saved>>

-----------------------------------------------------------------------------
(* The caches that hang on the epoch.                                      *)

\* Mutant: the version is compared, but the answers are kept.
KeepAnswers == graph.answers

\* checkVersion()
CheckedAnswers ==
  IF graph.version = epoch THEN graph.answers ELSE [d \in Docs |-> None]

GraphAnswer(d) ==
  IF CheckedAnswers[d] = None THEN Computed(d, content) ELSE CheckedAnswers[d]

GraphAfter(d) ==
  [version |-> epoch, answers |-> [CheckedAnswers EXCEPT ![d] = GraphAnswer(d)]]

\* Mutant: a change of the active document alone invalidates.
ActiveWithoutEpoch(d) ==
  IF hot.active = d THEN hot ELSE [active |-> d, epoch |-> epoch, members |-> None]

\* setActive()
ActiveAt(d) ==
  IF hot.active = d /\ hot.epoch = epoch THEN hot
  ELSE [active |-> d, epoch |-> epoch, members |-> None]

-----------------------------------------------------------------------------
(* Publications.                                                           *)

NoGraph == [version |-> NoVersion, answers |-> [d \in Docs |-> None]]
NoContext == [active |-> None, epoch |-> NoVersion, members |-> None]

Init ==
  /\ serving = <<>> /\ dirty = FALSE /\ inFlight = NoFlight /\ hasStore = FALSE
  /\ direct = NoFlight /\ file = <<>> /\ failed = FALSE /\ raced = FALSE
  /\ phase = "starting" /\ session = 1
  /\ content = Blank /\ epoch = 0
  /\ graph = NoGraph /\ hot = NoContext
  /\ saved = None
  /\ meaning = [e \in Epochs |-> IF e = 0 THEN Blank ELSE None]
  /\ reused = {}

\* The index publishes c under the epoch e.
PublishAt(c, e) ==
  /\ content' = c /\ epoch' = e
  /\ meaning' = [meaning EXCEPT ![e] = c]
  /\ reused' = IF meaning[e] \in {None, c} THEN reused ELSE reused \cup {e}

Alive == phase # "stopping"

\* An editor change or a watcher intake: it publishes, and invalidates the documents
\* of its plan, all of them after a massive intake.
Publish(c, plan) ==
  /\ Alive /\ epoch < MaxEpoch /\ plan # {}
  /\ PublishAt(c, epoch + 1)
  /\ Changed(Invalidate(serving, plan), epoch + 1)
  /\ hot' = [hot EXCEPT !.members = None]
  /\ UNCHANGED <<phase, session, graph, saved>>

\* onDidClose: nothing is published.
Close(plan) ==
  /\ Alive /\ plan # {}
  /\ Changed(Invalidate(serving, plan), epoch)
  /\ hot' = [hot EXCEPT !.members = None]
  /\ UNCHANGED <<indexVars, phase, session, graph, saved>>

\* The indexing pass commits a batch: nothing is invalidated.
Commit(c) ==
  /\ phase = "indexing" /\ epoch < MaxEpoch
  /\ PublishAt(c, epoch + 1)
  /\ UNCHANGED <<cacheVars, phase, session, graph, hot, saved>>

-----------------------------------------------------------------------------
(* Requests.                                                               *)

\* The entries that ensureRuntimeMemoryPressureRelief() leaves.
Relieved(pressure) == IF pressure THEN <<>> ELSE serving

\* A feature finds its answer, unless memory pressure has it purged first.
Hit(d) ==
  /\ Alive /\ HasKey(serving, d, epoch)
  /\ hot' = ActiveAt(d)
  /\ serving' = Warm(serving, d, epoch)
  /\ UNCHANGED <<dirty, inFlight, hasStore, direct, file, failed, raced, indexVars, phase,
                 session, graph, saved>>

\* A feature computes its answer from the hot members, or from the graph and leaves
\* them hot, and caches it unless memory pressure forbids writes.
Miss(d, pressure, writes) ==
  /\ Alive
  /\ pressure => serving # <<>>
  /\ ~HasKey(Relieved(pressure), d, epoch)
  /\ LET known == ActiveAt(d).members
         answer == IF known = None THEN GraphAnswer(d) ELSE known
     IN /\ hot' = [ActiveAt(d) EXCEPT !.members = answer]
        /\ graph' = IF known = None THEN GraphAfter(d) ELSE graph
        /\ \/ writes /\ pressure /\ EmptiedAndChanged(Put(<<>>, d, epoch, answer), epoch)
           \/ writes /\ ~pressure /\ Changed(Put(serving, d, epoch, answer), epoch)
           \/ ~writes /\ pressure /\ Changed(<<>>, epoch)
           \/ ~writes /\ ~pressure /\ UNCHANGED cacheVars
  /\ UNCHANGED <<indexVars, phase, session, saved>>

\* Diagnostics and reports ask the graph.
AskGraph(d) ==
  /\ Alive
  /\ graph' = GraphAfter(d)
  /\ UNCHANGED <<cacheVars, indexVars, phase, session, hot, saved>>

-----------------------------------------------------------------------------
(* The startup task.                                                       *)

OpenStore ==
  /\ phase = "starting"
  /\ phase' = "loading" /\ hasStore' = TRUE
  /\ UNCHANGED <<serving, dirty, inFlight, direct, file, failed, raced, indexVars, session,
                 graph, hot, saved>>

\* load() finds no checkpoint it may reuse.
LoadNothing ==
  /\ phase = "loading"
  /\ phase' = "fresh"
  /\ UNCHANGED <<cacheVars, indexVars, session, graph, hot, saved>>

\* restoreDocumentRecords(), which takes over the epoch as well.  The restore after the
\* discovery, when the first load() found nothing, is this same step taken later.
RestoreIndex ==
  /\ phase = "loading" /\ saved # None /\ saved.content # Blank
  /\ phase' = "restoring"
  /\ content' = saved.content /\ epoch' = saved.epoch
  /\ meaning' = [meaning EXCEPT ![saved.epoch] = saved.content]
  /\ reused' = IF meaning[saved.epoch] \in {None, saved.content} THEN reused
               ELSE reused \cup {saved.epoch}
  /\ UNCHANGED <<cacheVars, session, graph, hot, saved>>

\* restoreServingCacheSnapshot(): no entry of the epoch, and the cache stays as it is.
RestoreServing ==
  /\ phase = "restoring"
  /\ phase' = "restored"
  /\ LET entries == Snapshot(file, saved.epoch)
     IN serving' = IF entries = <<>> THEN serving ELSE Youngest(entries)
  /\ UNCHANGED <<dirty, inFlight, hasStore, direct, file, failed, raced, indexVars, session,
                 graph, hot, saved>>

\* The second load() agrees; the checkpoint is written before the pass.
Proceed ==
  /\ phase \in {"fresh", "restored"}
  /\ phase' = "indexing"
  /\ saved' = [content |-> content, epoch |-> epoch]
  /\ UNCHANGED <<cacheVars, indexVars, session, graph, hot>>

\* The second load() finds other metadata: all is cleared, and nothing flushed.
Discard ==
  /\ phase = "restored" /\ epoch < MaxEpoch
  /\ phase' = "indexing"
  /\ PublishAt(Blank, epoch + 1)
  /\ serving' = <<>>
  /\ saved' = [content |-> Blank, epoch |-> epoch + 1]
  /\ UNCHANGED <<dirty, inFlight, hasStore, direct, file, failed, raced, session, graph,
                 hot>>

\* The pass is over: the checkpoint is written, then the snapshot.
EndPass ==
  /\ phase = "indexing"
  /\ phase' = "running"
  /\ saved' = [content |-> content, epoch |-> epoch]
  /\ BeginDirect(epoch)
  /\ UNCHANGED <<indexVars, session, graph, hot>>

-----------------------------------------------------------------------------
(* Writes, shutdown and crashes.                                           *)

Write ==
  /\ FlushEnds(epoch) \/ FlushFails \/ DirectEnds \/ DirectFails
  /\ UNCHANGED <<indexVars, phase, session, graph, hot, saved>>

\* onShutdown empties the cache and awaits the flush of that.
Shutdown ==
  /\ Alive
  /\ phase' = "stopping"
  /\ Changed(<<>>, epoch)
  /\ UNCHANGED <<indexVars, session, graph, hot, saved>>

\* The process ends, at any point, and another starts.
Restart ==
  /\ session < MaxSessions
  /\ session' = session + 1 /\ phase' = "starting"
  /\ LoseCache
  /\ content' = Blank /\ epoch' = 0
  /\ graph' = NoGraph /\ hot' = NoContext
  /\ UNCHANGED <<saved, meaning, reused>>

Next ==
  \/ \E c \in Contents, plan \in SUBSET Docs : Publish(c, plan)
  \/ \E plan \in SUBSET Docs : Close(plan)
  \/ \E c \in Contents : Commit(c)
  \/ \E d \in Docs : Hit(d) \/ AskGraph(d)
  \/ \E d \in Docs, pressure, writes \in BOOLEAN : Miss(d, pressure, writes)
  \/ OpenStore \/ LoadNothing \/ RestoreIndex \/ RestoreServing
  \/ Proceed \/ Discard \/ EndPass
  \/ Write \/ Shutdown \/ Restart

Spec == Init /\ [][Next]_vars
=============================================================================
