-------------------- MODULE InteractiveServingProperties --------------------
(***************************************************************************)
(* What the caches behind the interactive features promise.  All of it     *)
(* rests on an epoch naming one content of the index, so it is stated for  *)
(* the epochs that have.                                                   *)
(***************************************************************************)
EXTENDS InteractiveServing

Entry == [doc : Docs, epoch : Epochs, value : Values]

Caches == {q \in Seq(Entry) : Len(q) <= Capacity}

\* Every variable has its type; the cache never outgrows its capacity.
TypeOK ==
  /\ serving \in Caches /\ dirty \in BOOLEAN
  /\ inFlight = NoFlight \/ inFlight \in Caches
  /\ direct = NoFlight \/ direct \in Caches
  /\ file \in Caches /\ hasStore \in BOOLEAN /\ failed \in BOOLEAN /\ raced \in BOOLEAN
  /\ phase \in {"starting", "loading", "fresh", "restoring", "restored", "indexing",
                "running", "stopping"}
  /\ session \in 1 .. MaxSessions
  /\ content \in Contents /\ epoch \in Epochs
  /\ graph \in [version : Epochs \cup {NoVersion},
                answers : [Docs -> Values \cup {None}]]
  /\ hot \in [active : Docs \cup {None}, epoch : Epochs \cup {NoVersion},
              members : Values \cup {None}]
  /\ saved = None \/ saved \in [content : Contents, epoch : Epochs]
  /\ meaning \in [Epochs -> Contents \cup {None}]
  /\ reused \subseteq Epochs

-----------------------------------------------------------------------------

\* The graph, the hot context and the serving cache have no answer for the current epoch
\* but those the current content gives.
CurrentAnswers ==
  /\ graph.version = epoch =>
       \A d \in Docs : graph.answers[d] \in {None, Computed(d, content)}
  /\ hot.epoch = epoch =>
       hot.members \in {None} \cup {Computed(d, content) : d \in Docs \cap {hot.active}}
  /\ \A x \in Entries(serving) : x.epoch = epoch => x.value = Computed(x.doc, content)

\* No interactive feature answers from another content than the index publishes now, as
\* long as the epoch has named one content only: checkVersion() of InheritanceGraph,
\* setActive() of HotContextCache and the epoch in the serving keys.
FreshAnswersAreCurrent == epoch \notin reused => CurrentAnswers

\* Caches bound to the epoch do not reuse obsolete answers.
\* (specs/135-workspace-semantic-epoch/quickstart.md)
EpochBoundAnswersAreCurrent == CurrentAnswers

\* The entries of serving-cache.json were computed from what their epoch stands for, so
\* that restoreServingCacheSnapshot(), which picks those of the checkpoint's epoch,
\* brings back no answer of another content, whenever the process dies.
RestorableAnswersAreRight ==
  \A x \in Entries(file) :
    x.epoch \notin reused => x.value = Computed(x.doc, meaning[x.epoch])

\* When the server runs and no write is under way, the file holds the current entries of
\* the cache, unless the last write failed or overtook another: the coordinator forgets
\* no change that arrives during a flush.
SnapshotIsSettled ==
  phase = "running" /\ inFlight = NoFlight /\ direct = NoFlight /\ ~failed /\ ~raced =>
    Entries(Snapshot(serving, epoch)) = Entries(Snapshot(file, epoch))
=============================================================================
