-------------------- MODULE WorkspaceIndexingProperties --------------------
(***************************************************************************)
(* When the index tells the truth about the workspace.                     *)
(***************************************************************************)
EXTENDS WorkspaceIndexing

Contents == 0 .. MaxContent
Intakes == [events : Seq(Event), content : Contents \cup {Unread}, refresh : SUBSET Files]

\* The variables hold the values the code can give them.
TypeOK ==
  /\ pending \in Seq(Event) /\ Len(pending) <= MaxPending
  /\ timer \in {"null", "armed"} /\ leaked \in Nat
  /\ batches \in Seq(Seq(Event))
  /\ disk \in [Files -> Contents] /\ buffer \in [Files -> Contents]
  /\ saved \in [Files -> Contents] /\ clock \in Contents
  /\ index \in [Files -> Contents] /\ analysed \in [Files -> Contents]
  /\ captured \in [Files -> Contents \cup {Unread}]
  /\ staged = NoBatch \/ staged \in [Files -> Contents \cup {Untouched}]
  /\ startup \in {"starting", "restored", "empty", "reading", "enriched", "done", "down"}
  /\ files \subseteq Files /\ failed \subseteq Files
  /\ slotHeld \in BOOLEAN
  /\ intakes \in Seq(Intakes)

\* A window has a timer of its own exactly while it has events to hand over, however
\* many timers were leaked and whatever those handed over before their time.
WindowHasTimer == pending # <<>> <=> timer = "armed"

\* The merged event of a file tells whether the file is there, and a window has one
\* event of a file at most.
WindowTellsTheDisk ==
  /\ \A i \in DOMAIN pending : pending[i].kind = "delete" <=> disk[pending[i].uri] = 0
  /\ \A i, j \in DOMAIN pending : pending[i].uri = pending[j].uri => i = j

Quiet ==
  startup = "done" /\ pending = <<>> /\ batches = <<>> /\ intakes = <<>>

\* Records of files that went while no session ran: nothing ever removes them.
Ghosts == {f \in Files : saved[f] # 0 /\ disk[f] = 0} \ touched

\* When nothing is under way, the index shows of a file the editor has never opened
\* what the disk has, and nothing if it has no such file, whatever was restored, read
\* and published in between; except where the file state says that it failed, for
\* restored records of files that went before, and when two intakes that ran beside
\* each other had events of the file.
NeverOpenedFilesConverge ==
  Quiet =>
    \A f \in Files \ (opened \cup failed \cup Ghosts \cup contended) : index[f] = disk[f]

\* An analysis that the cache holds is in the index, so a hit may skip the upsert;
\* unless a background writer has put something else in its place since.
OpenDocumentsAreShown ==
  \A f \in Files : IsOpen(f) /\ f \notin overwritten => Committed[f] = buffer[f]

\* The window, the queue and the intakes are worked off: with NeverOpenedFilesConverge,
\* the index catches up with the disk.
ChangesAreWorkedOff == <>[](Quiet \/ startup = "down")

-----------------------------------------------------------------------------
(* What the documents of the repository say.                               *)

\* specs/207-watched-source-intake-pipeline/spec.md:33: the watcher does not reindex
\* open documents.
WatcherLeavesOpenDocuments ==
  [][\A f \in Files, i \in 1 .. MaxIntakes :
       IntakePublishes(i) /\ Next1(i).uri = f => ~IsOpen(f)]_vars
=============================================================================
