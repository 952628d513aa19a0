------------------------- MODULE WorkspaceIndexing -------------------------
(***************************************************************************)
(* Where the facts of the index come from: the startup task of             *)
(* src/server/handlers/lifecycleHandlers.ts (restore, discovery, indexing  *)
(* pass), the intakes of watched files                                     *)
(* (src/server/workspace/watchedFileIntake.ts, fed by the debouncer), and  *)
(* the editor through src/server/analysis/analysisCache.ts.  They share    *)
(* the thread and write to the same index; each await lets the others in.  *)
(*                                                                         *)
(* The facts of a document are the content they were computed from, a      *)
(* number; 0 stands for no file, no buffer, no facts.  Outside a batch the *)
(* document cache holds what the index holds and is not told apart.        *)
(* Startup holds the Background slot to its end.  An intake holds it until *)
(* a request of the user preempts it; its body goes on all the same, and   *)
(* the next intake starts beside it.                                       *)
(***************************************************************************)
EXTENDS FileWatcherDebouncer, FiniteSets

CONSTANTS
  Edited,         \* the files the editor opens
  MaxContent,     \* bound on the contents that are ever written
  MaxIntakes,     \* bound on the intakes that run beside each other
  Unread, Untouched, NoBatch

ASSUME WorkspaceAssumption ==
  /\ Edited \subseteq Files
  /\ MaxContent \in Nat /\ MaxContent >= 2 /\ MaxIntakes \in Nat
  /\ Unread \notin Nat /\ Untouched \notin Nat
  /\ NoBatch \notin [Files -> (0 .. MaxContent) \cup {Untouched}]

Old == 1          \* the content the previous session saw
FirstNew == 2     \* a content written while no session ran

VARIABLES
  disk,           \* what the file system has
  clock,          \* the last content written
  buffer,         \* what the editor has open
  saved,          \* the records of the checkpoint
  startup,        \* where the startup task is
  files,          \* sourceFiles of the WorkspaceState
  captured,       \* what the pass read of a file and has not published yet
  index,          \* the KnowledgeBase
  staged,         \* its open batch
  analysed,       \* analysisByUri: the content of the cached analysis
  failed,         \* the files in FileIndexState.Failed
  slotHeld,       \* has the youngest intake the Background slot?
  intakes,        \* the intakes that run, oldest first
  opened,         \* history: the files the editor has ever opened
  touched,        \* history: the files written in this session
  contended,      \* history: the files that two running intakes had events of
  overwritten     \* history: open documents whose facts are not the editor's

vars == <<debouncerVars, disk, clock, buffer, saved, startup, files, captured, index,
          staged, analysed, failed, slotHeld, intakes, opened, touched, contended,
          overwritten>>

IsOpen(f) == buffer[f] # 0

\* The documents of F whose editor text is not the content g gives them.
Differing(F, g) == {f \in F : IsOpen(f) /\ buffer[f] # g[f]}

-----------------------------------------------------------------------------
(* The index and the analysis cache.                                       *)

\* upsertDocument() of the documents in F with the contents g.
Upsert(F, g) ==
  IF staged = NoBatch
  THEN /\ index' = [f \in Files |-> IF f \in F THEN g[f] ELSE index[f]]
       /\ UNCHANGED staged
  ELSE /\ staged' = [f \in Files |-> IF f \in F THEN g[f] ELSE staged[f]]
       /\ UNCHANGED index

\* getDocumentAnalysis() of the documents in F, whose text is text[f]: a document the
\* cache has an analysis of with the same fingerprint is not upserted.
Analyse(F, text) ==
  LET missed == {f \in F : analysed[f] # text[f]}
  IN /\ Upsert(missed, text)
     /\ analysed' = [f \in Files |-> IF f \in missed THEN text[f] ELSE analysed[f]]
     /\ overwritten' = overwritten \ missed

-----------------------------------------------------------------------------
(* The disk and the editor.                                                *)

\* A program, or the editor on behalf of one, writes a file that is not open.
Write(f) ==
  /\ clock < MaxContent /\ ~IsOpen(f)
  /\ clock' = clock + 1
  /\ disk' = [disk EXCEPT ![f] = clock + 1]
  /\ Push(f, IF disk[f] = 0 THEN "create" ELSE "change")
  /\ touched' = touched \cup {f}
  /\ UNCHANGED <<buffer, saved, startup, files, captured, index, staged, analysed,
                 failed, slotHeld, intakes, opened, contended, overwritten>>

Delete(f) ==
  /\ clock < MaxContent /\ disk[f] # 0
  /\ clock' = clock + 1
  /\ disk' = [disk EXCEPT ![f] = 0]
  /\ Push(f, "delete")
  /\ touched' = touched \cup {f}
  /\ UNCHANGED <<buffer, saved, startup, files, captured, index, staged, analysed,
                 failed, slotHeld, intakes, opened, contended, overwritten>>

\* onDidOpen and onDidChangeContent, which analyses the document.
Open(f) ==
  /\ ~IsOpen(f) /\ disk[f] # 0
  /\ buffer' = [buffer EXCEPT ![f] = disk[f]]
  /\ Analyse({f}, buffer')
  /\ opened' = opened \cup {f}
  /\ UNCHANGED <<debouncerVars, disk, clock, saved, startup, files, captured, failed,
                 slotHeld, intakes, touched, contended>>

\* onDidChangeContent
Edit(f) ==
  /\ IsOpen(f) /\ clock < MaxContent
  /\ clock' = clock + 1
  /\ buffer' = [buffer EXCEPT ![f] = clock + 1]
  /\ Analyse({f}, buffer')
  /\ UNCHANGED <<debouncerVars, disk, saved, startup, files, captured, failed,
                 slotHeld, intakes, opened, touched, contended>>

\* The editor saves; the server hears of it as of any other write.
Save(f) ==
  /\ IsOpen(f) /\ disk[f] # buffer[f]
  /\ disk' = [disk EXCEPT ![f] = buffer[f]]
  /\ Push(f, IF disk[f] = 0 THEN "create" ELSE "change")
  /\ touched' = touched \cup {f}
  /\ UNCHANGED <<clock, buffer, saved, startup, files, captured, index, staged,
                 analysed, failed, slotHeld, intakes, opened, contended, overwritten>>

\* Mutant: the analysis of a closed document is kept.
KeepAnalysis(f) == analysed

\* evictDocumentAnalysis()
Evict(f) == [analysed EXCEPT ![f] = 0]

\* onDidClose: the facts stay in the index.
Close(f) ==
  /\ IsOpen(f)
  /\ buffer' = [buffer EXCEPT ![f] = 0]
  /\ analysed' = Evict(f)
  /\ overwritten' = overwritten \ {f}
  /\ UNCHANGED <<debouncerVars, disk, clock, saved, startup, files, captured, index,
                 staged, failed, slotHeld, intakes, opened, touched, contended>>

\* A feature asks for the analysis of an open document.
Query(f) ==
  /\ IsOpen(f) /\ analysed[f] # buffer[f]
  /\ Analyse({f}, buffer)
  /\ UNCHANGED <<debouncerVars, disk, clock, buffer, saved, startup, files, captured,
                 failed, slotHeld, intakes, opened, touched, contended>>

-----------------------------------------------------------------------------
(* The startup task.                                                       *)

HasRecords == \E f \in Files : saved[f] # 0

\* The index and the document cache become g, without the analysis cache.
Replace(g) ==
  /\ index' = g
  /\ overwritten' = overwritten \cup Differing(Files, g)

StartupRest == <<debouncerVars, disk, clock, buffer, saved, analysed, slotHeld,
                 intakes, opened, touched, contended>>

\* load() before the discovery: restoreDocumentRecords() when the checkpoint may be
\* reused and holds documents.
EarlyRestore ==
  /\ startup = "starting"
  /\ \/ /\ HasRecords
        /\ startup' = "restored" /\ Replace(saved)
     \/ /\ startup' = "empty" /\ UNCHANGED <<index, overwritten>>
  /\ UNCHANGED <<StartupRest, files, captured, staged, failed>>

\* The end of discoverWorkspace(), replaceFrom(), and load() with the metadata it
\* found, as far as persistCheckpoint(): the records are kept, restored now, or
\* thrown away with everything the editor had added.
Discover ==
  /\ startup \in {"restored", "empty"}
  /\ files' = {f \in Files : disk[f] # 0}
  /\ captured' = [f \in Files |-> IF f \in files' THEN Unread ELSE 0]
  /\ failed' = {}
  /\ startup' = IF files' = {} THEN "done" ELSE "reading"
  /\ \/ UNCHANGED <<index, overwritten>>
     \/ startup = "restored" /\ Replace([f \in Files |-> 0])
     \/ startup = "empty" /\ HasRecords /\ Replace(saved)
  /\ UNCHANGED <<StartupRest, staged>>

\* Mutant: a file counts as unchanged when the document cache has an entry of it.
HasEntry(f) == index[f] # 0

\* cache.isValid() for what is read, and the facts are published: nothing to do.
IsUnchanged(f) == index[f] = disk[f]

\* The structural loop reads a file; a file that is gone, or cannot be read, fails.
PassReads(f) ==
  /\ startup = "reading" /\ captured[f] = Unread
  /\ \/ /\ disk[f] # 0
        /\ captured' = [captured EXCEPT ![f] = IF IsUnchanged(f) THEN 0 ELSE disk[f]]
        /\ UNCHANGED failed
     \/ /\ captured' = [captured EXCEPT ![f] = 0]
        /\ failed' = failed \cup {f}
  /\ UNCHANGED <<StartupRest, startup, files, index, staged, overwritten>>

Read == {f \in Files : captured[f] # 0}

\* The structural snapshots are published at once, and the batch of the enriched
\* loop begins.
PublishStructural ==
  /\ startup = "reading" /\ Unread \notin Range(captured)
  /\ startup' = "enriched"
  /\ index' = [f \in Files |-> IF f \in Read THEN captured[f] ELSE index[f]]
  /\ staged' = IF Read = {} THEN NoBatch ELSE [f \in Files |-> Untouched]
  /\ overwritten' = overwritten \cup Differing(Read, captured)
  /\ UNCHANGED <<StartupRest, files, captured, failed>>

\* The enriched loop publishes the analysis of a file into the batch, or fails.
PublishEnriched(f) ==
  /\ startup = "enriched" /\ f \in Read
  /\ captured' = [captured EXCEPT ![f] = 0]
  /\ \/ /\ Upsert({f}, captured)
        /\ overwritten' = overwritten \cup Differing({f}, captured)
        /\ UNCHANGED failed
     \/ /\ failed' = failed \cup {f}
        /\ UNCHANGED <<index, staged, overwritten>>
  /\ UNCHANGED <<StartupRest, startup, files>>

Committed ==
  IF staged = NoBatch THEN index
  ELSE [f \in Files |-> IF staged[f] = Untouched THEN index[f] ELSE staged[f]]

\* The batch is committed, and the diagnostics of all open documents are computed.
EndPass ==
  /\ startup = "enriched" /\ Read = {}
  /\ startup' = "done"
  /\ staged' = NoBatch
  /\ LET missed == {f \in Files : IsOpen(f) /\ analysed[f] # buffer[f]}
     IN /\ index' = [f \in Files |-> IF f \in missed THEN buffer[f] ELSE Committed[f]]
        /\ analysed' = [f \in Files |-> IF f \in missed THEN buffer[f] ELSE analysed[f]]
        /\ overwritten' = overwritten \ missed
  /\ UNCHANGED <<debouncerVars, disk, clock, buffer, saved, files, captured, failed,
                 slotHeld, intakes, opened, touched, contended>>

-----------------------------------------------------------------------------
(* The intakes.                                                            *)

UrisOf(events) == {events[i].uri : i \in DOMAIN events}

IntakeRest == <<pending, timer, leaked, disk, clock, buffer, saved, startup, captured,
                staged, opened, touched>>

\* The drain of the scheduler starts the next intake when the slot is free.
StartIntake ==
  /\ startup = "done" /\ ~slotHeld /\ batches # <<>> /\ Len(intakes) < MaxIntakes
  /\ slotHeld' = TRUE
  /\ intakes' = Append(intakes, [events |-> Head(batches), content |-> Unread,
                                 refresh |-> {}])
  /\ batches' = Tail(batches)
  /\ contended' = contended \cup
       {f \in UrisOf(Head(batches)) : \E i \in DOMAIN intakes : f \in UrisOf(intakes[i].events)}
  /\ UNCHANGED <<IntakeRest, files, index, analysed, failed, overwritten>>

\* A request of the user takes the slot from the intake that has it.
Preempt ==
  /\ slotHeld /\ slotHeld' = FALSE
  /\ UNCHANGED <<IntakeRest, batches, files, index, analysed, failed, intakes,
                 contended, overwritten>>

Next1(i) == Head(intakes[i].events)
At(i, kinds) == i \in DOMAIN intakes /\ intakes[i].events # <<>> /\ Next1(i).kind \in kinds

\* The intake is through with its next event; the diagnostics of F are to be
\* refreshed.
Advance(i, F) ==
  intakes' = [intakes EXCEPT ![i] = [events |-> Tail(@.events), content |-> Unread,
                                     refresh |-> @.refresh \cup F]]

\* A deletion: invalidateDocumentAnalysis(), removeDocument().
IntakeRemoves(i) ==
  /\ At(i, {"delete"})
  /\ LET f == Next1(i).uri
     IN /\ index' = [index EXCEPT ![f] = 0]
        /\ analysed' = [analysed EXCEPT ![f] = 0]
        /\ overwritten' = IF IsOpen(f) THEN overwritten \cup {f} ELSE overwritten
        /\ files' = files \ {f}
        /\ failed' = failed \ {f}
        /\ Advance(i, IF f \in files THEN Files ELSE {f})
  /\ UNCHANGED <<IntakeRest, batches, slotHeld, contended>>

\* A creation or a change: an open document is skipped; otherwise the file is read,
\* which may fail.  Then the intake awaits the content.
IntakeReads(i) ==
  /\ At(i, {"create", "change"}) /\ intakes[i].content = Unread
  /\ LET f == Next1(i).uri
         refresh == IF f \in files THEN {} ELSE Files
     IN /\ files' = files \cup {f}
        /\ \/ /\ IsOpen(f)
              /\ Advance(i, refresh)
              /\ failed' = failed \ {f}
           \/ /\ ~IsOpen(f) /\ disk[f] # 0
              /\ intakes' = [intakes EXCEPT ![i] = [events |-> @.events, content |-> disk[f],
                                                    refresh |-> @.refresh \cup refresh]]
              /\ failed' = failed \ {f}
           \/ /\ ~IsOpen(f)
              /\ Advance(i, refresh)
              /\ failed' = failed \cup {f}
  /\ UNCHANGED <<IntakeRest, batches, index, analysed, slotHeld, contended, overwritten>>

\* The content has arrived and is published.
IntakePublishes(i) ==
  /\ i \in DOMAIN intakes /\ intakes[i].content # Unread
  /\ LET f == Next1(i).uri
         content == intakes[i].content
     IN /\ index' = [index EXCEPT ![f] = content]
        /\ overwritten' = overwritten \cup Differing({f}, [g \in {f} |-> content])
        /\ failed' = failed \ {f}
        /\ Advance(i, {f})
  /\ UNCHANGED <<IntakeRest, batches, files, analysed, slotHeld, contended>>

\* The end: the diagnostics of the open documents to be refreshed are computed, and
\* the slot is given back by the intake that has it.
EndIntake(i) ==
  /\ i \in DOMAIN intakes /\ intakes[i].events = <<>>
  /\ Analyse({f \in intakes[i].refresh : IsOpen(f)}, buffer)
  /\ intakes' = RemoveAt(intakes, i)
  /\ slotHeld' = (slotHeld /\ i # Len(intakes))
  /\ UNCHANGED <<pending, timer, leaked, batches, disk, clock, buffer, saved, startup,
                 files, captured, failed, opened, touched, contended>>

-----------------------------------------------------------------------------

\* onShutdown: the watcher is disposed of and the tasks that wait are cancelled; the
\* client sends nothing any more.  An intake that runs goes on, the indexing pass
\* gives up.
Shutdown ==
  /\ startup # "down" /\ startup' = "down"
  /\ Dispose /\ batches' = <<>>
  /\ UNCHANGED <<disk, clock, buffer, saved, files, captured, index, staged, analysed,
                 failed, slotHeld, intakes, opened, touched, contended, overwritten>>

Init ==
  /\ DebouncerInit
  /\ disk \in [Files -> {0, Old, FirstNew}]
  /\ saved \in [Files -> {0, Old}]
  /\ clock = FirstNew
  /\ buffer = [f \in Files |-> 0] /\ index = buffer /\ analysed = buffer
  /\ captured = buffer
  /\ startup = "starting" /\ staged = NoBatch
  /\ slotHeld = FALSE /\ intakes = <<>>
  /\ files = {} /\ failed = {}
  /\ opened = {} /\ touched = {} /\ contended = {} /\ overwritten = {}

Unmoved == <<disk, clock, buffer, saved, startup, files, captured, index, staged,
             analysed, failed, slotHeld, intakes, opened, touched, contended, overwritten>>

Timers == (TimerFires \/ LeakedTimerFires) /\ UNCHANGED Unmoved

Startup ==
  \/ EarlyRestore \/ Discover \/ PublishStructural \/ EndPass
  \/ \E f \in Files : PassReads(f) \/ PublishEnriched(f)

Intake(i) == IntakeRemoves(i) \/ IntakeReads(i) \/ IntakePublishes(i) \/ EndIntake(i)

Next ==
  \/ /\ startup # "down"
     /\ \/ \E f \in Files : Write(f) \/ Delete(f)
        \/ \E f \in Edited : Open(f) \/ Edit(f) \/ Save(f) \/ Close(f) \/ Query(f)
  \/ Timers
  \/ Startup
  \/ StartIntake \/ Preempt
  \/ Shutdown
  \/ \E i \in 1 .. MaxIntakes : Intake(i)

Spec == Init /\ [][Next]_vars

\* Timers fire, the startup task and the intakes go on to their end, and the
\* scheduler starts what waits when the slot is free.
Fairness ==
  /\ WF_vars(TimerFires /\ UNCHANGED Unmoved)
  /\ WF_vars(LeakedTimerFires /\ UNCHANGED Unmoved)
  /\ WF_vars(Startup)
  /\ WF_vars(StartIntake)
  /\ WF_vars(\E i \in 1 .. MaxIntakes : Intake(i))

FairSpec == Spec /\ Fairness
=============================================================================
