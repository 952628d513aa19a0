------------------------ MODULE DiagnosticScheduler ------------------------
(***************************************************************************)
(* When diagnostics are computed and sent:                                 *)
(* src/server/analysis/diagnosticScheduler.ts with the generations of      *)
(* src/server/runtime/generationGuard.ts, the handlers of                  *)
(* src/server/handlers/documentHandlers.ts that call it, and the           *)
(* publication for the open documents after the index has changed,         *)
(* src/server/analysis/openDocumentDiagnostics.ts.                         *)
(*                                                                         *)
(* Diagnostics are the tier they were computed with and the state of what  *)
(* they were computed from: the text of the document and its basis, what   *)
(* the index says of the documents it rests on.  An interactive task runs  *)
(* to its end within the call that submits it, so every handler and every  *)
(* timer is one action.                                                    *)
(*                                                                         *)
(* TextDocuments of the language server library (external) calls the       *)
(* change handler right after the open handler, and updates the object of  *)
(* an open document in place, so what a timer finds is the current text.   *)
(***************************************************************************)
EXTENDS Naturals, FiniteSets

CONSTANTS
  Docs,
  Writers,        \* who writes to the index in the background: watcher, indexer
  MaxEdits,       \* bound on how often the editor opens or changes a document
  MaxChanges,     \* bound on the changes of the index
  Nothing,        \* no diagnostics are shown
  NoTimer

ASSUME DiagnosticAssumption ==
  /\ MaxEdits \in Nat /\ MaxChanges \in Nat
  /\ NoTimer \notin Nat

VARIABLES
  open,           \* the documents the editor has open
  text,           \* the text of a document, counting its edits
  basis,          \* what the index says of what a document rests on, counting
  timers,         \* the armed timers: document and generation of the callback
  scheduledByUri, \* scheduledDiagnosticsByUri: the generation of its timer
  guard,          \* gen of the GenerationGuard of a document
  shown,          \* the diagnostics the editor shows of a document
  owed,           \* documents whose diagnostics a writer will refresh when it is done
  due,            \* the basis of a document after the last change of a writer
  first,          \* firstInvocation.isFirst("diagnostics")
  edits, changes, \* how many there were
  down            \* has the shutdown handler run?

vars == <<open, text, basis, timers, scheduledByUri, guard, shown, owed, due, first,
          edits, changes, down>>

\* publishDiagnostics()
Full(d) == [tier |-> "full", text |-> text'[d], basis |-> basis[d]]
Syntactic(d) == [tier |-> "syntactic", text |-> text'[d], basis |-> 0]

\* Mutant: the timer is forgotten, not cleared.
TimersLeft(D) == timers

\* The timers after clearTimeout() of those the map has for the documents in D.
TimersWithout(D) ==
  {t \in timers : ~(t[1] \in D /\ scheduledByUri[t[1]] = t[2])}

\* Mutant: nothing is cancelled.
CancelNothing(D) == UNCHANGED <<timers, scheduledByUri, guard>>

\* cancelScheduledDiagnostics() of the documents in D.
Cancel(D) ==
  /\ timers' = TimersWithout(D)
  /\ scheduledByUri' = [d \in Docs |-> IF d \in D THEN NoTimer ELSE scheduledByUri[d]]
  /\ guard' = [d \in Docs |-> IF d \in D THEN guard[d] + 1 ELSE guard[d]]

\* publishDiagnosticsNow() of the documents in D: cancels and publishes at once.
PublishNow(D) ==
  /\ Cancel(D)
  /\ shown' = [d \in Docs |-> IF d \in D THEN Full(d) ELSE shown[d]]

\* Mutant: the generation is read before cancelGeneration() increments it.
GenerationBefore(next) == next - 1

\* Mutant: a generation nobody has been given yet.
GenerationAfter(next) == next + 1

\* The generation the callback is armed with.
GenerationOf(next) == next

\* scheduleDiagnostics(): cancels, takes a generation of its own, publishes the
\* syntactic tier and arms a timer.  `cancels` is how often the document was cancelled
\* before within the same event.
Schedule(d, cancels) ==
  LET next == guard[d] + cancels + 2
      generation == GenerationOf(next)
  IN /\ guard' = [guard EXCEPT ![d] = next]
     /\ timers' = TimersWithout({d}) \cup {<<d, generation>>}
     /\ scheduledByUri' = [scheduledByUri EXCEPT ![d] = generation]
     /\ shown' = [shown EXCEPT ![d] = Syntactic(d)]

\* What the index says changes for the documents in D.
Rebase(D) == basis' = [d \in Docs |-> IF d \in D THEN basis[d] + 1 ELSE basis[d]]

-----------------------------------------------------------------------------

\* onDidOpen: publishDiagnosticsNow(), for the first document of all also
\* scheduleDiagnostics(); then onDidChangeContent, which schedules again.
Open(d) ==
  /\ ~down /\ d \notin open /\ edits < MaxEdits
  /\ open' = open \cup {d}
  /\ edits' = edits + 1
  /\ UNCHANGED text
  /\ Schedule(d, IF first THEN 3 ELSE 1)
  /\ first' = FALSE
  /\ UNCHANGED <<basis, owed, due, changes, down>>

\* onDidChangeContent: the new facts of d change the basis of the documents in D,
\* and only d itself is scheduled.
Change(d, D) ==
  /\ ~down /\ d \in open /\ edits < MaxEdits
  /\ text' = [text EXCEPT ![d] = @ + 1]
  /\ edits' = edits + 1
  /\ Rebase(D)
  /\ Schedule(d, 0)
  /\ UNCHANGED <<open, owed, due, first, changes, down>>

\* onDidClose: cancelScheduledDiagnostics() and an empty list.
Close(d) ==
  /\ ~down /\ d \in open
  /\ open' = open \ {d}
  /\ Cancel({d})
  /\ shown' = [shown EXCEPT ![d] = Nothing]
  /\ UNCHANGED <<text, basis, owed, due, first, edits, changes, down>>

\* GenerationGuard.isStale()
IsStale(d, generation) == generation < guard[d]

\* The callback of a timer: the map forgets the timer of the document, and the
\* interactive task publishes unless its generation is stale.
TimerFires(d, generation) ==
  /\ <<d, generation>> \in timers
  /\ timers' = timers \ {<<d, generation>>}
  /\ scheduledByUri' = [scheduledByUri EXCEPT ![d] = NoTimer]
  /\ UNCHANGED text
  /\ shown' = IF IsStale(d, generation) THEN shown
              ELSE [shown EXCEPT ![d] = Full(d)]
  /\ UNCHANGED <<open, basis, guard, owed, due, first, edits, changes, down>>

\* A writer changes the index, and with it the basis of the documents in D; it
\* will refresh those, or all when the routing of the workspace changed.
IndexChanges(w, D, all) ==
  /\ changes < MaxChanges
  /\ changes' = changes + 1
  /\ Rebase(D)
  /\ due' = [d \in Docs |-> IF d \in D THEN basis'[d] ELSE due[d]]
  /\ owed' = [owed EXCEPT ![w] = IF all THEN Docs ELSE @ \cup D]

\* The content of a file, or of a batch of files, reaches the index.
Written(w, D, all) ==
  /\ IndexChanges(w, D, all)
  /\ UNCHANGED <<open, text, timers, scheduledByUri, guard, shown, first, edits, down>>

\* The watcher takes the deletion of the file of d: clearDiagnostics() sends an
\* empty list even when d is open.
Deleted(w, d, D) ==
  /\ IndexChanges(w, D \cup {d}, TRUE)
  /\ shown' = [shown EXCEPT ![d] = Nothing]
  /\ UNCHANGED <<open, text, timers, scheduledByUri, guard, first, edits, down>>

\* republishOpenDiagnosticsForDocuments(): those that are open.
Refreshed(w) == owed[w] \cap open

\* A writer is done.
Refresh(w) ==
  /\ owed[w] # {}
  /\ UNCHANGED text
  /\ PublishNow(Refreshed(w))
  /\ owed' = [owed EXCEPT ![w] = {}]
  /\ UNCHANGED <<open, basis, due, first, edits, changes, down>>

\* The end of the shutdown handler: clearAllScheduledDiagnostics().  The writers go on.
Shutdown ==
  /\ ~down /\ down' = TRUE
  /\ timers' = TimersWithout(Docs)
  /\ scheduledByUri' = [d \in Docs |-> NoTimer]
  /\ UNCHANGED <<open, text, basis, guard, shown, owed, due, first, edits, changes>>

Init ==
  /\ open = {} /\ timers = {}
  /\ text = [d \in Docs |-> 0]
  /\ basis = [d \in Docs |-> 0] /\ due = [d \in Docs |-> 0]
  /\ scheduledByUri = [d \in Docs |-> NoTimer]
  /\ guard = [d \in Docs |-> 0]
  /\ shown = [d \in Docs |-> Nothing]
  /\ owed = [w \in Writers |-> {}]
  /\ first = TRUE /\ edits = 0 /\ changes = 0 /\ down = FALSE

Next ==
  \/ \E d \in Docs : Open(d) \/ Close(d)
  \/ \E d \in Docs, D \in SUBSET Docs : Change(d, D)
  \/ \E t \in timers : TimerFires(t[1], t[2])
  \/ \E w \in Writers, D \in SUBSET Docs, all \in BOOLEAN : Written(w, D, all)
  \/ \E w \in Writers, d \in Docs, D \in SUBSET Docs : Deleted(w, d, D)
  \/ \E w \in Writers : Refresh(w)
  \/ Shutdown

Spec == Init /\ [][Next]_vars

\* Timers fire, and a writer that changed the index comes to its end.
FairSpec ==
  /\ Spec
  /\ \A d \in Docs : WF_vars(\E t \in timers : t[1] = d /\ TimerFires(t[1], t[2]))
  /\ \A w \in Writers : WF_vars(Refresh(w))
=============================================================================
