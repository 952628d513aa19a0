------------------------ MODULE DiagnosticProperties ------------------------
(***************************************************************************)
(* What the scheduling of diagnostics promises.                            *)
(***************************************************************************)
EXTENDS DiagnosticScheduler

Report == [tier : {"full", "syntactic"}, text : Nat, basis : Nat]

\* The variables hold the values the code can give them; a timer holds a generation
\* that its document has handed out.
TypeOK ==
  /\ open \subseteq Docs
  /\ text \in [Docs -> Nat] /\ basis \in [Docs -> Nat] /\ due \in [Docs -> Nat]
  /\ timers \subseteq {t \in Docs \X Nat : t[2] \in 1 .. guard[t[1]]}
  /\ scheduledByUri \in [Docs -> Nat \cup {NoTimer}]
  /\ guard \in [Docs -> Nat]
  /\ shown \in [Docs -> Report \cup {Nothing}]
  /\ owed \in [Writers -> SUBSET Docs]
  /\ first \in BOOLEAN /\ down \in BOOLEAN
  /\ edits \in 0 .. MaxEdits /\ changes \in 0 .. MaxChanges

\* No timer is orphaned (what docs/architecture-implementation-map.md asks of
\* cancelScheduledDiagnostics): the armed timers are those the map can still clear,
\* at most one for each document, none for a closed one or after the shutdown, and
\* none that would find its generation stale and publish nothing.
NoOrphanTimers ==
  /\ timers = {<<d, scheduledByUri[d]>> :
                  d \in {e \in Docs : scheduledByUri[e] # NoTimer}}
  /\ \A t \in timers : t[1] \in open /\ t[2] = guard[t[1]]
  /\ down => timers = {}

\* Neither a timer armed before nor a writer that finishes later brings the
\* diagnostics of a closed document back.
ClosedDocumentsShowNothing == \A d \in Docs \ open : shown[d] = Nothing

Current(d) ==
  /\ shown[d] # Nothing
  /\ shown[d].tier = "full" /\ shown[d].text = text[d] /\ shown[d].basis >= due[d]

\* Once the editor and the writers are quiet, every open document shows full
\* diagnostics of its text and of everything the watcher and the indexer wrote,
\* whatever syntactic reports, deletions and refreshes crossed on the way.
FullDiagnosticsArrive == <>[](down \/ \A d \in open : Current(d))
=============================================================================
