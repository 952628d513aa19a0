-------------------------- MODULE DiagnosticProofs --------------------------
(***************************************************************************)
(* Proofs about the scheduling of diagnostics, for any documents, writers  *)
(* and bounds: its timers are those it can clear, and what was closed      *)
(* stays without diagnostics.                                              *)
(***************************************************************************)
EXTENDS DiagnosticProperties, TLAPS

\* The timers a map of generations stands for.
Armed(map) == {<<d, map[d]>> : d \in {e \in Docs : map[e] # NoTimer}}

\* A timer of the map carries the generation its document has now, and the document
\* is open: what makes NoOrphanTimers inductive.
TimersAreLive ==
  \A d \in Docs : scheduledByUri[d] # NoTimer =>
    scheduledByUri[d] = guard[d] /\ guard[d] > 0 /\ d \in open /\ ~down

Types ==
  /\ open \subseteq Docs
  /\ text \in [Docs -> Nat] /\ basis \in [Docs -> Nat] /\ due \in [Docs -> Nat]
  /\ scheduledByUri \in [Docs -> Nat \cup {NoTimer}]
  /\ guard \in [Docs -> Nat]
  /\ shown \in [Docs -> Report \cup {Nothing}]
  /\ owed \in [Writers -> SUBSET Docs]
  /\ first \in BOOLEAN /\ down \in BOOLEAN
  /\ edits \in 0 .. MaxEdits /\ changes \in 0 .. MaxChanges

IInv ==
  /\ Types
  /\ timers = Armed(scheduledByUri)
  /\ TimersAreLive
  /\ ClosedDocumentsShowNothing

\* The invariant gives the three invariants of the run.
LEMMA IInvImplies ==
  ASSUME IInv PROVE TypeOK /\ NoOrphanTimers /\ ClosedDocumentsShowNothing
  <1>1. timers = {<<d, scheduledByUri[d]>> : d \in {e \in Docs : scheduledByUri[e] # NoTimer}}
    BY DEF IInv, Armed
  <1>2. ASSUME NEW t \in timers
        PROVE  /\ t \in Docs \X Nat /\ t[1] \in open /\ t[2] = guard[t[1]]
               /\ t[2] \in 1 .. guard[t[1]] /\ ~down
    <2>1. PICK d \in Docs : scheduledByUri[d] # NoTimer /\ t = <<d, scheduledByUri[d]>>
      BY <1>1
    <2>2. t[1] = d /\ t[2] = guard[d] /\ guard[d] > 0 /\ d \in open /\ ~down
      BY <2>1 DEF IInv, TimersAreLive
    <2>3. guard[d] \in Nat
      BY DEF IInv, Types
    <2> QED BY <2>1, <2>2, <2>3
  <1>3. timers \subseteq {t \in Docs \X Nat : t[2] \in 1 .. guard[t[1]]}
    BY <1>2
  <1>4. TypeOK
    BY <1>3 DEF IInv, Types, TypeOK
  <1>5. NoOrphanTimers
    BY <1>1, <1>2 DEF NoOrphanTimers
  <1> QED BY <1>4, <1>5 DEF IInv

-----------------------------------------------------------------------------
(* What the operations on timers do to the map and the set.                *)

\* clearTimeout() of the timers of some documents leaves those of the map without them.
LEMMA ClearedTimers ==
  ASSUME timers = Armed(scheduledByUri), NEW D
  PROVE  TimersWithout(D) =
           Armed([d \in Docs |-> IF d \in D THEN NoTimer ELSE scheduledByUri[d]])
  <1> DEFINE map == [d \in Docs |-> IF d \in D THEN NoTimer ELSE scheduledByUri[d]]
  <1>1. ASSUME NEW t \in TimersWithout(D) PROVE t \in Armed(map)
    <2>1. PICK d \in Docs : scheduledByUri[d] # NoTimer /\ t = <<d, scheduledByUri[d]>>
      BY <1>1 DEF TimersWithout, Armed
    <2>2. d \notin D
      BY <1>1, <2>1 DEF TimersWithout
    <2>3. map[d] = scheduledByUri[d]
      BY <2>2
    <2> QED BY <2>1, <2>3 DEF Armed
  <1>2. ASSUME NEW t \in Armed(map) PROVE t \in TimersWithout(D)
    <2>1. PICK d \in Docs : map[d] # NoTimer /\ t = <<d, map[d]>>
      BY <1>2 DEF Armed
    <2>2. d \notin D /\ map[d] = scheduledByUri[d]
      BY <2>1
    <2>3. t \in timers /\ t[1] = d
      BY <2>1, <2>2 DEF Armed
    <2> QED BY <2>2, <2>3 DEF TimersWithout
  <1> QED BY <1>1, <1>2

\* Arming a timer of a document that was cleared.
LEMMA ArmedTimers ==
  ASSUME timers = Armed(scheduledByUri), NEW d \in Docs, NEW n \in Nat,
         scheduledByUri \in [Docs -> Nat \cup {NoTimer}]
  PROVE  TimersWithout({d}) \cup {<<d, n>>} = Armed([scheduledByUri EXCEPT ![d] = n])
  <1> DEFINE cleared == [e \in Docs |-> IF e \in {d} THEN NoTimer ELSE scheduledByUri[e]]
             map == [scheduledByUri EXCEPT ![d] = n]
  <1>1. TimersWithout({d}) = Armed(cleared)
    BY ClearedTimers
  <1>2. n # NoTimer /\ map[d] = n
    BY DiagnosticAssumption
  <1>3. \A e \in Docs : e # d => map[e] = cleared[e]
    OBVIOUS
  <1>4. cleared[d] = NoTimer
    OBVIOUS
  <1> HIDE DEF cleared, map
  <1>5. ASSUME NEW t \in Armed(cleared) PROVE t \in Armed(map)
    <2>1. PICK e \in Docs : cleared[e] # NoTimer /\ t = <<e, cleared[e]>>
      BY <1>5 DEF Armed
    <2> QED BY <2>1, <1>3, <1>4 DEF Armed
  <1>6. <<d, n>> \in Armed(map)
    BY <1>2 DEF Armed
  <1>7. ASSUME NEW t \in Armed(map) PROVE t \in Armed(cleared) \cup {<<d, n>>}
    <2>1. PICK e \in Docs : map[e] # NoTimer /\ t = <<e, map[e]>>
      BY <1>7 DEF Armed
    <2>2. CASE e = d
      BY <2>1, <2>2, <1>2
    <2>3. CASE e # d
      BY <2>1, <2>3, <1>3 DEF Armed
    <2> QED BY <2>2, <2>3
  <1> QED BY <1>1, <1>5, <1>6, <1>7 DEF map

\* A timer that fires leaves the set and the map.
LEMMA FiredTimers ==
  ASSUME timers = Armed(scheduledByUri), NEW d, NEW n, <<d, n>> \in timers,
         scheduledByUri \in [Docs -> Nat \cup {NoTimer}]
  PROVE  /\ d \in Docs /\ n = scheduledByUri[d] /\ n # NoTimer
         /\ timers \ {<<d, n>>} = Armed([scheduledByUri EXCEPT ![d] = NoTimer])
  <1> DEFINE map == [scheduledByUri EXCEPT ![d] = NoTimer]
  <1>1. PICK e \in Docs : scheduledByUri[e] # NoTimer /\ <<d, n>> = <<e, scheduledByUri[e]>>
    BY DEF Armed
  <1>2. d \in Docs /\ n = scheduledByUri[d] /\ n # NoTimer
    BY <1>1
  <1>3. map[d] = NoTimer /\ \A f \in Docs : f # d => map[f] = scheduledByUri[f]
    BY <1>2
  <1> HIDE DEF map
  <1>4. ASSUME NEW t \in timers, t # <<d, n>> PROVE t \in Armed(map)
    <2>1. PICK f \in Docs : scheduledByUri[f] # NoTimer /\ t = <<f, scheduledByUri[f]>>
      BY <1>4 DEF Armed
    <2>2. f # d
      BY <2>1, <1>2, <1>4
    <2> QED BY <2>1, <2>2, <1>3 DEF Armed
  <1>5. ASSUME NEW t \in Armed(map) PROVE t \in timers /\ t # <<d, n>>
    <2>1. PICK f \in Docs : map[f] # NoTimer /\ t = <<f, map[f]>>
      BY <1>5 DEF Armed
    <2>2. f # d
      BY <2>1, <1>3
    <2>3. t = <<f, scheduledByUri[f]>> /\ scheduledByUri[f] # NoTimer
      BY <2>1, <2>2, <1>3
    <2> QED BY <2>2, <2>3 DEF Armed
  <1> QED BY <1>2, <1>4, <1>5 DEF map

-----------------------------------------------------------------------------
(* Every step preserves the invariant.                                     *)

LEMMA InitEstablishes == Init => IInv
  <1> SUFFICES ASSUME Init PROVE IInv
    OBVIOUS
  <1>1. Types
    <2>1. /\ text \in [Docs -> Nat] /\ basis \in [Docs -> Nat] /\ due \in [Docs -> Nat]
          /\ scheduledByUri \in [Docs -> Nat \cup {NoTimer}]
          /\ guard \in [Docs -> Nat]
          /\ edits \in 0 .. MaxEdits /\ changes \in 0 .. MaxChanges
      BY DiagnosticAssumption DEF Init
    <2>2. shown \in [Docs -> Report \cup {Nothing}] /\ owed \in [Writers -> SUBSET Docs]
      BY Zenon DEF Init
    <2>3. open \subseteq Docs /\ first \in BOOLEAN /\ down \in BOOLEAN
      BY DEF Init
    <2> QED BY <2>1, <2>2, <2>3 DEF Types
  <1>2. timers = Armed(scheduledByUri)
    BY DEF Init, Armed
  <1> QED BY <1>1, <1>2 DEF Init, IInv, TimersAreLive, ClosedDocumentsShowNothing

LEMMA ScheduleSteps ==
  ASSUME IInv, NEW d \in Docs, NEW k \in Nat, Schedule(d, k), ~down,
         open' = open \cup {d}, text' \in [Docs -> Nat], basis' \in [Docs -> Nat],
         edits < MaxEdits, edits' = edits + 1,
         UNCHANGED <<owed, due, changes, down>>, first' \in BOOLEAN
  PROVE  IInv'
  <1> DEFINE n == guard[d] + k + 2
  <1> USE DEF IInv
  <1>1. guard \in [Docs -> Nat] /\ n \in Nat /\ n > 0
    BY DEF Types
  <1>2. /\ guard' = [guard EXCEPT ![d] = n]
        /\ timers' = TimersWithout({d}) \cup {<<d, n>>}
        /\ scheduledByUri' = [scheduledByUri EXCEPT ![d] = n]
        /\ shown' = [shown EXCEPT ![d] = Syntactic(d)]
    BY DEF Schedule, GenerationOf
  <1> HIDE DEF n
  <1>3. timers' = Armed(scheduledByUri')
    BY <1>1, <1>2, ArmedTimers DEF Types
  <1>4. Syntactic(d) \in Report
    BY DEF Syntactic, Report
  <1>5. Types'
    BY <1>1, <1>2, <1>4, DiagnosticAssumption DEF Types
  <1>6. TimersAreLive'
    BY <1>1, <1>2 DEF TimersAreLive, Types
  <1>7. ClosedDocumentsShowNothing'
    BY <1>2 DEF ClosedDocumentsShowNothing, Types
  <1>8. Armed(scheduledByUri)' = Armed(scheduledByUri')
    BY DEF Armed
  <1> QED BY <1>3, <1>5, <1>6, <1>7, <1>8

LEMMA OpenSteps == ASSUME IInv, NEW d \in Docs, Open(d) PROVE IInv'
  BY ScheduleSteps DEF Open, IInv, Types

LEMMA ChangeSteps ==
  ASSUME IInv, NEW d \in Docs, NEW D \in SUBSET Docs, Change(d, D) PROVE IInv'
  <1>1. basis' \in [Docs -> Nat] /\ text' \in [Docs -> Nat]
    BY DEF Change, Rebase, IInv, Types
  <1>2. open' = open \cup {d}
    BY DEF Change
  <1> QED BY <1>1, <1>2, ScheduleSteps DEF Change, IInv, Types

\* cancelScheduledDiagnostics() of documents, whatever is then shown of those open.
LEMMA CancelSteps ==
  ASSUME IInv, NEW D, Cancel(D), open' \subseteq open,
         open \ open' \subseteq D,
         shown' \in [Docs -> Report \cup {Nothing}],
         \A d \in Docs \ open' : shown'[d] = Nothing,
         owed' \in [Writers -> SUBSET Docs],
         UNCHANGED <<text, basis, due, first, edits, changes, down>>
  PROVE  IInv'
  <1> USE DEF IInv
  <1>1. timers' = Armed(scheduledByUri')
    BY ClearedTimers DEF Cancel
  <1>2. Types'
    BY DEF Cancel, Types
  <1>3. TimersAreLive'
    BY DEF Cancel, TimersAreLive, Types
  <1>4. ClosedDocumentsShowNothing'
    BY DEF ClosedDocumentsShowNothing
  <1>5. Armed(scheduledByUri)' = Armed(scheduledByUri')
    BY DEF Armed
  <1> QED BY <1>1, <1>2, <1>3, <1>4, <1>5

LEMMA CloseSteps == ASSUME IInv, NEW d \in Docs, Close(d) PROVE IInv'
  <1>1. /\ open' = open \ {d} /\ Cancel({d}) /\ shown' = [shown EXCEPT ![d] = Nothing]
        /\ UNCHANGED <<text, basis, owed, due, first, edits, changes, down>>
    BY DEF Close
  <1>2. shown' \in [Docs -> Report \cup {Nothing}] /\ owed' \in [Writers -> SUBSET Docs]
    BY <1>1 DEF IInv, Types
  <1>3. \A e \in Docs \ open' : shown'[e] = Nothing
    BY <1>1 DEF IInv, Types, ClosedDocumentsShowNothing
  <1> QED BY <1>1, <1>2, <1>3, CancelSteps

LEMMA RefreshSteps == ASSUME IInv, NEW w \in Writers, Refresh(w) PROVE IInv'
  <1> DEFINE D == Refreshed(w)
  <1>1. /\ Cancel(D) /\ shown' = [d \in Docs |-> IF d \in D THEN Full(d) ELSE shown[d]]
        /\ owed' = [owed EXCEPT ![w] = {}]
        /\ UNCHANGED <<open, text, basis, due, first, edits, changes, down>>
    BY DEF Refresh, PublishNow
  <1>2. D \subseteq open
    BY DEF Refreshed
  <1> HIDE DEF D
  <1>3. \A d \in Docs : Full(d) \in Report
    BY <1>1 DEF Full, Report, IInv, Types
  <1>4. shown' \in [Docs -> Report \cup {Nothing}] /\ owed' \in [Writers -> SUBSET Docs]
    BY <1>1, <1>3 DEF IInv, Types
  <1>5. \A d \in Docs \ open' : shown'[d] = Nothing
    BY <1>1, <1>2 DEF IInv, ClosedDocumentsShowNothing
  <1> QED BY <1>1, <1>4, <1>5, CancelSteps

LEMMA TimerSteps == ASSUME IInv, NEW d, NEW n, TimerFires(d, n) PROVE IInv'
  <1> USE DEF IInv
  <1>1. /\ <<d, n>> \in timers
        /\ timers' = timers \ {<<d, n>>}
        /\ scheduledByUri' = [scheduledByUri EXCEPT ![d] = NoTimer]
        /\ text' = text
        /\ shown' = shown \/ shown' = [shown EXCEPT ![d] = Full(d)]
        /\ UNCHANGED <<open, basis, guard, owed, due, first, edits, changes, down>>
    BY DEF TimerFires
  <1>2. /\ d \in Docs /\ scheduledByUri[d] # NoTimer
        /\ timers' = Armed(scheduledByUri')
    BY <1>1, FiredTimers DEF Types
  <1>3. d \in open
    BY <1>2 DEF TimersAreLive
  <1>4. Full(d) \in Report
    BY <1>1, <1>2 DEF Full, Report, Types
  <1>5. Types'
    BY <1>1, <1>2, <1>4 DEF Types
  <1>6. TimersAreLive'
    BY <1>1, <1>2 DEF TimersAreLive, Types
  <1>7. ClosedDocumentsShowNothing'
    BY <1>1, <1>2, <1>3 DEF ClosedDocumentsShowNothing, Types
  <1>8. Armed(scheduledByUri)' = Armed(scheduledByUri')
    BY DEF Armed
  <1> QED BY <1>2, <1>5, <1>6, <1>7, <1>8

\* A writer changes what the index says, and may empty what is shown of a document.
LEMMA WriterSteps ==
  ASSUME IInv, NEW w \in Writers, NEW D \in SUBSET Docs, NEW all \in BOOLEAN,
         IndexChanges(w, D, all),
         shown' \in [Docs -> Report \cup {Nothing}],
         \A d \in Docs : shown'[d] \in {shown[d], Nothing},
         UNCHANGED <<open, text, timers, scheduledByUri, guard, first, edits, down>>
  PROVE  IInv'
  <1> USE DEF IInv
  <1>1. basis' \in [Docs -> Nat] /\ due' \in [Docs -> Nat]
    BY DEF IndexChanges, Rebase, Types
  <1>2. owed' \in [Writers -> SUBSET Docs] /\ changes' \in 0 .. MaxChanges
    BY DiagnosticAssumption DEF IndexChanges, Types
  <1>3. Types'
    BY <1>1, <1>2 DEF Types
  <1>4. TimersAreLive' /\ ClosedDocumentsShowNothing'
    BY DEF TimersAreLive, ClosedDocumentsShowNothing
  <1>5. timers' = Armed(scheduledByUri)'
    BY DEF Armed
  <1> QED BY <1>3, <1>4, <1>5

LEMMA WrittenSteps ==
  ASSUME IInv, NEW w \in Writers, NEW D \in SUBSET Docs, NEW all \in BOOLEAN,
         Written(w, D, all)
  PROVE  IInv'
  BY WriterSteps DEF Written, IInv, Types

LEMMA DeletedSteps ==
  ASSUME IInv, NEW w \in Writers, NEW d \in Docs, NEW D \in SUBSET Docs, Deleted(w, d, D)
  PROVE  IInv'
  <1>1. /\ IndexChanges(w, D \cup {d}, TRUE) /\ shown' = [shown EXCEPT ![d] = Nothing]
        /\ UNCHANGED <<open, text, timers, scheduledByUri, guard, first, edits, down>>
    BY DEF Deleted
  <1>2. /\ shown' \in [Docs -> Report \cup {Nothing}]
        /\ \A e \in Docs : shown'[e] \in {shown[e], Nothing}
    BY <1>1 DEF IInv, Types
  <1>3. D \cup {d} \in SUBSET Docs
    OBVIOUS
  <1> QED BY <1>1, <1>2, <1>3, WriterSteps

LEMMA ShutdownSteps == ASSUME IInv, Shutdown PROVE IInv'
  <1> USE DEF IInv
  <1>1. [d \in Docs |-> IF d \in Docs THEN NoTimer ELSE scheduledByUri[d]] =
        [d \in Docs |-> NoTimer]
    OBVIOUS
  <1>2. timers' = Armed(scheduledByUri')
    BY <1>1, ClearedTimers DEF Shutdown
  <1>3. Types' /\ TimersAreLive' /\ ClosedDocumentsShowNothing'
    BY DEF Shutdown, Types, TimersAreLive, ClosedDocumentsShowNothing
  <1>4. Armed(scheduledByUri)' = Armed(scheduledByUri')
    BY DEF Armed
  <1> QED BY <1>2, <1>3, <1>4

LEMMA StutterSteps == ASSUME IInv, UNCHANGED vars PROVE IInv'
  BY DEF IInv, vars, Types, Armed, TimersAreLive, ClosedDocumentsShowNothing

LEMMA NextPreserves == IInv /\ [Next]_vars => IInv'
  <1> SUFFICES ASSUME IInv, [Next]_vars PROVE IInv'
    OBVIOUS
  <1>1. ASSUME NEW d \in Docs, Open(d) \/ Close(d) PROVE IInv'
    BY <1>1, OpenSteps, CloseSteps
  <1>2. ASSUME NEW d \in Docs, NEW D \in SUBSET Docs, Change(d, D) PROVE IInv'
    BY <1>2, ChangeSteps
  <1>3. ASSUME NEW t \in timers, TimerFires(t[1], t[2]) PROVE IInv'
    BY <1>3, TimerSteps
  <1>4. ASSUME NEW w \in Writers, NEW D \in SUBSET Docs, NEW all \in BOOLEAN,
               Written(w, D, all)
        PROVE  IInv'
    BY <1>4, WrittenSteps
  <1>5. ASSUME NEW w \in Writers, NEW d \in Docs, NEW D \in SUBSET Docs, Deleted(w, d, D)
        PROVE  IInv'
    BY <1>5, DeletedSteps
  <1>6. ASSUME NEW w \in Writers, Refresh(w) PROVE IInv'
    BY <1>6, RefreshSteps
  <1>7. CASE Shutdown
    BY <1>7, ShutdownSteps
  <1>8. CASE UNCHANGED vars
    BY <1>8, StutterSteps
  <1> QED BY <1>1, <1>2, <1>3, <1>4, <1>5, <1>6, <1>7, <1>8 DEF Next

LEMMA Invariance == Spec => []IInv
  BY InitEstablishes, NextPreserves, PTL DEF Spec

\* The variables always have their types.
THEOREM DiagnosticsTyped == Spec => []TypeOK
  BY Invariance, IInvImplies, PTL

\* The armed timers are always those the scheduler can clear: cancelScheduledDiagnostics()
\* before every scheduleDiagnostics(), at the closing of a document and at the shutdown
\* leaves none behind, for any number of documents, edits and changes.
THEOREM TimersAreNeverOrphaned == Spec => []NoOrphanTimers
  BY Invariance, IInvImplies, PTL

\* No timer and no writer brings the diagnostics of a closed document back.
THEOREM ClosedStaysEmpty == Spec => []ClosedDocumentsShowNothing
  BY Invariance, IInvImplies, PTL
=============================================================================
