----------------------- MODULE WorkspaceIndexingProofs -----------------------
(***************************************************************************)
(* Proofs about the whole of WorkspaceIndexing, for any files, any size of *)
(* the window, any number of leaked timers and of intakes that overlap:    *)
(* the window of watched events tells the disk; the index or its open      *)
(* batch has the text of open documents; and the index converges to the    *)
(* disk for the files the editor never opened.                             *)
(***************************************************************************)
EXTENDS WorkspaceIndexingProperties, QueueLemmas, TLAPS

\* The variables of the debouncer have their types and its two invariants hold.
WindowInv ==
  /\ pending \in Seq(Event) /\ Len(pending) <= MaxPending
  /\ timer \in {"null", "armed"} /\ leaked \in Nat
  /\ batches \in Seq(Seq(Event))
  /\ WindowHasTimer /\ WindowTellsTheDisk

\* The types of the world outside, and of what the startup task works on.
WorldTypes ==
  /\ disk \in [Files -> Contents] /\ buffer \in [Files -> Contents]
  /\ saved \in [Files -> Contents] /\ clock \in Contents
  /\ captured \in [Files -> Contents \cup {Unread}]
  /\ startup \in {"starting", "restored", "empty", "reading", "enriched", "done", "down"}
  /\ files \subseteq Files /\ failed \subseteq Files
  /\ startup = "enriched" => \A f \in Files : captured[f] # Unread

\* The types of the index and the analysis cache.
FactTypes ==
  /\ index \in [Files -> Contents] /\ analysed \in [Files -> Contents]
  /\ staged = NoBatch \/ staged \in [Files -> Contents \cup {Untouched}]

\* An intake that has read a file still has the event it read it for.
IntakeTypes ==
  /\ slotHeld \in BOOLEAN /\ intakes \in Seq(Intakes)
  /\ \A i \in DOMAIN intakes : intakes[i].content # Unread => intakes[i].events # <<>>

IInv == WindowInv /\ WorldTypes /\ FactTypes /\ IntakeTypes

LEMMA IInvImplies == IInv => TypeOK /\ WindowHasTimer /\ WindowTellsTheDisk
  BY DEF IInv, WindowInv, WorldTypes, FactTypes, IntakeTypes, TypeOK

-----------------------------------------------------------------------------
(* The window.                                                             *)

LEMMA EventFields == ASSUME NEW e \in Event
                     PROVE  e.uri \in Files /\ e.kind \in Kinds
  BY DEF Event

\* What Merge makes of two events of a file tells whether the file is there, when the
\* first told of it before the second happened.
LEMMA MergeTells ==
  ASSUME NEW prev \in Kinds, NEW kind \in Kinds, prev = "delete" => kind # "change"
  PROVE  Merge(prev, kind) \in Kinds /\ (Merge(prev, kind) = "delete" <=> kind = "delete")
  BY DEF Merge, Kinds

\* An event of a file with whose cause the disk has changed is collected.
LEMMA CollectSteps ==
  ASSUME WindowInv, NEW f \in Files, NEW kind \in Kinds, NEW c \in Nat,
         disk \in [Files -> Contents], disk' = [disk EXCEPT ![f] = c],
         kind = "delete" <=> c = 0, kind = "change" => disk[f] # 0,
         Collect(f, kind)
  PROVE  WindowInv'
  <1> USE DEF WindowInv
  <1>1. timer' = "armed" /\ UNCHANGED <<leaked, batches>>
    BY DEF Collect, Schedule
  <1>2. CASE Waits(f)
    <2>1. pending' = [i \in DOMAIN pending |->
                        IF pending[i].uri = f
                        THEN [pending[i] EXCEPT !.kind = Merge(@, kind)] ELSE pending[i]]
      BY <1>2 DEF Collect
    <2>2. ASSUME NEW i \in DOMAIN pending
          PROVE  /\ pending'[i] \in Event /\ pending'[i].uri = pending[i].uri
                 /\ pending'[i].kind = "delete" <=> disk'[pending[i].uri] = 0
      <3>1. pending[i] \in Event /\ pending[i].uri \in Files /\ pending[i].kind \in Kinds
        BY EventFields
      <3>2. pending[i].kind = "delete" <=> disk[pending[i].uri] = 0
        BY DEF WindowTellsTheDisk
      <3>3. CASE pending[i].uri # f
        BY <2>1, <3>1, <3>2, <3>3
      <3>4. CASE pending[i].uri = f
        <4> DEFINE m == Merge(pending[i].kind, kind)
        <4>1. pending'[i] = [pending[i] EXCEPT !.kind = m]
          BY <2>1, <3>4
        <4>2. m \in Kinds /\ (m = "delete" <=> kind = "delete")
          BY <3>1, <3>2, <3>4, MergeTells
        <4> HIDE DEF m
        <4>3. pending'[i] = [uri |-> f, kind |-> m]
          BY <3>1, <3>4, <4>1 DEF Event
        <4>4. disk'[f] = c
          OBVIOUS
        <4> QED BY <3>4, <4>2, <4>3, <4>4 DEF Event
      <3> QED BY <3>3, <3>4
    <2>3. DOMAIN pending' = DOMAIN pending
      BY <2>1
    <2>4. pending' \in Seq(Event) /\ Len(pending') = Len(pending)
      <3> DEFINE n == Len(pending)
      <3>1. n \in Nat /\ DOMAIN pending = 1 .. n
        OBVIOUS
      <3> HIDE DEF n
      <3>2. pending' \in [1 .. n -> Event]
        BY <2>1, <2>2, <3>1
      <3>3. pending' \in Seq(Event) /\ Len(pending') = n
        BY <3>1, <3>2
      <3> QED BY <3>3 DEF n
    <2>5. pending' # <<>>
      BY <1>2, <2>4 DEF Waits
    <2>6. WindowTellsTheDisk'
      BY <2>2, <2>3 DEF WindowTellsTheDisk
    <2>7. WindowHasTimer'
      BY <1>1, <2>5 DEF WindowHasTimer
    <2> QED BY <1>1, <2>4, <2>6, <2>7
  <1>3. CASE ~Waits(f)
    <2> DEFINE e == [uri |-> f, kind |-> kind]
    <2>1. pending' = Append(pending, e) /\ Len(pending) < MaxPending
      BY <1>3 DEF Collect, HasRoom
    <2>2. e \in Event /\ e.uri = f /\ e.kind = kind
      BY DEF Event
    <2> HIDE DEF e
    <2>3. /\ pending' \in Seq(Event) /\ Len(pending') <= MaxPending /\ pending' # <<>>
          /\ DOMAIN pending' = DOMAIN pending \cup {Len(pending) + 1}
          /\ \A i \in DOMAIN pending : pending'[i] = pending[i] /\ i # Len(pending) + 1
          /\ pending'[Len(pending) + 1] = e
      <3>1. /\ pending' \in Seq(Event) /\ Len(pending') = Len(pending) + 1
            /\ pending'[Len(pending) + 1] = e
            /\ DOMAIN pending = 1 .. Len(pending) /\ Len(pending) \in Nat
            /\ DOMAIN pending' = 1 .. (Len(pending) + 1)
        BY <2>1, <2>2
      <3>2. \A i \in DOMAIN pending : pending'[i] = pending[i]
        BY <2>1, <2>2
      <3>3. Len(pending') <= MaxPending /\ pending' # <<>>
        BY <2>1, <3>1, DebouncerAssumption
      <3> QED BY <3>1, <3>2, <3>3
    <2>4. \A i \in DOMAIN pending : pending[i].uri \in Files /\ pending[i].uri # f
      BY <1>3, EventFields DEF Waits
    <2>5. \A i \in DOMAIN pending' : pending'[i].kind = "delete" <=> disk'[pending'[i].uri] = 0
      BY <2>2, <2>3, <2>4 DEF WindowTellsTheDisk
    <2>6. \A i, j \in DOMAIN pending' : pending'[i].uri = pending'[j].uri => i = j
      BY <2>2, <2>3, <2>4 DEF WindowTellsTheDisk
    <2>7. WindowTellsTheDisk' /\ WindowHasTimer'
      BY <1>1, <2>3, <2>5, <2>6 DEF WindowTellsTheDisk, WindowHasTimer
    <2> QED BY <1>1, <2>3, <2>7
  <1> QED BY <1>2, <1>3

\* Or it is the first of a new window.
LEMMA OverflowSteps ==
  ASSUME WindowInv, NEW f \in Files, NEW kind \in Kinds, NEW c \in Nat,
         disk \in [Files -> Contents], disk' = [disk EXCEPT ![f] = c],
         kind = "delete" <=> c = 0,
         Overflow(f, kind)
  PROVE  WindowInv'
  <1> USE DEF WindowInv
  <1> DEFINE e == [uri |-> f, kind |-> kind]
  <1>1. /\ pending' = <<e>> /\ timer' = "armed"
        /\ batches' = Append(batches, pending)
        /\ leaked' \in Nat
    BY DEF Overflow
  <1>2. e \in Event /\ e.uri = f /\ e.kind = kind
    BY DEF Event
  <1> HIDE DEF e
  <1>3. pending' \in Seq(Event) /\ Len(pending') = 1 /\ pending' # <<>> /\ pending'[1] = e
        /\ DOMAIN pending' = {1}
    BY <1>1, <1>2
  <1>4. batches' \in Seq(Seq(Event))
    BY <1>1
  <1>5. WindowTellsTheDisk' /\ WindowHasTimer'
    BY <1>1, <1>2, <1>3 DEF WindowTellsTheDisk, WindowHasTimer
  <1> QED BY <1>1, <1>3, <1>4, <1>5, DebouncerAssumption

LEMMA PushSteps ==
  ASSUME WindowInv, NEW f \in Files, NEW kind \in Kinds, NEW c \in Nat,
         disk \in [Files -> Contents], disk' = [disk EXCEPT ![f] = c],
         kind = "delete" <=> c = 0, kind = "change" => disk[f] # 0,
         Push(f, kind)
  PROVE  WindowInv'
  BY CollectSteps, OverflowSteps DEF Push

\* A window is handed over, or thrown away.
LEMMA EmptyWindow ==
  ASSUME WindowInv, pending' = <<>>, timer' = "null", leaked' \in Nat,
         batches' \in Seq(Seq(Event))
  PROVE  WindowInv'
  BY DebouncerAssumption DEF WindowInv, WindowHasTimer, WindowTellsTheDisk

\* Both kinds of timers: a leaked one that fires over an empty window changes nothing
\* but the number of those.
LEMMA TimerSteps ==
  ASSUME WindowInv, (TimerFires \/ LeakedTimerFires), disk' = disk PROVE WindowInv'
  <1> USE DEF WindowInv
  <1>1. Append(batches, pending) \in Seq(Seq(Event))
    OBVIOUS
  <1>2. CASE TimerFires
    <2>1. batches' \in Seq(Seq(Event))
      BY <1>1, <1>2 DEF TimerFires
    <2> QED BY <1>2, <2>1, EmptyWindow DEF TimerFires
  <1>3. CASE LeakedTimerFires /\ pending = <<>>
    <2>1. leaked' \in Nat /\ UNCHANGED <<pending, timer, batches>>
      BY <1>3 DEF LeakedTimerFires
    <2> QED BY <2>1 DEF WindowHasTimer, WindowTellsTheDisk
  <1>4. CASE LeakedTimerFires /\ pending # <<>>
    <2>1. leaked' \in Nat /\ timer' = "null" /\ pending' = <<>>
      BY <1>4 DEF LeakedTimerFires
    <2>2. batches' \in Seq(Seq(Event))
      BY <1>1, <1>4 DEF LeakedTimerFires
    <2> QED BY <2>1, <2>2, EmptyWindow
  <1> QED BY <1>2, <1>3, <1>4

\* Steps that leave the window and the disk alone.
LEMMA WindowStays ==
  ASSUME WindowInv, UNCHANGED <<pending, timer, leaked, disk>>, batches' \in Seq(Seq(Event))
  PROVE  WindowInv'
  BY DEF WindowInv, WindowHasTimer, WindowTellsTheDisk

-----------------------------------------------------------------------------
(* The index.                                                              *)

LEMMA ContentsFacts ==
  /\ Contents \subseteq Nat /\ {0, Old, FirstNew} \subseteq Contents
  /\ Unread \notin Contents
  /\ \A c \in Contents : c < MaxContent => c + 1 \in Contents /\ c + 1 # 0
  BY WorkspaceAssumption DEF Contents, Old, FirstNew

LEMMA UpsertTypes ==
  ASSUME FactTypes, NEW F, NEW g, \A f \in Files : f \in F => g[f] \in Contents, Upsert(F, g)
  PROVE  /\ index' \in [Files -> Contents]
         /\ staged' = NoBatch \/ staged' \in [Files -> Contents \cup {Untouched}]
  <1>1. CASE staged = NoBatch
    BY <1>1 DEF Upsert, FactTypes
  <1>2. CASE staged # NoBatch
    BY <1>2 DEF Upsert, FactTypes
  <1> QED BY <1>1, <1>2

LEMMA AnalyseTypes ==
  ASSUME FactTypes, NEW F, NEW text, \A f \in Files : f \in F => text[f] \in Contents,
         Analyse(F, text)
  PROVE  FactTypes'
  <1> DEFINE missed == {f \in F : analysed[f] # text[f]}
  <1>1. /\ Upsert(missed, text)
        /\ analysed' = [f \in Files |-> IF f \in missed THEN text[f] ELSE analysed[f]]
    BY DEF Analyse
  <1>2. \A f \in Files : f \in missed => text[f] \in Contents
    OBVIOUS
  <1> HIDE DEF missed
  <1>3. analysed' \in [Files -> Contents]
    BY <1>1, <1>2 DEF FactTypes
  <1> QED BY <1>1, <1>2, <1>3, UpsertTypes DEF FactTypes

-----------------------------------------------------------------------------
(* The disk and the editor.                                                *)

LEMMA WriteSteps == ASSUME IInv, NEW f \in Files, Write(f) PROVE IInv'
  <1> USE DEF IInv
  <1>1. WorldTypes'
    BY ContentsFacts DEF Write, WorldTypes
  <1>2. FactTypes' /\ IntakeTypes'
    BY DEF Write, FactTypes, IntakeTypes
  <1> DEFINE kind == IF disk[f] = 0 THEN "create" ELSE "change"
  <1>3. /\ kind \in Kinds /\ kind # "delete" /\ (kind = "change" => disk[f] # 0)
        /\ Push(f, kind)
    BY DEF Write, Kinds
  <1> HIDE DEF kind
  <1>4. clock + 1 \in Nat /\ clock + 1 # 0
    BY ContentsFacts DEF Write, WorldTypes
  <1>5. disk' = [disk EXCEPT ![f] = clock + 1] /\ disk \in [Files -> Contents]
    BY DEF Write, WorldTypes
  <1>6. WindowInv'
    BY <1>3, <1>4, <1>5, PushSteps
  <1> QED BY <1>1, <1>2, <1>6

LEMMA DeleteSteps == ASSUME IInv, NEW f \in Files, Delete(f) PROVE IInv'
  <1> USE DEF IInv
  <1>1. WorldTypes'
    BY ContentsFacts DEF Delete, WorldTypes
  <1>2. FactTypes' /\ IntakeTypes'
    BY DEF Delete, FactTypes, IntakeTypes
  <1>3. /\ Push(f, "delete") /\ disk' = [disk EXCEPT ![f] = 0]
        /\ disk \in [Files -> Contents] /\ "delete" \in Kinds
    BY DEF Delete, WorldTypes, Kinds
  <1>4. WindowInv'
    BY <1>3, PushSteps
  <1> QED BY <1>1, <1>2, <1>4

LEMMA SaveSteps == ASSUME IInv, NEW f \in Files, Save(f) PROVE IInv'
  <1> USE DEF IInv
  <1>1. buffer[f] \in Contents /\ buffer[f] \in Nat /\ buffer[f] # 0
    BY ContentsFacts DEF Save, IsOpen, WorldTypes
  <1>2. WorldTypes'
    BY <1>1 DEF Save, WorldTypes
  <1>3. FactTypes' /\ IntakeTypes'
    BY DEF Save, FactTypes, IntakeTypes
  <1> DEFINE kind == IF disk[f] = 0 THEN "create" ELSE "change"
  <1>4. /\ kind \in Kinds /\ kind # "delete" /\ (kind = "change" => disk[f] # 0)
        /\ Push(f, kind)
    BY DEF Save, Kinds
  <1> HIDE DEF kind
  <1>5. disk' = [disk EXCEPT ![f] = buffer[f]] /\ disk \in [Files -> Contents]
    BY DEF Save, WorldTypes
  <1>6. WindowInv'
    BY <1>1, <1>4, <1>5, PushSteps
  <1> QED BY <1>2, <1>3, <1>6

LEMMA EditorSteps ==
  ASSUME IInv, NEW f \in Files, Open(f) \/ Edit(f) \/ Query(f) PROVE IInv'
  <1> USE DEF IInv
  <1>1. WorldTypes' /\ IntakeTypes'
    BY ContentsFacts DEF Open, Edit, Query, WorldTypes, IntakeTypes
  <1>2. FactTypes'
    <2>1. CASE Open(f) \/ Edit(f)
      <3>1. Analyse({f}, buffer') /\ buffer'[f] \in Contents
        BY <2>1, <1>1 DEF Open, Edit, WorldTypes
      <3> QED BY <3>1, AnalyseTypes
    <2>2. CASE Query(f)
      <3>1. Analyse({f}, buffer) /\ buffer[f] \in Contents
        BY <2>2 DEF Query, WorldTypes
      <3> QED BY <3>1, AnalyseTypes
    <2> QED BY <2>1, <2>2
  <1>3. UNCHANGED <<pending, timer, leaked, batches, disk>>
    BY DEF Open, Edit, Query, debouncerVars
  <1>4. WindowInv'
    BY <1>3, WindowStays DEF WindowInv
  <1> QED BY <1>1, <1>2, <1>4

LEMMA CloseSteps == ASSUME IInv, NEW f \in Files, Close(f) PROVE IInv'
  <1> USE DEF IInv
  <1>1. WorldTypes' /\ IntakeTypes'
    BY ContentsFacts DEF Close, WorldTypes, IntakeTypes
  <1>2. FactTypes'
    BY ContentsFacts DEF Close, Evict, FactTypes
  <1>3. WindowInv'
    BY WindowStays DEF Close, WindowInv, debouncerVars
  <1> QED BY <1>1, <1>2, <1>3

-----------------------------------------------------------------------------
(* The startup task, which leaves the window and the intakes alone.        *)

LEMMA StartupSteps ==
  ASSUME IInv, UNCHANGED <<debouncerVars, disk, clock, buffer, saved, slotHeld, intakes>>,
         captured' \in [Files -> Contents \cup {Unread}],
         startup' \in {"starting", "restored", "empty", "reading", "enriched", "done", "down"},
         files' \subseteq Files, failed' \subseteq Files, FactTypes',
         startup' = "enriched" => \A f \in Files : captured'[f] # Unread
  PROVE  IInv'
  <1>1. WindowInv'
    BY WindowStays DEF IInv, WindowInv, debouncerVars
  <1> QED BY <1>1 DEF IInv, WorldTypes, IntakeTypes

LEMMA RestoreSteps == ASSUME IInv, EarlyRestore \/ Discover PROVE IInv'
  <1> USE DEF IInv, StartupRest
  <1>1. FactTypes'
    <2>1. index' \in {index, saved, [f \in Files |-> 0]} /\ UNCHANGED <<staged, analysed>>
      BY DEF EarlyRestore, Discover, Replace
    <2>2. index' \in [Files -> Contents]
      BY <2>1, ContentsFacts DEF FactTypes, WorldTypes
    <2> QED BY <2>1, <2>2 DEF FactTypes
  <1>2. captured' \in [Files -> Contents \cup {Unread}]
    BY ContentsFacts DEF EarlyRestore, Discover, WorldTypes
  <1>3. /\ UNCHANGED <<debouncerVars, disk, clock, buffer, saved, slotHeld, intakes>>
        /\ files' \subseteq Files /\ failed' \subseteq Files
    BY DEF EarlyRestore, Discover, WorldTypes
  <1>4. startup' \in {"restored", "empty", "reading", "done"}
    BY DEF EarlyRestore, Discover
  <1> QED BY <1>1, <1>2, <1>3, <1>4, StartupSteps

LEMMA PassReadsSteps == ASSUME IInv, NEW f \in Files, PassReads(f) PROVE IInv'
  <1> USE DEF IInv, StartupRest
  <1>1. FactTypes'
    BY DEF PassReads, FactTypes
  <1>2. captured' \in [Files -> Contents \cup {Unread}] /\ failed' \subseteq Files
    BY ContentsFacts DEF PassReads, WorldTypes
  <1>3. /\ UNCHANGED <<debouncerVars, disk, clock, buffer, saved, slotHeld, intakes, startup, files>>
        /\ startup = "reading"
    BY DEF PassReads
  <1> QED BY <1>1, <1>2, <1>3, StartupSteps DEF WorldTypes

LEMMA StructuralSteps == ASSUME IInv, PublishStructural PROVE IInv'
  <1> USE DEF IInv, StartupRest
  <1>1. \A f \in Files : captured[f] # Unread
    BY DEF PublishStructural, WorldTypes, Range
  <1>2. \A f \in Files : captured[f] \in Contents
    BY <1>1 DEF WorldTypes
  <1>3. FactTypes'
    BY <1>2 DEF PublishStructural, FactTypes
  <1>4. /\ UNCHANGED <<debouncerVars, disk, clock, buffer, saved, slotHeld, intakes, files>>
        /\ UNCHANGED <<captured, failed>> /\ startup' = "enriched"
    BY DEF PublishStructural
  <1> QED BY <1>1, <1>3, <1>4, StartupSteps DEF WorldTypes

LEMMA EnrichedSteps == ASSUME IInv, NEW f \in Files, PublishEnriched(f) PROVE IInv'
  <1> USE DEF IInv, StartupRest
  <1>1. captured[f] \in Contents
    BY DEF PublishEnriched, WorldTypes
  <1>2. FactTypes'
    <2>1. CASE Upsert({f}, captured)
      <3>1. /\ index' \in [Files -> Contents]
            /\ staged' = NoBatch \/ staged' \in [Files -> Contents \cup {Untouched}]
        BY <1>1, <2>1, UpsertTypes
      <3> QED BY <3>1 DEF PublishEnriched, FactTypes
    <2>2. CASE UNCHANGED <<index, staged, overwritten>>
      BY <2>2 DEF PublishEnriched, FactTypes
    <2> QED BY <2>1, <2>2 DEF PublishEnriched
  <1>3. captured' = [captured EXCEPT ![f] = 0] /\ startup = "enriched"
    BY DEF PublishEnriched
  <1>4. /\ captured' \in [Files -> Contents \cup {Unread}]
        /\ \A g \in Files : captured'[g] # Unread
    BY <1>3, ContentsFacts DEF WorldTypes
  <1>5. /\ UNCHANGED <<debouncerVars, disk, clock, buffer, saved, slotHeld, intakes, startup, files>>
        /\ failed' \subseteq Files
    BY DEF PublishEnriched, WorldTypes
  <1> QED BY <1>2, <1>4, <1>5, StartupSteps DEF WorldTypes

LEMMA EndPassSteps == ASSUME IInv, EndPass PROVE IInv'
  <1> USE DEF IInv
  <1>1. Committed \in [Files -> Contents]
    BY DEF Committed, FactTypes
  <1>2. staged' = NoBatch
    BY DEF EndPass
  <1>3. PICK missed \in SUBSET Files :
          /\ index' = [f \in Files |-> IF f \in missed THEN buffer[f] ELSE Committed[f]]
          /\ analysed' = [f \in Files |-> IF f \in missed THEN buffer[f] ELSE analysed[f]]
    BY DEF EndPass
  <1>4. FactTypes'
    BY <1>1, <1>2, <1>3 DEF FactTypes, WorldTypes
  <1>5. /\ UNCHANGED <<debouncerVars, disk, clock, buffer, saved, slotHeld, intakes>>
        /\ UNCHANGED <<files, captured, failed>> /\ startup' = "done"
    BY DEF EndPass
  <1> QED BY <1>4, <1>5, StartupSteps DEF WorldTypes

-----------------------------------------------------------------------------
(* The intakes.                                                            *)

\* What IntakeRest keeps, for the steps of an intake.
LEMMA IntakeSteps ==
  ASSUME IInv, UNCHANGED IntakeRest, batches' \in Seq(Seq(Event)), FactTypes', IntakeTypes',
         files' \subseteq Files, failed' \subseteq Files
  PROVE  IInv'
  <1>1. WindowInv'
    BY WindowStays DEF IInv, IntakeRest
  <1>2. WorldTypes'
    BY DEF IInv, IntakeRest, WorldTypes
  <1> QED BY <1>1, <1>2 DEF IInv

LEMMA StartIntakeSteps == ASSUME IInv, StartIntake PROVE IInv'
  <1> USE DEF IInv
  <1>1. Head(batches) \in Seq(Event) /\ Tail(batches) \in Seq(Seq(Event))
    BY DEF StartIntake, WindowInv
  <1> DEFINE new == [events |-> Head(batches), content |-> Unread, refresh |-> {}]
  <1>2. new \in Intakes /\ new.content = Unread
    BY <1>1 DEF Intakes
  <1>3. intakes' = Append(intakes, new) /\ slotHeld' = TRUE /\ batches' = Tail(batches)
    BY DEF StartIntake
  <1> HIDE DEF new
  <1>4. IntakeTypes'
    BY <1>2, <1>3 DEF IntakeTypes
  <1>5. UNCHANGED <<IntakeRest, files, index, analysed, failed>>
    BY DEF StartIntake
  <1>6. FactTypes' /\ files' \subseteq Files /\ failed' \subseteq Files
    BY <1>5 DEF FactTypes, IntakeRest, WorldTypes
  <1> QED BY <1>1, <1>3, <1>4, <1>5, <1>6, IntakeSteps

LEMMA PreemptSteps == ASSUME IInv, Preempt PROVE IInv'
  <1> USE DEF IInv
  <1>1. FactTypes' /\ IntakeTypes'
    BY DEF Preempt, FactTypes, IntakeTypes, IntakeRest
  <1> QED BY <1>1, IntakeSteps DEF Preempt, WindowInv, WorldTypes

LEMMA IntakeFields ==
  ASSUME IntakeTypes, NEW i \in DOMAIN intakes
  PROVE  /\ intakes[i] = [events |-> intakes[i].events, content |-> intakes[i].content,
                          refresh |-> intakes[i].refresh]
         /\ intakes[i].events \in Seq(Event)
         /\ intakes[i].content \in Contents \cup {Unread}
         /\ intakes[i].refresh \in SUBSET Files
         /\ intakes[i].content # Unread => intakes[i].events # <<>>
  <1>1. intakes[i] \in Intakes
    BY DEF IntakeTypes
  <1>2. ASSUME NEW x \in Intakes
        PROVE  /\ x = [events |-> x.events, content |-> x.content, refresh |-> x.refresh]
               /\ x.events \in Seq(Event) /\ x.content \in Contents \cup {Unread}
               /\ x.refresh \in SUBSET Files
    BY DEF Intakes
  <1> QED BY <1>1, <1>2 DEF IntakeTypes

\* The head of the events of an intake, and what is left when it is through with it.
LEMMA HeadOfIntake ==
  ASSUME IntakeTypes, NEW i \in DOMAIN intakes, intakes[i].events # <<>>
  PROVE  Next1(i).uri \in Files /\ Tail(intakes[i].events) \in Seq(Event)
  <1>1. intakes[i].events \in Seq(Event)
    BY IntakeFields
  <1>2. Head(intakes[i].events) \in Event
    BY <1>1
  <1> QED BY <1>1, <1>2, EventFields DEF Next1

LEMMA AdvanceTypes ==
  ASSUME IntakeTypes, slotHeld' = slotHeld, NEW i \in DOMAIN intakes, NEW F \in SUBSET Files,
         intakes[i].events # <<>>, Advance(i, F)
  PROVE  IntakeTypes'
  <1> DEFINE new == [events |-> Tail(intakes[i].events), content |-> Unread,
                     refresh |-> intakes[i].refresh \cup F]
  <1>1. new \in Intakes /\ new.content = Unread
    BY HeadOfIntake, IntakeFields DEF Intakes
  <1>2. intakes' = [intakes EXCEPT ![i] = new]
    BY DEF Advance
  <1> HIDE DEF new
  <1> QED BY <1>1, <1>2 DEF IntakeTypes

LEMMA RemovesSteps == ASSUME IInv, NEW i, IntakeRemoves(i) PROVE IInv'
  <1> USE DEF IInv
  <1>1. i \in DOMAIN intakes /\ intakes[i].events # <<>>
    BY DEF IntakeRemoves, At
  <1>2. PICK F \in SUBSET Files : Advance(i, F)
    BY <1>1, HeadOfIntake DEF IntakeRemoves
  <1>3. UNCHANGED <<IntakeRest, batches, slotHeld>>
    BY DEF IntakeRemoves
  <1>4. IntakeTypes'
    BY <1>1, <1>2, <1>3, AdvanceTypes
  <1>5. FactTypes'
    BY <1>3, ContentsFacts DEF IntakeRemoves, FactTypes, IntakeRest
  <1>6. files' \subseteq Files /\ failed' \subseteq Files
    BY DEF IntakeRemoves, WorldTypes
  <1> QED BY <1>3, <1>4, <1>5, <1>6, IntakeSteps DEF WindowInv

LEMMA ReadsSteps == ASSUME IInv, NEW i, IntakeReads(i) PROVE IInv'
  <1> USE DEF IInv
  <1>1. i \in DOMAIN intakes /\ intakes[i].events # <<>>
    BY DEF IntakeReads, At
  <1> DEFINE f == Next1(i).uri
             refresh == IF f \in files THEN {} ELSE Files
             new == [events |-> intakes[i].events, content |-> disk[f],
                     refresh |-> intakes[i].refresh \cup refresh]
  <1>2. f \in Files /\ refresh \in SUBSET Files
    BY <1>1, HeadOfIntake
  <1>3. /\ UNCHANGED <<IntakeRest, batches, index, analysed, slotHeld>>
        /\ Advance(i, refresh) \/ intakes' = [intakes EXCEPT ![i] = new]
    BY <1>1 DEF IntakeReads
  <1>4. new \in Intakes /\ new.events = intakes[i].events
    <2>1. disk[f] \in Contents
      BY <1>2 DEF WorldTypes
    <2> QED BY <1>1, <1>2, <2>1, IntakeFields DEF Intakes
  <1>5. files' \subseteq Files /\ failed' \subseteq Files
    BY <1>2 DEF IntakeReads, WorldTypes
  <1> HIDE DEF f, refresh, new
  <1>6. CASE Advance(i, refresh)
    <2>1. IntakeTypes'
      BY <1>1, <1>2, <1>3, <1>6, AdvanceTypes
    <2> QED BY <1>3, <1>5, <2>1, IntakeSteps DEF WindowInv, FactTypes, IntakeRest
  <1>7. CASE intakes' = [intakes EXCEPT ![i] = new]
    <2>1. IntakeTypes'
      BY <1>1, <1>3, <1>4, <1>7 DEF IntakeTypes
    <2> QED BY <1>3, <1>5, <2>1, IntakeSteps DEF WindowInv, FactTypes, IntakeRest
  <1> QED BY <1>3, <1>6, <1>7

LEMMA PublishesSteps == ASSUME IInv, NEW i, IntakePublishes(i) PROVE IInv'
  <1> USE DEF IInv
  <1>1. /\ i \in DOMAIN intakes /\ intakes[i].events # <<>>
        /\ intakes[i].content \in Contents
    BY IntakeFields DEF IntakePublishes
  <1>2. Next1(i).uri \in Files
    BY <1>1, HeadOfIntake
  <1>3. /\ Advance(i, {Next1(i).uri}) /\ UNCHANGED <<IntakeRest, batches, files, analysed, slotHeld>>
        /\ index' = [index EXCEPT ![Next1(i).uri] = intakes[i].content]
    BY DEF IntakePublishes
  <1>4. IntakeTypes'
    BY <1>1, <1>2, <1>3, AdvanceTypes
  <1>5. FactTypes'
    BY <1>1, <1>3 DEF FactTypes, IntakeRest
  <1>6. files' \subseteq Files /\ failed' \subseteq Files
    BY DEF IntakePublishes, WorldTypes
  <1> QED BY <1>3, <1>4, <1>5, <1>6, IntakeSteps DEF WindowInv

LEMMA EndIntakeSteps == ASSUME IInv, NEW i, EndIntake(i) PROVE IInv'
  <1> USE DEF IInv
  <1>1. /\ i \in DOMAIN intakes /\ intakes' = RemoveAt(intakes, i)
        /\ slotHeld' = (slotHeld /\ i # Len(intakes))
    BY DEF EndIntake
  <1>2. IntakeTypes'
    <2>1. intakes' \in Seq(Intakes)
      BY <1>1, RemoveAtFacts DEF IntakeTypes
    <2>2. \A j \in DOMAIN intakes' : \E k \in DOMAIN intakes : intakes'[j] = intakes[k]
      BY <1>1, RemoveAtFacts DEF IntakeTypes
    <2>3. slotHeld' \in BOOLEAN
      BY <1>1
    <2> QED BY <2>1, <2>2, <2>3 DEF IntakeTypes
  <1> DEFINE F == {f \in intakes[i].refresh : IsOpen(f)}
  <1>3. Analyse(F, buffer) /\ \A f \in Files : f \in F => buffer[f] \in Contents
    BY DEF EndIntake, WorldTypes
  <1> HIDE DEF F
  <1>4. FactTypes'
    BY <1>3, AnalyseTypes
  <1>5. UNCHANGED <<pending, timer, leaked, batches, disk, clock, buffer, saved, startup,
                    files, captured, failed>>
    BY DEF EndIntake
  <1>6. WindowInv' /\ WorldTypes'
    BY <1>5, WindowStays DEF WindowInv, WorldTypes
  <1> QED BY <1>2, <1>4, <1>6

-----------------------------------------------------------------------------
(* Every step preserves the invariant.                                     *)

LEMMA ShutdownSteps == ASSUME IInv, Shutdown PROVE IInv'
  <1> USE DEF IInv
  <1>1. WindowInv'
    BY EmptyWindow DEF Shutdown, Dispose, WindowInv
  <1>2. WorldTypes'
    BY DEF Shutdown, WorldTypes
  <1>3. FactTypes' /\ IntakeTypes'
    BY DEF Shutdown, FactTypes, IntakeTypes
  <1> QED BY <1>1, <1>2, <1>3

LEMMA TimersSteps == ASSUME IInv, Timers PROVE IInv'
  <1> USE DEF IInv
  <1>1. WindowInv'
    BY TimerSteps DEF Timers, Unmoved
  <1>2. WorldTypes' /\ FactTypes' /\ IntakeTypes'
    BY DEF Timers, Unmoved, WorldTypes, FactTypes, IntakeTypes
  <1> QED BY <1>1, <1>2

LEMMA StutterSteps == ASSUME IInv, UNCHANGED vars PROVE IInv'
  <1> USE DEF IInv, vars
  <1>1. WindowInv'
    BY DEF WindowInv, WindowHasTimer, WindowTellsTheDisk, debouncerVars
  <1>2. WorldTypes' /\ FactTypes' /\ IntakeTypes'
    BY DEF WorldTypes, FactTypes, IntakeTypes
  <1> QED BY <1>1, <1>2

LEMMA InitEstablishes == Init => IInv
  <1> SUFFICES ASSUME Init PROVE IInv
    OBVIOUS
  <1>1. WindowInv
    BY DebouncerAssumption DEF Init, DebouncerInit, WindowInv, WindowHasTimer, WindowTellsTheDisk
  <1>2. WorldTypes
    BY ContentsFacts DEF Init, WorldTypes, Old, FirstNew
  <1>3. FactTypes
    BY ContentsFacts DEF Init, FactTypes
  <1>4. IntakeTypes
    <2>1. intakes = <<>> /\ slotHeld = FALSE
      BY DEF Init
    <2>2. <<>> \in Seq(Intakes) /\ \A i \in DOMAIN <<>> : FALSE
      OBVIOUS
    <2> QED BY <2>1, <2>2 DEF IntakeTypes
  <1> QED BY <1>1, <1>2, <1>3, <1>4 DEF IInv

LEMMA NextPreserves == IInv /\ [Next]_vars => IInv'
  <1> SUFFICES ASSUME IInv, [Next]_vars PROVE IInv'
    OBVIOUS
  <1>1. ASSUME NEW f \in Files, Write(f) \/ Delete(f) PROVE IInv'
    BY <1>1, WriteSteps, DeleteSteps
  <1>2. ASSUME NEW f \in Edited, Open(f) \/ Edit(f) \/ Save(f) \/ Close(f) \/ Query(f)
        PROVE  IInv'
    <2>1. f \in Files
      BY WorkspaceAssumption
    <2> QED BY <1>2, <2>1, EditorSteps, SaveSteps, CloseSteps
  <1>3. CASE Timers
    BY <1>3, TimersSteps
  <1>4. CASE Startup
    BY <1>4, RestoreSteps, StructuralSteps, EndPassSteps, PassReadsSteps, EnrichedSteps
       DEF Startup
  <1>5. CASE StartIntake \/ Preempt
    BY <1>5, StartIntakeSteps, PreemptSteps
  <1>6. CASE Shutdown
    BY <1>6, ShutdownSteps
  <1>7. ASSUME NEW i \in 1 .. MaxIntakes, Intake(i) PROVE IInv'
    BY <1>7, RemovesSteps, ReadsSteps, PublishesSteps, EndIntakeSteps DEF Intake
  <1>8. CASE UNCHANGED vars
    BY <1>8, StutterSteps
  <1> QED BY <1>1, <1>2, <1>3, <1>4, <1>5, <1>6, <1>7, <1>8 DEF Next

LEMMA Invariance == Spec => []IInv
  BY InitEstablishes, NextPreserves, PTL DEF Spec

\* The variables always have their types.
THEOREM WorkspaceTyped == Spec => []TypeOK
  BY Invariance, IInvImplies, PTL

\* schedule() and flush() of the debouncer never leave events of a window without a
\* timer, nor a timer without events, however many timers flush() has leaked before.
THEOREM WindowAlwaysHasTimer == Spec => []WindowHasTimer
  BY Invariance, IInvImplies, PTL

\* merge() of the debouncer loses nothing that matters: the event of a file says that it
\* was deleted exactly while it is not there.
THEOREM WindowAlwaysTellsTheDisk == Spec => []WindowTellsTheDisk
  BY Invariance, IInvImplies, PTL

-----------------------------------------------------------------------------
(* What the index shows of open documents.                                 *)

\* A closed document has no analysis, and one that no background writer has overwritten
\* has its text in the analysis cache as well as in the index: so a hit may skip the upsert.
ShownInv ==
  /\ \A f \in Files : disk[f] <= clock /\ buffer[f] <= clock /\ analysed[f] <= clock
  /\ \A f \in Files : ~IsOpen(f) => analysed[f] = 0
  /\ \A f \in Files : IsOpen(f) /\ f \notin overwritten =>
       Committed[f] = buffer[f] /\ analysed[f] = buffer[f]
  /\ startup \in {"starting", "restored", "empty", "reading"} => staged = NoBatch

\* An upsert, in a batch or outside, is what the index will show.
LEMMA UpsertShows ==
  ASSUME FactTypes, NEW F, NEW g, \A f \in Files : f \in F => g[f] \in Contents, Upsert(F, g)
  PROVE  /\ \A f \in Files : Committed'[f] = IF f \in F THEN g[f] ELSE Committed[f]
         /\ staged = NoBatch => staged' = NoBatch
  <1>1. CASE staged = NoBatch
    BY <1>1 DEF Upsert, FactTypes, Committed
  <1>2. CASE staged # NoBatch
    <2>1. /\ staged' = [f \in Files |-> IF f \in F THEN g[f] ELSE staged[f]]
          /\ staged' \in [Files -> Contents \cup {Untouched}] /\ index' = index
      BY <1>2 DEF Upsert, FactTypes
    <2>2. staged' # NoBatch
      BY <2>1, WorkspaceAssumption DEF Contents
    <2>3. \A f \in Files : f \in F => g[f] # Untouched
      BY ContentsFacts, WorkspaceAssumption
    <2> QED BY <1>2, <2>1, <2>2, <2>3 DEF Committed
  <1> QED BY <1>1, <1>2

LEMMA AnalyseShows ==
  ASSUME FactTypes, NEW F, NEW text, \A f \in Files : f \in F => text[f] \in Contents,
         Analyse(F, text)
  PROVE  /\ \A f \in Files : f \in F => analysed'[f] = text[f]
         /\ \A f \in Files : f \notin F \/ analysed[f] = text[f] =>
              analysed'[f] = analysed[f] /\ Committed'[f] = Committed[f]
              /\ (f \in overwritten' <=> f \in overwritten)
         /\ \A f \in Files : f \in F /\ analysed[f] # text[f] => Committed'[f] = text[f]
         /\ staged = NoBatch => staged' = NoBatch
  <1> DEFINE missed == {f \in F : analysed[f] # text[f]}
  <1>1. /\ Upsert(missed, text) /\ overwritten' = overwritten \ missed
        /\ analysed' = [f \in Files |-> IF f \in missed THEN text[f] ELSE analysed[f]]
    BY DEF Analyse
  <1>2. \A f \in Files : f \in missed => text[f] \in Contents
    OBVIOUS
  <1>3. \A f : f \in missed <=> f \in F /\ analysed[f] # text[f]
    OBVIOUS
  <1> HIDE DEF missed
  <1>4. /\ \A f \in Files : Committed'[f] = IF f \in missed THEN text[f] ELSE Committed[f]
        /\ staged = NoBatch => staged' = NoBatch
    BY <1>1, <1>2, UpsertShows
  <1> QED BY <1>1, <1>3, <1>4

LEMMA EditorShows ==
  ASSUME IInv, ShownInv, NEW f \in Files, Open(f) \/ Edit(f) \/ Query(f) PROVE ShownInv'
  <1> USE DEF IInv
  <1>1. /\ Analyse({f}, buffer') /\ UNCHANGED <<disk, startup>>
        /\ buffer' \in [Files -> Contents] /\ buffer'[f] # 0
        /\ \A g \in Files : g # f => buffer'[g] = buffer[g]
    BY ContentsFacts DEF Open, Edit, Query, IsOpen, WorldTypes
  <1>2. /\ clock' \in Nat /\ clock \in Nat /\ clock <= clock' /\ buffer'[f] <= clock'
    BY ContentsFacts DEF Open, Edit, Query, WorldTypes, ShownInv
  <1>3. /\ analysed'[f] = buffer'[f]
        /\ \A g \in Files : g # f => /\ analysed'[g] = analysed[g]
                                     /\ Committed'[g] = Committed[g]
                                     /\ (g \in overwritten' <=> g \in overwritten)
        /\ staged = NoBatch => staged' = NoBatch
    BY <1>1, AnalyseShows
  <1>4. analysed[f] # buffer'[f]
    <2>1. CASE Open(f)
      BY <1>1, <2>1 DEF Open, ShownInv
    <2>2. CASE Edit(f)
      <3>1. buffer'[f] = clock + 1 /\ analysed[f] <= clock
        BY <2>2 DEF Edit, ShownInv, WorldTypes
      <3> QED BY <1>2, <3>1 DEF FactTypes
    <2>3. CASE Query(f)
      BY <2>3 DEF Query
    <2> QED BY <2>1, <2>2, <2>3
  <1>5. Committed'[f] = buffer'[f]
    BY <1>1, <1>4, AnalyseShows
  <1>6. \A g \in Files : disk[g] \in Nat /\ buffer[g] \in Nat /\ analysed[g] \in Nat
    BY ContentsFacts DEF WorldTypes, FactTypes
  <1>7. \A g \in Files : disk'[g] <= clock' /\ buffer'[g] <= clock' /\ analysed'[g] <= clock'
    BY <1>1, <1>2, <1>3, <1>6 DEF ShownInv
  <1>8. \A g \in Files : ~IsOpen(g)' => analysed'[g] = 0
    BY <1>1, <1>3 DEF ShownInv, IsOpen
  <1>9. \A g \in Files : IsOpen(g)' /\ g \notin overwritten' =>
          Committed'[g] = buffer'[g] /\ analysed'[g] = buffer'[g]
    BY <1>1, <1>3, <1>5 DEF ShownInv, IsOpen
  <1> QED BY <1>1, <1>3, <1>7, <1>8, <1>9 DEF ShownInv

\* The disk changes, and none of what the server has.
LEMMA DiskShows ==
  ASSUME IInv, ShownInv, NEW f \in Files, Write(f) \/ Delete(f) \/ Save(f) PROVE ShownInv'
  <1> USE DEF IInv
  <1>1. /\ UNCHANGED <<buffer, startup, index, staged, analysed, overwritten>>
        /\ clock' \in Nat /\ clock \in Nat /\ clock <= clock'
    BY ContentsFacts DEF Write, Delete, Save, WorldTypes
  <1>2. \A g \in Files : disk[g] \in Nat /\ buffer[g] \in Nat /\ analysed[g] \in Nat
    BY ContentsFacts DEF WorldTypes, FactTypes
  <1>3. \A g \in Files : disk'[g] \in {disk[g], clock', 0, buffer[g]}
    BY DEF Write, Delete, Save, WorldTypes
  <1>4. \A g \in Files : disk'[g] <= clock' /\ buffer'[g] <= clock' /\ analysed'[g] <= clock'
    BY <1>1, <1>2, <1>3 DEF ShownInv
  <1>5. \A g \in Files : Committed'[g] = Committed[g]
    BY <1>1 DEF Committed
  <1> QED BY <1>1, <1>4, <1>5 DEF ShownInv, IsOpen

LEMMA CloseShows == ASSUME IInv, ShownInv, NEW f \in Files, Close(f) PROVE ShownInv'
  <1> USE DEF IInv
  <1>1. /\ buffer' = [buffer EXCEPT ![f] = 0] /\ analysed' = [analysed EXCEPT ![f] = 0]
        /\ overwritten' = overwritten \ {f}
        /\ UNCHANGED <<disk, clock, startup, index, staged>>
    BY DEF Close, Evict
  <1>2. /\ buffer'[f] = 0 /\ analysed'[f] = 0
        /\ \A g \in Files : g # f => buffer'[g] = buffer[g] /\ analysed'[g] = analysed[g]
    BY <1>1 DEF WorldTypes, FactTypes
  <1>3. \A g \in Files : Committed'[g] = Committed[g]
    BY <1>1 DEF Committed
  <1>4. clock \in Nat
    BY ContentsFacts DEF WorldTypes
  <1>5. \A g \in Files : disk'[g] <= clock' /\ buffer'[g] <= clock' /\ analysed'[g] <= clock'
    BY <1>1, <1>2, <1>4 DEF ShownInv
  <1> QED BY <1>1, <1>2, <1>3, <1>5 DEF ShownInv, IsOpen

\* A background writer: what it makes of an open document either is the text of the
\* editor, or the document is overwritten.
LEMMA BackgroundShows ==
  ASSUME ShownInv, UNCHANGED <<disk, clock, buffer>>,
         \A f \in Files : \/ analysed'[f] = analysed[f]
                          \/ analysed'[f] = 0
                          \/ IsOpen(f) /\ analysed'[f] = buffer[f],
         \A f \in Files : IsOpen(f) /\ f \notin overwritten' =>
            \/ f \notin overwritten /\ analysed'[f] = analysed[f]
               /\ Committed'[f] \in {Committed[f], buffer[f]}
            \/ Committed'[f] = buffer[f] /\ analysed'[f] = buffer[f],
         startup' \in {"starting", "restored", "empty", "reading"} => staged' = NoBatch,
         clock \in Nat
  PROVE  ShownInv'
  BY DEF ShownInv, IsOpen

LEMMA RestoreShows == ASSUME IInv, ShownInv, EarlyRestore \/ Discover PROVE ShownInv'
  <1> USE DEF IInv, StartupRest
  <1>1. UNCHANGED <<disk, clock, buffer, analysed, staged>> /\ staged = NoBatch /\ clock \in Nat
    BY ContentsFacts DEF EarlyRestore, Discover, ShownInv, WorldTypes
  <1>2. \/ UNCHANGED <<index, overwritten>>
        \/ \E g : Replace(g)
    BY DEF EarlyRestore, Discover
  <1>3. ASSUME NEW f \in Files, IsOpen(f), f \notin overwritten'
        PROVE  f \notin overwritten /\ Committed'[f] \in {Committed[f], buffer[f]}
    <2>1. CASE UNCHANGED <<index, overwritten>>
      BY <1>1, <1>3, <2>1 DEF Committed
    <2>2. ASSUME NEW g, Replace(g) PROVE f \notin overwritten /\ Committed'[f] = buffer[f]
      BY <1>1, <1>3, <2>2 DEF Replace, Differing, Committed
    <2> QED BY <1>2, <2>1, <2>2
  <1> QED BY <1>1, <1>3, BackgroundShows

LEMMA StructuralShows ==
  ASSUME IInv, ShownInv, (\E f \in Files : PassReads(f)) \/ PublishStructural PROVE ShownInv'
  <1> USE DEF IInv, StartupRest
  <1>1. /\ UNCHANGED <<disk, clock, buffer, analysed>>
        /\ staged = NoBatch /\ clock \in Nat
    BY ContentsFacts DEF PassReads, PublishStructural, ShownInv, WorldTypes
  <1>2. CASE \E f \in Files : PassReads(f)
    <2>1. UNCHANGED <<startup, index, staged, overwritten>>
      BY <1>2 DEF PassReads
    <2>2. \A f \in Files : Committed'[f] = Committed[f]
      BY <2>1 DEF Committed
    <2> QED BY <1>1, <2>1, <2>2, BackgroundShows
  <1>3. CASE PublishStructural
    <2>1. /\ index' = [f \in Files |-> IF f \in Read THEN captured[f] ELSE index[f]]
          /\ staged' = NoBatch \/ staged' = [f \in Files |-> Untouched]
          /\ overwritten' = overwritten \cup Differing(Read, captured)
          /\ startup' = "enriched"
      BY <1>3 DEF PublishStructural
    <2>2. \A f \in Files : Committed'[f] = index'[f] /\ Committed[f] = index[f]
      BY <1>1, <2>1 DEF Committed
    <2>3. ASSUME NEW f \in Files, IsOpen(f), f \notin overwritten'
          PROVE  f \notin overwritten /\ Committed'[f] \in {Committed[f], buffer[f]}
      BY <2>1, <2>2, <2>3 DEF Differing
    <2> QED BY <1>1, <2>1, <2>3, BackgroundShows
  <1> QED BY <1>2, <1>3

LEMMA EnrichedShows ==
  ASSUME IInv, ShownInv, NEW f \in Files, PublishEnriched(f) PROVE ShownInv'
  <1> USE DEF IInv, StartupRest
  <1>1. /\ UNCHANGED <<disk, clock, buffer, analysed, startup>> /\ startup = "enriched"
        /\ clock \in Nat /\ captured[f] \in Contents
    BY ContentsFacts DEF PublishEnriched, WorldTypes
  <1>2. CASE Upsert({f}, captured) /\ overwritten' = overwritten \cup Differing({f}, captured)
    <2>1. \A g \in Files : Committed'[g] = IF g = f THEN captured[f] ELSE Committed[g]
      BY <1>1, <1>2, UpsertShows
    <2>2. ASSUME NEW g \in Files, IsOpen(g), g \notin overwritten'
          PROVE  g \notin overwritten /\ Committed'[g] \in {Committed[g], buffer[g]}
      BY <1>2, <2>1, <2>2 DEF Differing
    <2> QED BY <1>1, <2>2, BackgroundShows
  <1>3. CASE UNCHANGED <<index, staged, overwritten>>
    <2>1. \A g \in Files : Committed'[g] = Committed[g]
      BY <1>3 DEF Committed
    <2> QED BY <1>1, <1>3, <2>1, BackgroundShows
  <1> QED BY <1>2, <1>3 DEF PublishEnriched

LEMMA EndPassShows == ASSUME IInv, ShownInv, EndPass PROVE ShownInv'
  <1> USE DEF IInv
  <1> DEFINE missed == {f \in Files : IsOpen(f) /\ analysed[f] # buffer[f]}
  <1>1. /\ UNCHANGED <<disk, clock, buffer>> /\ startup' = "done" /\ staged' = NoBatch
        /\ index' = [f \in Files |-> IF f \in missed THEN buffer[f] ELSE Committed[f]]
        /\ analysed' = [f \in Files |-> IF f \in missed THEN buffer[f] ELSE analysed[f]]
        /\ overwritten' = overwritten \ missed
    BY DEF EndPass
  <1>2. \A f \in Files : f \in missed => IsOpen(f)
    OBVIOUS
  <1> HIDE DEF missed
  <1>3. \A f \in Files : Committed'[f] = IF f \in missed THEN buffer[f] ELSE Committed[f]
    BY <1>1 DEF Committed
  <1>4. clock \in Nat
    BY ContentsFacts DEF WorldTypes
  <1> QED BY <1>1, <1>2, <1>3, <1>4, BackgroundShows

LEMMA IntakeShows ==
  ASSUME IInv, ShownInv, NEW i, IntakeRemoves(i) \/ IntakePublishes(i) PROVE ShownInv'
  <1> USE DEF IInv, IntakeRest
  <1>1. /\ UNCHANGED <<disk, clock, buffer, startup, staged>> /\ clock \in Nat
    BY ContentsFacts DEF IntakeRemoves, IntakePublishes, WorldTypes
  <1> DEFINE f == Next1(i).uri
  <1>2. CASE IntakeRemoves(i)
    <2>1. /\ index' = [index EXCEPT ![f] = 0] /\ analysed' = [analysed EXCEPT ![f] = 0]
          /\ overwritten' = IF IsOpen(f) THEN overwritten \cup {f} ELSE overwritten
      BY <1>2 DEF IntakeRemoves
    <2> HIDE DEF f
    <2>2. \A g \in Files : g # f => /\ Committed'[g] = Committed[g]
                                   /\ analysed'[g] = analysed[g]
      BY <1>1, <2>1 DEF Committed, FactTypes
    <2>3. \A g \in Files : g = f => analysed'[g] = 0
      BY <2>1 DEF FactTypes
    <2>4. \A g \in Files : IsOpen(g) /\ g \notin overwritten' => g # f /\ g \notin overwritten
      BY <2>1
    <2> QED BY <1>1, <2>2, <2>3, <2>4, BackgroundShows DEF ShownInv
  <1>3. CASE IntakePublishes(i)
    <2> DEFINE c == intakes[i].content
    <2>1. /\ index' = [index EXCEPT ![f] = c] /\ analysed' = analysed
          /\ overwritten' = overwritten \cup Differing({f}, [g \in {f} |-> c])
      BY <1>3 DEF IntakePublishes
    <2> HIDE DEF f, c
    <2>2. \A g \in Files : IF g = f THEN Committed'[g] \in {Committed[g], c}
                           ELSE Committed'[g] = Committed[g]
      BY <1>1, <2>1 DEF Committed, FactTypes
    <2>3. ASSUME NEW g \in Files, IsOpen(g), g \notin overwritten'
          PROVE  g \notin overwritten /\ (g = f => c = buffer[g])
      BY <2>1, <2>3 DEF Differing
    <2>4. \A g \in Files : IsOpen(g) /\ g \notin overwritten' =>
            g \notin overwritten /\ Committed'[g] \in {Committed[g], buffer[g]}
      BY <2>2, <2>3
    <2> QED BY <1>1, <2>1, <2>4, BackgroundShows DEF ShownInv
  <1> QED BY <1>2, <1>3

LEMMA EndIntakeShows == ASSUME IInv, ShownInv, NEW i, EndIntake(i) PROVE ShownInv'
  <1> USE DEF IInv
  <1> DEFINE F == {f \in intakes[i].refresh : IsOpen(f)}
  <1>1. /\ Analyse(F, buffer) /\ \A f \in Files : f \in F => buffer[f] \in Contents
        /\ \A f \in Files : f \in F => IsOpen(f)
    BY DEF EndIntake, WorldTypes
  <1> HIDE DEF F
  <1>2. /\ \A f \in Files : f \in F => analysed'[f] = buffer[f]
        /\ \A f \in Files : f \notin F \/ analysed[f] = buffer[f] =>
              analysed'[f] = analysed[f] /\ Committed'[f] = Committed[f]
              /\ (f \in overwritten' <=> f \in overwritten)
        /\ \A f \in Files : f \in F /\ analysed[f] # buffer[f] => Committed'[f] = buffer[f]
        /\ staged = NoBatch => staged' = NoBatch
    BY <1>1, AnalyseShows
  <1>3. UNCHANGED <<disk, clock, buffer, startup>> /\ clock \in Nat
    BY ContentsFacts DEF EndIntake, WorldTypes
  <1> QED BY <1>1, <1>2, <1>3, BackgroundShows DEF ShownInv

\* Steps that leave everything ShownInv speaks of alone.
LEMMA OthersShow ==
  ASSUME ShownInv, UNCHANGED <<disk, clock, buffer, index, staged, analysed, overwritten>>,
         startup' \in {startup, "down"}
  PROVE  ShownInv'
  BY DEF ShownInv, IsOpen, Committed

LEMMA InitShows == Init => ShownInv
  <1> SUFFICES ASSUME Init PROVE ShownInv
    OBVIOUS
  <1>1. \A f \in Files : disk[f] <= clock /\ buffer[f] <= clock /\ analysed[f] <= clock
    BY DEF Init, Old, FirstNew
  <1> QED BY <1>1 DEF Init, ShownInv, IsOpen

LEMMA NextShows == IInv /\ ShownInv /\ [Next]_vars => ShownInv'
  <1> SUFFICES ASSUME IInv, ShownInv, [Next]_vars PROVE ShownInv'
    OBVIOUS
  <1>1. ASSUME NEW f \in Files, Write(f) \/ Delete(f) PROVE ShownInv'
    BY <1>1, DiskShows
  <1>2. ASSUME NEW f \in Edited, Open(f) \/ Edit(f) \/ Save(f) \/ Close(f) \/ Query(f)
        PROVE  ShownInv'
    <2>1. f \in Files
      BY WorkspaceAssumption
    <2> QED BY <1>2, <2>1, EditorShows, DiskShows, CloseShows
  <1>3. CASE Timers
    BY <1>3, OthersShow DEF Timers, Unmoved
  <1>4. CASE Startup
    BY <1>4, RestoreShows, StructuralShows, EndPassShows, EnrichedShows DEF Startup
  <1>5. CASE StartIntake \/ Preempt
    BY <1>5, OthersShow DEF StartIntake, Preempt, IntakeRest
  <1>6. CASE Shutdown
    BY <1>6, OthersShow DEF Shutdown
  <1>7. ASSUME NEW i \in 1 .. MaxIntakes, Intake(i) PROVE ShownInv'
    <2>1. CASE IntakeReads(i)
      BY <2>1, OthersShow DEF IntakeReads, IntakeRest
    <2> QED BY <1>7, <2>1, IntakeShows, EndIntakeShows DEF Intake
  <1>8. CASE UNCHANGED vars
    BY <1>8, OthersShow DEF vars
  <1> QED BY <1>1, <1>2, <1>3, <1>4, <1>5, <1>6, <1>7, <1>8 DEF Next

\* getDocumentAnalysis() may skip the upsert on a hit: in every interleaving of editor,
\* startup task and intakes, the index, or its open batch, has the text of an open
\* document, unless a background writer put something else in its place.
THEOREM OpenDocumentsAlwaysShown == Spec => []OpenDocumentsAreShown
  <1>1. ShownInv => OpenDocumentsAreShown
    BY DEF ShownInv, OpenDocumentsAreShown
  <1> QED BY Invariance, InitShows, NextShows, <1>1, PTL DEF Spec
-----------------------------------------------------------------------------
(* What the index comes to hold of files the editor never opened.          *)

\* The event says whether the file is there, as the disk has it now.
Tells(e) == e.kind = "delete" <=> disk[e.uri] = 0

OneEach(events) == \A i, j \in DOMAIN events : events[i].uri = events[j].uri => i = j

\* An event of f waits, in the window or in a batch behind the k-th.
Later(f, k) ==
  \/ f \in UrisOf(pending)
  \/ \E m \in DOMAIN batches : m > k /\ f \in UrisOf(batches[m])

\* The last event of a file that waits tells the disk.
QueueTells ==
  \A k \in DOMAIN batches :
    /\ OneEach(batches[k])
    /\ \A i \in DOMAIN batches[k] :
         Tells(batches[k][i]) \/ Later(batches[k][i].uri, k)

\* So does an event that an intake has still to work off, and the content it has read
\* is that of the disk, unless a further event of the file waits or another intake has one.
Superseded(f) == Later(f, 0) \/ f \in contended

IntakesTell ==
  /\ \A m \in DOMAIN intakes :
       /\ OneEach(intakes[m].events)
       /\ \A i \in DOMAIN intakes[m].events :
            Tells(intakes[m].events[i]) \/ Superseded(intakes[m].events[i].uri)
       /\ intakes[m].content # Unread =>
            intakes[m].content = disk[Next1(m).uri] \/ Superseded(Next1(m).uri)
  /\ \A m, n \in DOMAIN intakes : \A f \in Files :
       f \in UrisOf(intakes[m].events) /\ f \in UrisOf(intakes[n].events) =>
         m = n \/ f \in contended

Taken(f) == \E m \in DOMAIN intakes : f \in UrisOf(intakes[m].events)

\* Of a file without events the index shows what the disk has.
IndexTells ==
  startup = "done" =>
    \A f \in Files \ (opened \cup failed \cup Ghosts \cup contended) :
      Later(f, 0) \/ Taken(f) \/ index[f] = disk[f]

\* What the startup task knows of f, if no event of it will come.
PassTells(f) ==
  /\ startup = "reading" =>
       \/ captured[f] = Unread
       \/ captured[f] = disk[f] /\ disk[f] # 0
       \/ captured[f] = 0 /\ index[f] = disk[f]
  /\ startup = "enriched" =>
       captured[f] \in {0, disk[f]} /\ index[f] = disk[f] /\ Committed[f] = disk[f]

StartupTells ==
  startup \notin {"done", "down"} =>
    /\ intakes = <<>>
    /\ \A f \in touched : Later(f, 0)
    /\ \A f \in Files \ (opened \cup touched) :
         /\ startup \in {"starting", "restored", "empty"} => index[f] \in {0, saved[f]}
         /\ f \notin failed \cup Ghosts => PassTells(f)

ConvergeInv ==
  /\ \A f \in Files : IsOpen(f) => f \in opened
  /\ touched \subseteq Files
  /\ startup # "down" => QueueTells /\ IntakesTell /\ IndexTells /\ StartupTells

\* Steps that change the files of F on disk, each with an event in the window, and may
\* hand the window over.
LEMMA QueueGrows ==
  ASSUME IInv, QueueTells, NEW F \in SUBSET Files, IInv',
         \A g \in Files \ F : disk'[g] = disk[g],
         \A g \in F : g \in UrisOf(pending'),
         \/ batches' = batches /\ \A g \in UrisOf(pending) : g \in UrisOf(pending')
         \/ batches' = Append(batches, pending) /\ \A g \in F : g \notin UrisOf(pending)
  PROVE  /\ QueueTells'
         /\ \A g \in Files : Later(g, 0) \/ g \in F => Later(g, 0)'
  <1> USE DEF IInv
  <1>1. /\ batches \in Seq(Seq(Event)) /\ Len(batches) \in Nat /\ pending \in Seq(Event)
        /\ DOMAIN batches = 1 .. Len(batches)
    BY DEF WindowInv
  <1>2. CASE batches' = batches
    <2>1. \A g, k : Later(g, k) \/ g \in F => Later(g, k)'
      BY <1>2 DEF Later
    <2>2. ASSUME NEW k \in DOMAIN batches, NEW i \in DOMAIN batches[k]
          PROVE  Tells(batches[k][i])' \/ Later(batches[k][i].uri, k)'
      <3>1. batches[k][i] \in Event
        BY <1>1
      <3>2. batches[k][i].uri \in Files
        BY <3>1, EventFields
      <3>3. CASE batches[k][i].uri \in F
        BY <2>1, <3>3
      <3>4. CASE batches[k][i].uri \notin F
        <4>1. Tells(batches[k][i]) \/ Later(batches[k][i].uri, k)
          BY DEF QueueTells
        <4>2. Tells(batches[k][i]) => Tells(batches[k][i])'
          BY <1>2, <3>2, <3>4 DEF Tells
        <4> QED BY <2>1, <4>1, <4>2
      <3> QED BY <3>3, <3>4
    <2> QED BY <1>2, <2>1, <2>2 DEF QueueTells
  <1>3. CASE batches' = Append(batches, pending) /\ \A g \in F : g \notin UrisOf(pending)
    <2> PICK n \in Nat : n = Len(batches) + 1
      BY <1>1
    <2>1. /\ DOMAIN batches' = DOMAIN batches \cup {n} /\ batches'[n] = pending /\ n \in Nat
          /\ \A k \in DOMAIN batches : batches'[k] = batches[k] /\ k < n /\ k \in Nat
      <3>0. /\ Append(batches, pending) \in Seq(Seq(Event))
            /\ Len(Append(batches, pending)) = Len(batches) + 1
            /\ Append(batches, pending)[Len(batches) + 1] = pending
            /\ \A k \in 1 .. Len(batches) : Append(batches, pending)[k] = batches[k]
        BY <1>1
      <3>1. batches' \in Seq(Seq(Event)) /\ Len(batches') = n /\ batches'[n] = pending
        BY <1>3, <3>0
      <3>2. DOMAIN batches' = 1 .. n
        BY <3>1
      <3>3. \A k \in DOMAIN batches : batches'[k] = batches[k]
        BY <1>1, <1>3, <3>0
      <3>4. /\ 1 .. n = (1 .. Len(batches)) \cup {n}
            /\ \A k \in 1 .. Len(batches) : k < n /\ k \in Nat
        BY <1>1
      <3> QED BY <1>1, <3>1, <3>2, <3>3, <3>4
    <2>7. 0 < n
      BY <1>1
    <2>2. ASSUME NEW g, NEW k, k = 0 \/ k \in DOMAIN batches, Later(g, k) \/ g \in F
          PROVE  Later(g, k)'
      <3>1. CASE g \in F
        BY <3>1 DEF Later
      <3>2. CASE g \in UrisOf(pending)
        <4>1. n > k
          BY <2>1, <2>2, <2>7
        <4> QED BY <2>1, <3>2, <4>1 DEF Later
      <3>3. CASE \E m \in DOMAIN batches : m > k /\ g \in UrisOf(batches[m])
        BY <2>1, <3>3 DEF Later
      <3> QED BY <2>2, <3>1, <3>2, <3>3 DEF Later
    <2>3. ASSUME NEW k \in DOMAIN batches, NEW i \in DOMAIN batches[k]
          PROVE  Tells(batches[k][i])' \/ Later(batches[k][i].uri, k)'
      <3>1. batches[k][i] \in Event
        BY <1>1
      <3>2. batches[k][i].uri \in Files
        BY <3>1, EventFields
      <3>3. CASE batches[k][i].uri \in F
        BY <2>2, <3>3
      <3>4. CASE batches[k][i].uri \notin F
        <4>1. Tells(batches[k][i]) \/ Later(batches[k][i].uri, k)
          BY DEF QueueTells
        <4>2. batches'[k][i] = batches[k][i]
          BY <2>1
        <4>3. Tells(batches[k][i]) => Tells(batches[k][i])'
          BY <3>2, <3>4, <4>2 DEF Tells
        <4>4. Later(batches[k][i].uri, k) => Later(batches[k][i].uri, k)'
          BY <2>2, <4>2
        <4> QED BY <4>1, <4>3, <4>4
      <3> QED BY <3>3, <3>4
    <2>4. ASSUME NEW i \in DOMAIN pending PROVE Tells(batches[n][i])'
      <3>0. pending[i] \in Event /\ pending[i].uri \in UrisOf(pending)
        BY <1>1 DEF UrisOf
      <3>1. pending[i].uri \in Files /\ pending[i].uri \notin F
        BY <1>3, <3>0, EventFields
      <3>2. pending[i].kind = "delete" <=> disk[pending[i].uri] = 0
        BY DEF WindowInv, WindowTellsTheDisk
      <3>3. batches'[n][i] = pending[i]
        BY <2>1
      <3>4. pending[i].kind = "delete" <=> disk'[pending[i].uri] = 0
        BY <3>1, <3>2
      <3> QED BY <3>3, <3>4 DEF Tells
    <2>5. OneEach(batches'[n])
      BY <2>1 DEF WindowInv, WindowTellsTheDisk, OneEach
    <2>6. QueueTells'
      <3>1. ASSUME NEW k \in DOMAIN batches PROVE OneEach(batches'[k])
        BY <2>1 DEF QueueTells
      <3>2. ASSUME NEW k \in DOMAIN batches', NEW i \in DOMAIN batches'[k]
            PROVE  Tells(batches[k][i])' \/ Later(batches[k][i].uri, k)'
        <4>1. CASE k = n
          BY <2>1, <2>4, <3>2, <4>1
        <4>2. CASE k \in DOMAIN batches
          BY <2>1, <2>3, <3>2, <4>2
        <4> QED BY <2>1, <4>1, <4>2
      <3> QED BY <2>1, <2>5, <3>1, <3>2 DEF QueueTells
    <2> QED BY <2>2, <2>6
  <1> QED BY <1>2, <1>3

\* The disk or the window changes, with the events this takes.
LEMMA DiskConverges ==
  ASSUME IInv, IInv', ConvergeInv, NEW F \in SUBSET Files,
         \A g \in Files \ F : disk'[g] = disk[g],
         \A g \in F : g \in UrisOf(pending'),
         \/ batches' = batches /\ \A g \in UrisOf(pending) : g \in UrisOf(pending')
         \/ batches' = Append(batches, pending) /\ \A g \in F : g \notin UrisOf(pending),
         touched' = touched \cup F,
         UNCHANGED <<buffer, saved, startup, captured, index, staged, failed, intakes,
                     opened, contended>>
  PROVE  ConvergeInv'
  <1>1. (\A f \in Files : IsOpen(f)' => f \in opened') /\ touched' \subseteq Files
    BY DEF ConvergeInv, IsOpen
  <1>2. CASE startup = "down"
    BY <1>1, <1>2 DEF ConvergeInv
  <1>3. CASE startup # "down"
    <2>1. QueueTells /\ IntakesTell /\ IndexTells /\ StartupTells
      BY <1>3 DEF ConvergeInv
    <2>2. QueueTells' /\ \A g \in Files : Later(g, 0) \/ g \in F => Later(g, 0)'
      BY <2>1, QueueGrows
    <2>3. \A g \in Files : Superseded(g) \/ g \in F => Superseded(g)'
      BY <2>2 DEF Superseded
    <2>4. \A m : Next1(m)' = Next1(m)
      BY DEF Next1
    <2>5. ASSUME NEW m \in DOMAIN intakes, NEW i \in DOMAIN intakes[m].events
          PROVE  Tells(intakes[m].events[i])' \/ Superseded(intakes[m].events[i].uri)'
      <3>1. intakes[m].events[i] \in Event
        BY IntakeFields DEF IInv
      <3>2. intakes[m].events[i].uri \in Files
        BY <3>1, EventFields
      <3>3. Tells(intakes[m].events[i]) \/ Superseded(intakes[m].events[i].uri)
        BY <2>1 DEF IntakesTell
      <3>4. CASE intakes[m].events[i].uri \in F \/ Superseded(intakes[m].events[i].uri)
        BY <2>3, <3>2, <3>4
      <3>5. CASE intakes[m].events[i].uri \notin F /\ Tells(intakes[m].events[i])
        BY <3>2, <3>5 DEF Tells
      <3> QED BY <3>3, <3>4, <3>5
    <2>6. ASSUME NEW m \in DOMAIN intakes, intakes[m].content # Unread
          PROVE  intakes[m].content = disk'[Next1(m).uri] \/ Superseded(Next1(m).uri)'
      <3>1. Next1(m).uri \in Files
        BY <2>6, HeadOfIntake, IntakeFields DEF IInv
      <3>2. intakes[m].content = disk[Next1(m).uri] \/ Superseded(Next1(m).uri)
        BY <2>1, <2>6 DEF IntakesTell
      <3> QED BY <2>3, <2>4, <3>1, <3>2
    <2>7. IntakesTell'
      BY <2>1, <2>4, <2>5, <2>6 DEF IntakesTell
    <2>8. \A f \in Files \ F : f \in Ghosts' <=> f \in Ghosts
      BY DEF Ghosts
    <2>9. IndexTells'
      <3> SUFFICES ASSUME startup = "done", NEW f \in Files,
                          f \notin opened \cup failed \cup Ghosts' \cup contended
                   PROVE  Later(f, 0)' \/ Taken(f)' \/ index[f] = disk'[f]
        BY DEF IndexTells
      <3>1. CASE f \in F
        BY <2>2, <3>1
      <3>2. CASE f \notin F
        <4>1. Later(f, 0) \/ Taken(f) \/ index[f] = disk[f]
          BY <2>1, <2>8, <3>2 DEF IndexTells
        <4> QED BY <2>2, <3>2, <4>1 DEF Taken
      <3> QED BY <3>1, <3>2
    <2>10. StartupTells'
      <3> SUFFICES ASSUME startup \notin {"done", "down"} PROVE StartupTells'
        BY DEF StartupTells
      <3>1. intakes' = <<>> /\ \A f \in touched' : Later(f, 0)'
        BY <1>1, <2>1, <2>2 DEF StartupTells
      <3>2. ASSUME NEW f \in Files, f \notin opened \cup touched'
            PROVE  /\ startup \in {"starting", "restored", "empty"} => index[f] \in {0, saved[f]}
                   /\ f \notin failed \cup Ghosts' => PassTells(f)'
        <4>1. f \notin F /\ f \notin touched /\ disk'[f] = disk[f] /\ Committed'[f] = Committed[f]
          BY <3>2 DEF Committed
        <4>2. /\ startup \in {"starting", "restored", "empty"} => index[f] \in {0, saved[f]}
              /\ f \notin failed \cup Ghosts => PassTells(f)
          BY <2>1, <3>2, <4>1 DEF StartupTells
        <4> QED BY <2>8, <4>1, <4>2 DEF PassTells
      <3> QED BY <3>1, <3>2 DEF StartupTells
    <2> QED BY <1>1, <2>2, <2>7, <2>9, <2>10 DEF ConvergeInv
  <1> QED BY <1>2, <1>3

\* What push() does to the uris of the window.
LEMMA PushUris ==
  ASSUME WindowInv, WindowInv', NEW f \in Files, NEW kind \in Kinds, Push(f, kind)
  PROVE  /\ f \in UrisOf(pending')
         /\ \/ batches' = batches /\ \A g \in UrisOf(pending) : g \in UrisOf(pending')
            \/ batches' = Append(batches, pending) /\ f \notin UrisOf(pending)
  <1> USE DEF WindowInv
  <1> DEFINE e == [uri |-> f, kind |-> kind]
  <1>1. e \in Event /\ e.uri = f
    BY DEF Event
  <1>2. Waits(f) <=> f \in UrisOf(pending)
    BY DEF Waits, UrisOf
  <1>3. CASE Collect(f, kind) /\ Waits(f)
    <2>1. /\ DOMAIN pending' = DOMAIN pending /\ batches' = batches
          /\ \A i \in DOMAIN pending :
               pending'[i] = IF pending[i].uri = f
                             THEN [pending[i] EXCEPT !.kind = Merge(@, kind)] ELSE pending[i]
      BY <1>3 DEF Collect
    <2>2. ASSUME NEW i \in DOMAIN pending PROVE pending'[i].uri = pending[i].uri
      <3>1. pending[i] \in Event
        OBVIOUS
      <3>2. ASSUME NEW x \in Event, NEW k PROVE [x EXCEPT !.kind = k].uri = x.uri
        BY DEF Event
      <3> DEFINE k == Merge(pending[i].kind, kind)
      <3>3. pending'[i] = IF pending[i].uri = f THEN [pending[i] EXCEPT !.kind = k] ELSE pending[i]
        BY <2>1
      <3> HIDE DEF k
      <3> QED BY <3>1, <3>2, <3>3
    <2>3. UrisOf(pending') = UrisOf(pending)
      BY <2>1, <2>2 DEF UrisOf
    <2> QED BY <1>2, <1>3, <2>1, <2>3
  <1>4. CASE Collect(f, kind) /\ ~Waits(f)
    <2>1. pending' = Append(pending, e) /\ batches' = batches
      BY <1>4 DEF Collect
    <2> HIDE DEF e
    <2>2. /\ DOMAIN pending' = 1 .. (Len(pending) + 1) /\ pending'[Len(pending) + 1] = e
          /\ DOMAIN pending = 1 .. Len(pending) /\ Len(pending) \in Nat
      BY <1>1, <2>1
    <2>3. \A i \in DOMAIN pending : pending'[i] = pending[i]
      BY <1>1, <2>1
    <2>4. \A g \in UrisOf(pending) : g \in UrisOf(pending')
      BY <2>2, <2>3 DEF UrisOf
    <2>5. Len(pending) + 1 \in DOMAIN pending'
      BY <2>2
    <2> QED BY <1>1, <2>1, <2>2, <2>4, <2>5 DEF UrisOf
  <1>5. CASE Overflow(f, kind)
    <2>1. pending' = <<e>> /\ batches' = Append(batches, pending) /\ ~Waits(f)
      BY <1>5 DEF Overflow
    <2>2. 1 \in DOMAIN pending' /\ pending'[1] = e
      BY <2>1
    <2> QED BY <1>1, <1>2, <2>1, <2>2 DEF UrisOf
  <1> QED BY <1>3, <1>4, <1>5 DEF Push

LEMMA WritesConverge ==
  ASSUME IInv, IInv', ConvergeInv, NEW f \in Files, Write(f) \/ Delete(f) \/ Save(f)
  PROVE  ConvergeInv'
  <1>1. PICK kind \in Kinds : Push(f, kind)
    BY DEF Write, Delete, Save, Kinds
  <1>2. /\ f \in UrisOf(pending')
        /\ \/ batches' = batches /\ \A g \in UrisOf(pending) : g \in UrisOf(pending')
           \/ batches' = Append(batches, pending) /\ f \notin UrisOf(pending)
    BY <1>1, PushUris DEF IInv
  <1>3. \A g \in Files \ {f} : disk'[g] = disk[g]
    BY DEF Write, Delete, Save, IInv, WorldTypes
  <1>4. /\ touched' = touched \cup {f}
        /\ UNCHANGED <<buffer, saved, startup, captured, index, staged, failed, intakes,
                       opened, contended>>
    BY DEF Write, Delete, Save
  <1> DEFINE F == {f}
  <1>5. F \in SUBSET Files /\ touched' = touched \cup F /\ \A g : g \in F <=> g = f
    BY <1>4
  <1>6. \A g \in Files \ F : disk'[g] = disk[g]
    BY <1>3
  <1> HIDE DEF F
  <1> QED BY <1>2, <1>4, <1>5, <1>6, DiskConverges

LEMMA TimersConverge == ASSUME IInv, IInv', ConvergeInv, Timers PROVE ConvergeInv'
  <1> DEFINE F == {}
  <1>1. /\ UNCHANGED <<buffer, saved, startup, captured, index, staged, failed, intakes,
                       opened, contended, touched, disk>>
    BY DEF Timers, Unmoved
  <1>2. \/ batches' = batches /\ \A g \in UrisOf(pending) : g \in UrisOf(pending')
        \/ batches' = Append(batches, pending)
    BY DEF Timers, TimerFires, LeakedTimerFires, UrisOf
  <1>3. F \in SUBSET Files /\ touched' = touched \cup F /\ \A g \in F : FALSE
    BY <1>1
  <1> HIDE DEF F
  <1> QED BY <1>1, <1>2, <1>3, DiskConverges

\* A step that changes the index of files the editor has opened only.
LEMMA OpenedConverges ==
  ASSUME ConvergeInv,
         UNCHANGED <<pending, batches, disk, saved, startup, captured, touched>>,
         \A f \in opened : f \in opened',
         \A f \in Files : IsOpen(f)' => f \in opened',
         \A f \in Files \ opened' : index'[f] = index[f] /\ Committed'[f] = Committed[f],
         failed' = failed, contended' = contended,
         \A f \in Files : Taken(f) => Taken(f)',
         startup # "down" /\ IntakesTell => IntakesTell',
         intakes = <<>> => intakes' = <<>>
  PROVE  ConvergeInv'
  <1>1. (\A f \in Files : IsOpen(f)' => f \in opened') /\ touched' \subseteq Files
    BY DEF ConvergeInv
  <1>2. CASE startup = "down"
    BY <1>1, <1>2 DEF ConvergeInv
  <1>3. CASE startup # "down"
    <2>1. QueueTells /\ IntakesTell' /\ IndexTells /\ StartupTells
      BY <1>3 DEF ConvergeInv
    <2>2. \A f, k : Later(f, k)' <=> Later(f, k)
      BY DEF Later
    <2>3. QueueTells'
      BY <2>1, <2>2 DEF QueueTells, Tells
    <2>4. Ghosts' = Ghosts
      BY DEF Ghosts
    <2>5. IndexTells'
      BY <2>1, <2>2, <2>4 DEF IndexTells
    <2>6. StartupTells'
      <3> SUFFICES ASSUME startup \notin {"done", "down"} PROVE StartupTells'
        BY DEF StartupTells
      <3>1. intakes' = <<>> /\ \A f \in touched' : Later(f, 0)'
        BY <2>1, <2>2 DEF StartupTells
      <3>2. ASSUME NEW f \in Files, f \notin opened' \cup touched'
            PROVE  /\ startup \in {"starting", "restored", "empty"} => index'[f] \in {0, saved[f]}
                   /\ f \notin failed \cup Ghosts => PassTells(f)'
        <4>1. f \notin opened \cup touched /\ index'[f] = index[f] /\ Committed'[f] = Committed[f]
          BY <3>2
        <4>2. /\ startup \in {"starting", "restored", "empty"} => index[f] \in {0, saved[f]}
              /\ f \notin failed \cup Ghosts => PassTells(f)
          BY <2>1, <3>2, <4>1 DEF StartupTells
        <4> QED BY <4>1, <4>2 DEF PassTells
      <3> QED BY <2>4, <3>1, <3>2 DEF StartupTells
    <2> QED BY <1>1, <2>1, <2>3, <2>5, <2>6 DEF ConvergeInv
  <1> QED BY <1>2, <1>3

LEMMA AnalyseKeeps ==
  ASSUME FactTypes, NEW F, NEW text, \A f \in Files : f \in F => text[f] \in Contents,
         Analyse(F, text), NEW f \in Files, f \notin F
  PROVE  index'[f] = index[f] /\ Committed'[f] = Committed[f]
  <1>1. Committed'[f] = Committed[f]
    BY AnalyseShows
  <1>2. index'[f] = index[f]
    BY DEF Analyse, Upsert, FactTypes
  <1> QED BY <1>1, <1>2

LEMMA EditorConverges ==
  ASSUME IInv, ConvergeInv, NEW f \in Files, Open(f) \/ Edit(f) \/ Query(f) \/ Close(f)
  PROVE  ConvergeInv'
  <1> USE DEF IInv
  <1>1. UNCHANGED <<pending, batches, disk, saved, startup, captured, touched, failed,
                    contended, intakes>>
    BY DEF Open, Edit, Query, Close, debouncerVars
  <1>2. /\ \A g \in opened : g \in opened'
        /\ \A g \in Files : IsOpen(g)' => g \in opened'
    BY DEF Open, Edit, Query, Close, ConvergeInv, IsOpen, WorldTypes
  <1>3. f \in opened'
    BY DEF Open, Edit, Query, Close, ConvergeInv
  <1>4. ASSUME NEW g \in Files \ opened' PROVE index'[g] = index[g] /\ Committed'[g] = Committed[g]
    <2>1. CASE Close(f)
      BY <2>1 DEF Close, Committed
    <2>2. CASE Open(f) \/ Edit(f) \/ Query(f)
      <3>1. Analyse({f}, buffer') /\ buffer' \in [Files -> Contents]
        BY <2>2, ContentsFacts DEF Open, Edit, Query, WorldTypes
      <3> QED BY <1>3, <3>1, AnalyseKeeps
    <2> QED BY <2>1, <2>2
  <1>5. \A g \in Files : Taken(g) => Taken(g)'
    BY <1>1 DEF Taken
  <1>6. IntakesTell => IntakesTell'
    <2>1. \A g : Superseded(g)' <=> Superseded(g)
      BY <1>1 DEF Superseded, Later
    <2>2. \A m : Next1(m)' = Next1(m)
      BY <1>1 DEF Next1
    <2> QED BY <1>1, <2>1, <2>2 DEF IntakesTell, Tells
  <1> QED BY <1>1, <1>2, <1>4, <1>5, <1>6, OpenedConverges

\* The end of an intake, which analyses open documents.
LEMMA EndIntakeConverges == ASSUME IInv, ConvergeInv, NEW i, EndIntake(i) PROVE ConvergeInv'
  <1> USE DEF IInv
  <1>1. /\ UNCHANGED <<pending, batches, disk, buffer, saved, startup, captured, touched,
                       failed, contended, opened>>
        /\ i \in DOMAIN intakes /\ intakes[i].events = <<>> /\ intakes' = RemoveAt(intakes, i)
    BY DEF EndIntake, Analyse, Upsert
  <1>2. \A f \in Files : IsOpen(f)' => f \in opened'
    BY <1>1 DEF ConvergeInv, IsOpen
  <1> DEFINE F == {f \in intakes[i].refresh : IsOpen(f)}
  <1>3. /\ Analyse(F, buffer) /\ \A f \in Files : f \in F => buffer[f] \in Contents
        /\ \A f \in Files \ opened : f \notin F
    BY DEF EndIntake, WorldTypes, ConvergeInv
  <1> HIDE DEF F
  <1>4. \A f \in Files \ opened' : index'[f] = index[f] /\ Committed'[f] = Committed[f]
    BY <1>1, <1>3, AnalyseKeeps
  <1>5. /\ \A j \in DOMAIN intakes' : \E k \in DOMAIN intakes : intakes'[j] = intakes[k]
        /\ \A k \in DOMAIN intakes : k # i => \E j \in DOMAIN intakes' : intakes'[j] = intakes[k]
        /\ \A j, k \in DOMAIN intakes' : j # k =>
             \E m, n \in DOMAIN intakes :
               m # n /\ intakes'[j] = intakes[m] /\ intakes'[k] = intakes[n]
    BY <1>1, RemoveAtFacts DEF IntakeTypes
  <1>6. \A f \in Files : Taken(f) => Taken(f)'
    <2> SUFFICES ASSUME NEW f, NEW m \in DOMAIN intakes, f \in UrisOf(intakes[m].events)
                 PROVE  Taken(f)'
      BY DEF Taken
    <2>1. m # i
      BY <1>1 DEF UrisOf
    <2> QED BY <1>5, <2>1 DEF Taken
  <1>7. IntakesTell => IntakesTell'
    <2> SUFFICES ASSUME IntakesTell PROVE IntakesTell'
      OBVIOUS
    <2>1. \A g : Superseded(g)' <=> Superseded(g)
      BY <1>1 DEF Superseded, Later
    <2>2. ASSUME NEW j \in DOMAIN intakes'
          PROVE  /\ OneEach(intakes'[j].events)
                 /\ \A n \in DOMAIN intakes'[j].events :
                      Tells(intakes[j].events[n])' \/ Superseded(intakes[j].events[n].uri)'
                 /\ intakes'[j].content # Unread =>
                      intakes'[j].content = disk[Next1(j).uri]' \/ Superseded(Next1(j).uri)'
      <3>1. PICK k \in DOMAIN intakes : intakes'[j] = intakes[k]
        BY <1>5
      <3>2. Next1(j)' = Next1(k)
        BY <3>1 DEF Next1
      <3>3. /\ OneEach(intakes[k].events)
            /\ \A n \in DOMAIN intakes[k].events :
                 Tells(intakes[k].events[n]) \/ Superseded(intakes[k].events[n].uri)
            /\ intakes[k].content # Unread =>
                 intakes[k].content = disk[Next1(k).uri] \/ Superseded(Next1(k).uri)
        BY DEF IntakesTell
      <3> QED BY <1>1, <2>1, <3>1, <3>2, <3>3 DEF Tells
    <2>3. ASSUME NEW j \in DOMAIN intakes', NEW k \in DOMAIN intakes', NEW f \in Files, j # k,
                 f \in UrisOf(intakes'[j].events), f \in UrisOf(intakes'[k].events)
          PROVE  f \in contended'
      <3>1. PICK m, n \in DOMAIN intakes :
              m # n /\ intakes'[j] = intakes[m] /\ intakes'[k] = intakes[n]
        BY <1>5, <2>3
      <3> QED BY <1>1, <2>3, <3>1 DEF IntakesTell
    <2> QED BY <2>2, <2>3 DEF IntakesTell
  <1>8. intakes = <<>> => intakes' = <<>>
    BY <1>1
  <1> QED BY <1>1, <1>2, <1>4, <1>6, <1>7, <1>8, OpenedConverges

\* The startup task: no intake runs yet, and what the window holds stays.
LEMMA StartupConverges ==
  ASSUME ConvergeInv, startup \notin {"done", "down"}, startup' # "down",
         UNCHANGED <<pending, batches, disk, buffer, saved, intakes, contended, touched, opened>>,
         startup' = "done" =>
           \A f \in Files \ (opened \cup touched \cup failed' \cup Ghosts) : index'[f] = disk[f],
         startup' \in {"starting", "restored", "empty"} =>
           \A f \in Files \ (opened \cup touched) : index'[f] \in {0, saved[f]},
         \A f \in Files \ (opened \cup touched \cup failed' \cup Ghosts) : PassTells(f)'
  PROVE  ConvergeInv'
  <1>1. QueueTells /\ StartupTells
    BY DEF ConvergeInv
  <1>2. intakes' = <<>> /\ \A f \in touched : Later(f, 0)
    BY <1>1 DEF StartupTells
  <1>3. \A f, k : Later(f, k)' <=> Later(f, k)
    BY DEF Later
  <1>4. QueueTells'
    BY <1>1, <1>3 DEF QueueTells, Tells
  <1>5. IntakesTell'
    BY <1>2 DEF IntakesTell
  <1>6. Ghosts' = Ghosts
    BY DEF Ghosts
  <1>7. IndexTells'
    BY <1>2, <1>3, <1>6 DEF IndexTells
  <1>8. StartupTells'
    BY <1>2, <1>3, <1>6 DEF StartupTells
  <1> QED BY <1>4, <1>5, <1>7, <1>8 DEF ConvergeInv, IsOpen

LEMMA RestoreConverges == ASSUME IInv, ConvergeInv, EarlyRestore \/ Discover PROVE ConvergeInv'
  <1> USE DEF IInv, StartupRest
  <1>1. /\ UNCHANGED <<pending, batches, disk, buffer, saved, intakes, contended, touched, opened>>
        /\ startup \in {"starting", "restored", "empty"}
    BY DEF EarlyRestore, Discover, debouncerVars
  <1>2. \A f \in Files \ (opened \cup touched) : index[f] \in {0, saved[f]}
    BY <1>1 DEF ConvergeInv, StartupTells
  <1>3. index' \in {index, saved, [f \in Files |-> 0]}
    BY DEF EarlyRestore, Discover, Replace
  <1>4. \A f \in Files \ (opened \cup touched) : index'[f] \in {0, saved[f]}
    BY <1>2, <1>3
  <1>5. CASE EarlyRestore
    <2>1. startup' \in {"restored", "empty"}
      BY <1>5 DEF EarlyRestore
    <2> QED BY <1>1, <1>4, <2>1, StartupConverges DEF PassTells
  <1>6. CASE Discover
    <2>1. /\ files' = {f \in Files : disk[f] # 0}
          /\ captured' = [f \in Files |-> IF f \in files' THEN Unread ELSE 0]
          /\ startup' = IF files' = {} THEN "done" ELSE "reading"
      BY <1>6 DEF Discover
    <2>2. ASSUME NEW f \in Files, f \notin opened \cup touched \cup Ghosts, disk[f] = 0
          PROVE  index'[f] = 0
      BY <1>4, <2>2 DEF Ghosts
    <2>3. ASSUME NEW f \in Files, f \notin opened \cup touched \cup Ghosts
          PROVE  PassTells(f)' /\ (startup' = "done" => index'[f] = disk[f])
      <3>1. CASE disk[f] = 0
        BY <1>1, <2>1, <2>2, <2>3, <3>1 DEF PassTells
      <3>2. CASE disk[f] # 0
        BY <1>1, <2>1, <3>2 DEF PassTells
      <3> QED BY <3>1, <3>2
    <2>4. startup' \in {"done", "reading"}
      BY <2>1
    <2> QED BY <1>1, <2>3, <2>4, StartupConverges
  <1> QED BY <1>5, <1>6

\* What the startup task knows of a file of which no event waits.
LEMMA PassKnows ==
  ASSUME ConvergeInv, startup \in {"reading", "enriched"},
         NEW f \in Files, f \notin opened \cup touched \cup failed \cup Ghosts
  PROVE  PassTells(f)
  BY DEF ConvergeInv, StartupTells

LEMMA PassReadsConverges ==
  ASSUME IInv, ConvergeInv, NEW f \in Files, PassReads(f) PROVE ConvergeInv'
  <1> USE DEF IInv, StartupRest
  <1>1. /\ UNCHANGED <<pending, batches, disk, buffer, saved, intakes, contended, touched, opened>>
        /\ UNCHANGED <<startup, index, staged>> /\ startup = "reading"
    BY DEF PassReads, debouncerVars
  <1>2. \/ /\ disk[f] # 0
           /\ captured' = [captured EXCEPT ![f] = IF index[f] = disk[f] THEN 0 ELSE disk[f]]
           /\ failed' = failed
        \/ /\ captured' = [captured EXCEPT ![f] = 0]
           /\ failed' = failed \cup {f}
    BY DEF PassReads, IsUnchanged
  <1>3. ASSUME NEW g \in Files, g \notin opened \cup touched \cup failed' \cup Ghosts
        PROVE  PassTells(g)'
    <2>1. g \notin failed
      BY <1>2, <1>3
    <2>2. PassTells(g)
      BY <1>1, <1>3, <2>1, PassKnows
    <2>3. CASE g # f
      <3>1. captured'[g] = captured[g]
        BY <1>2, <2>3 DEF WorldTypes
      <3> QED BY <1>1, <2>2, <3>1 DEF PassTells
    <2>4. CASE g = f
      <3>1. captured'[f] = IF index[f] = disk[f] THEN 0 ELSE disk[f]
        BY <1>2, <1>3, <2>4 DEF WorldTypes
      <3>2. disk[f] # 0
        BY <1>2, <1>3, <2>4
      <3> QED BY <1>1, <2>4, <3>1, <3>2 DEF PassTells
    <2> QED BY <2>3, <2>4
  <1> QED BY <1>1, <1>3, StartupConverges

LEMMA StructuralConverges == ASSUME IInv, ConvergeInv, PublishStructural PROVE ConvergeInv'
  <1> USE DEF IInv, StartupRest
  <1>1. /\ UNCHANGED <<pending, batches, disk, buffer, saved, intakes, contended, touched, opened>>
        /\ UNCHANGED <<captured, failed>> /\ startup = "reading" /\ startup' = "enriched"
        /\ index' = [f \in Files |-> IF f \in Read THEN captured[f] ELSE index[f]]
        /\ staged' = NoBatch \/ staged' = [f \in Files |-> Untouched]
    BY DEF PublishStructural, debouncerVars
  <1>2. \A f \in Files : captured[f] # Unread
    BY DEF PublishStructural, WorldTypes, Range
  <1>3. \A f \in Files : Committed'[f] = index'[f]
    BY <1>1 DEF Committed
  <1>4. ASSUME NEW f \in Files, f \notin opened \cup touched \cup failed \cup Ghosts
        PROVE  PassTells(f)'
    <2>1. PassTells(f)
      BY <1>1, <1>4, PassKnows
    <2>2. \/ captured[f] = disk[f] /\ disk[f] # 0
          \/ captured[f] = 0 /\ index[f] = disk[f]
      <3>1. startup = "reading" /\ captured[f] # Unread
        BY <1>1, <1>2
      <3> QED BY <2>1, <3>1 DEF PassTells
    <2>3. index'[f] = disk[f]
      BY <1>1, <2>2 DEF Read
    <2> QED BY <1>1, <1>3, <2>2, <2>3 DEF PassTells
  <1> QED BY <1>1, <1>4, StartupConverges

LEMMA EnrichedConverges ==
  ASSUME IInv, ConvergeInv, NEW f \in Files, PublishEnriched(f) PROVE ConvergeInv'
  <1> USE DEF IInv, StartupRest
  <1>1. /\ UNCHANGED <<pending, batches, disk, buffer, saved, intakes, contended, touched, opened>>
        /\ UNCHANGED startup /\ startup = "enriched" /\ captured[f] # 0 /\ captured[f] \in Contents
        /\ captured' = [captured EXCEPT ![f] = 0]
    BY DEF PublishEnriched, Read, debouncerVars, WorldTypes
  <1>2. \/ Upsert({f}, captured) /\ failed' = failed
        \/ UNCHANGED <<index, staged>> /\ failed' = failed \cup {f}
    BY DEF PublishEnriched
  <1>3. \/ \A g \in Files : /\ Committed'[g] = IF g = f THEN captured[f] ELSE Committed[g]
                            /\ index'[g] \in IF g = f THEN {index[g], captured[f]} ELSE {index[g]}
        \/ \A g \in Files : Committed'[g] = Committed[g] /\ index'[g] = index[g]
    <2>1. CASE Upsert({f}, captured)
      <3>1. \A g \in Files : Committed'[g] = IF g = f THEN captured[f] ELSE Committed[g]
        BY <1>1, <2>1, UpsertShows
      <3>2. \A g \in Files : index'[g] \in IF g = f THEN {index[g], captured[f]} ELSE {index[g]}
        BY <2>1 DEF Upsert
      <3> QED BY <3>1, <3>2
    <2>2. CASE UNCHANGED <<index, staged>>
      BY <2>2 DEF Committed
    <2> QED BY <1>2, <2>1, <2>2
  <1>4. ASSUME NEW g \in Files, g \notin opened \cup touched \cup failed' \cup Ghosts
        PROVE  PassTells(g)'
    <2>1. g \notin failed
      BY <1>2, <1>4
    <2>2. PassTells(g)
      BY <1>1, <1>4, <2>1, PassKnows
    <2>3. captured[g] \in {0, disk[g]} /\ index[g] = disk[g] /\ Committed[g] = disk[g]
      BY <1>1, <2>2 DEF PassTells
    <2>4. captured'[g] \in {0, disk[g]}
      BY <1>1, <2>3 DEF WorldTypes
    <2>5. index'[g] = disk[g] /\ Committed'[g] = disk[g]
      BY <1>1, <1>3, <2>3
    <2> QED BY <1>1, <2>4, <2>5 DEF PassTells
  <1> QED BY <1>1, <1>4, StartupConverges

LEMMA EndPassConverges == ASSUME IInv, ConvergeInv, EndPass PROVE ConvergeInv'
  <1> USE DEF IInv
  <1> DEFINE missed == {f \in Files : IsOpen(f) /\ analysed[f] # buffer[f]}
  <1>1. /\ UNCHANGED <<pending, batches, disk, buffer, saved, intakes, contended, touched, opened>>
        /\ UNCHANGED failed /\ startup = "enriched" /\ startup' = "done"
        /\ index' = [f \in Files |-> IF f \in missed THEN buffer[f] ELSE Committed[f]]
    BY DEF EndPass, debouncerVars
  <1>2. \A f \in Files : f \in missed => f \in opened
    BY DEF ConvergeInv
  <1> HIDE DEF missed
  <1>3. ASSUME NEW f \in Files, f \notin opened \cup touched \cup failed \cup Ghosts
        PROVE  index'[f] = disk[f]
    <2>1. PassTells(f)
      BY <1>1, <1>3, PassKnows
    <2> QED BY <1>1, <1>2, <1>3, <2>1 DEF PassTells
  <1> QED BY <1>1, <1>3, StartupConverges DEF PassTells

\* The events of an intake, when it is through with the first.
LEMMA TailOfEvents ==
  ASSUME NEW q \in Seq(Event), q # <<>>
  PROVE  /\ OneEach(q) => OneEach(Tail(q))
         /\ \A j \in DOMAIN Tail(q) : \E i \in DOMAIN q : Tail(q)[j] = q[i]
         /\ \A f \in UrisOf(q) : f = Head(q).uri \/ f \in UrisOf(Tail(q))
         /\ UrisOf(Tail(q)) \subseteq UrisOf(q)
         /\ 1 \in DOMAIN q /\ Head(q) = q[1]
  <1> DEFINE t == Tail(q)
  <1>1. /\ Len(q) \in Nat /\ Len(q) >= 1 /\ DOMAIN q = 1 .. Len(q) /\ Head(q) = q[1]
        /\ DOMAIN t = 1 .. (Len(q) - 1)
    OBVIOUS
  <1>2. \A j \in DOMAIN t : t[j] = q[j + 1]
    OBVIOUS
  <1> HIDE DEF t
  <1>3. \A j \in DOMAIN t : j + 1 \in DOMAIN q /\ j \in Nat
    BY <1>1
  <1>4. \A i \in DOMAIN q : i = 1 \/ (i - 1 \in DOMAIN t /\ (i - 1) + 1 = i)
    BY <1>1
  <1>5. OneEach(q) => OneEach(t)
    <2> SUFFICES ASSUME OneEach(q), NEW i \in DOMAIN t, NEW j \in DOMAIN t, t[i].uri = t[j].uri
                 PROVE  i = j
      BY DEF OneEach
    <2>1. i + 1 = j + 1
      BY <1>2, <1>3 DEF OneEach
    <2> QED BY <1>3, <2>1
  <1>6. \A j \in DOMAIN t : \E i \in DOMAIN q : t[j] = q[i]
    BY <1>2, <1>3
  <1>7. \A f \in UrisOf(q) : f = Head(q).uri \/ f \in UrisOf(t)
    <2> SUFFICES ASSUME NEW i \in DOMAIN q, i # 1 PROVE q[i].uri \in UrisOf(t)
      BY <1>1 DEF UrisOf
    <2>1. i - 1 \in DOMAIN t /\ t[i - 1] = q[i]
      BY <1>2, <1>4
    <2> QED BY <2>1 DEF UrisOf
  <1>8. UrisOf(t) \subseteq UrisOf(q)
    BY <1>6 DEF UrisOf
  <1> QED BY <1>1, <1>5, <1>6, <1>7, <1>8 DEF t

\* An intake changes one of its fields, keeps its events or goes on to the next.
LEMMA IntakeTells ==
  ASSUME IInv, IntakesTell, UNCHANGED <<pending, batches, disk, contended>>,
         NEW i \in DOMAIN intakes, intakes[i].events # <<>>, NEW new,
         intakes' = [intakes EXCEPT ![i] = new],
         \/ new.events = Tail(intakes[i].events) /\ new.content = Unread
         \/ new.events = intakes[i].events /\ new.content = disk[Next1(i).uri]
  PROVE  /\ IntakesTell'
         /\ \A f \in Files : Taken(f) => f = Next1(i).uri \/ Taken(f)'
  <1> DEFINE q == intakes[i].events
  <1>1. q \in Seq(Event)
    BY IntakeFields DEF IInv
  <1>2. /\ OneEach(q) => OneEach(Tail(q))
        /\ \A j \in DOMAIN Tail(q) : \E n \in DOMAIN q : Tail(q)[j] = q[n]
        /\ \A f \in UrisOf(q) : f = Head(q).uri \/ f \in UrisOf(Tail(q))
        /\ UrisOf(Tail(q)) \subseteq UrisOf(q)
    BY <1>1, TailOfEvents
  <1>3. /\ OneEach(q) => OneEach(new.events)
        /\ \A j \in DOMAIN new.events : \E n \in DOMAIN q : new.events[j] = q[n]
        /\ \A f \in UrisOf(q) : f = Head(q).uri \/ f \in UrisOf(new.events)
        /\ UrisOf(new.events) \subseteq UrisOf(q)
    BY <1>2
  <1>4. /\ intakes'[i] = new /\ DOMAIN intakes' = DOMAIN intakes
        /\ \A m \in DOMAIN intakes : m # i => intakes'[m] = intakes[m]
    BY DEF IInv, IntakeTypes
  <1>5. \A g : Superseded(g)' <=> Superseded(g)
    BY DEF Superseded, Later
  <1>6. ASSUME NEW m \in DOMAIN intakes
        PROVE  /\ OneEach(intakes'[m].events)
               /\ \A n \in DOMAIN intakes'[m].events :
                    Tells(intakes[m].events[n])' \/ Superseded(intakes[m].events[n].uri)'
               /\ intakes'[m].content # Unread =>
                    intakes'[m].content = disk'[Next1(m)'.uri] \/ Superseded(Next1(m).uri)'
    <2>1. /\ OneEach(intakes[m].events)
          /\ \A n \in DOMAIN intakes[m].events :
               Tells(intakes[m].events[n]) \/ Superseded(intakes[m].events[n].uri)
          /\ intakes[m].content # Unread =>
               intakes[m].content = disk[Next1(m).uri] \/ Superseded(Next1(m).uri)
      BY DEF IntakesTell
    <2>2. CASE m # i
      <3>1. intakes'[m] = intakes[m]
        BY <1>4, <2>2
      <3>2. Next1(m)' = Next1(m)
        BY <3>1 DEF Next1
      <3> QED BY <1>5, <2>1, <3>1, <3>2 DEF Tells
    <2>3. CASE m = i
      <3>1. OneEach(new.events)
        BY <1>3, <2>1, <2>3
      <3>2. ASSUME NEW n \in DOMAIN new.events
            PROVE  Tells(intakes[m].events[n])' \/ Superseded(intakes[m].events[n].uri)'
        <4>1. PICK k \in DOMAIN q : new.events[n] = q[k]
          BY <1>3
        <4> QED BY <1>4, <1>5, <2>1, <2>3, <4>1 DEF Tells
      <3>3. new.content # Unread =>
              new.content = disk'[Next1(m)'.uri] \/ Superseded(Next1(m).uri)'
        <4> SUFFICES ASSUME new.content # Unread
                     PROVE  new.content = disk'[Next1(m)'.uri]
          OBVIOUS
        <4>1. new.events = intakes[i].events /\ new.content = disk[Next1(i).uri]
          OBVIOUS
        <4>2. Next1(m)' = Next1(i)
          BY <1>4, <2>3, <4>1 DEF Next1
        <4> QED BY <4>1, <4>2
      <3> QED BY <1>4, <2>3, <3>1, <3>2, <3>3
    <2> QED BY <2>2, <2>3
  <1>7. ASSUME NEW m \in DOMAIN intakes
        PROVE  UrisOf(intakes'[m].events) \subseteq UrisOf(intakes[m].events)
    BY <1>3, <1>4
  <1>8. IntakesTell'
    <2>1. ASSUME NEW m \in DOMAIN intakes, NEW n \in DOMAIN intakes, NEW f \in Files,
                 f \in UrisOf(intakes'[m].events), f \in UrisOf(intakes'[n].events)
          PROVE  m = n \/ f \in contended'
      <3>1. f \in UrisOf(intakes[m].events) /\ f \in UrisOf(intakes[n].events)
        BY <1>7, <2>1
      <3> QED BY <3>1 DEF IntakesTell
    <2> QED BY <1>4, <1>6, <2>1 DEF IntakesTell
  <1>9. \A f \in Files : Taken(f) => f = Next1(i).uri \/ Taken(f)'
    <2> SUFFICES ASSUME NEW f \in Files, NEW m \in DOMAIN intakes,
                        f \in UrisOf(intakes[m].events), f # Next1(i).uri
                 PROVE  Taken(f)'
      BY DEF Taken
    <2>1. f \in UrisOf(intakes'[m].events)
      BY <1>3, <1>4 DEF Next1
    <2> QED BY <1>4, <2>1 DEF Taken
  <1> QED BY <1>8, <1>9

\* A step of an intake that leaves the queue alone.
LEMMA IntakeConverges ==
  ASSUME ConvergeInv, UNCHANGED IntakeRest, UNCHANGED <<batches, contended>>,
         intakes # <<>>, startup # "down" /\ IntakesTell => IntakesTell',
         startup = "done" =>
           \A f \in Files \ (opened \cup failed' \cup Ghosts \cup contended) :
             Later(f, 0) \/ Taken(f)' \/ index'[f] = disk[f]
  PROVE  ConvergeInv'
  <1> USE DEF IntakeRest
  <1>1. (\A f \in Files : IsOpen(f)' => f \in opened') /\ touched' \subseteq Files
    BY DEF ConvergeInv, IsOpen
  <1>2. CASE startup = "down"
    BY <1>1, <1>2 DEF ConvergeInv
  <1>3. CASE startup # "down"
    <2>1. QueueTells /\ IntakesTell /\ startup = "done"
      BY <1>3 DEF ConvergeInv, StartupTells
    <2>2. \A f, k : Later(f, k)' <=> Later(f, k)
      BY DEF Later
    <2>3. QueueTells'
      BY <2>1, <2>2 DEF QueueTells, Tells
    <2>4. Ghosts' = Ghosts
      BY DEF Ghosts
    <2>5. IndexTells'
      BY <2>1, <2>2, <2>4 DEF IndexTells
    <2>6. StartupTells'
      BY <2>1 DEF StartupTells
    <2> QED BY <1>1, <1>3, <2>1, <2>3, <2>5, <2>6 DEF ConvergeInv
  <1> QED BY <1>2, <1>3

\* The next event of an intake tells the disk, of a file of which no other waits.
LEMMA NextEventTells ==
  ASSUME IInv, IntakesTell, NEW i \in DOMAIN intakes, intakes[i].events # <<>>,
         ~Superseded(Next1(i).uri)
  PROVE  Tells(Next1(i))
  <1>1. intakes[i].events \in Seq(Event)
    BY IntakeFields DEF IInv
  <1>2. 1 \in DOMAIN intakes[i].events /\ Next1(i) = intakes[i].events[1]
    BY <1>1, TailOfEvents DEF Next1
  <1> QED BY <1>2 DEF IntakesTell

\* What IndexTells says of the present, while startup is done.
LEMMA IndexKnows ==
  ASSUME ConvergeInv, startup = "done",
         NEW f \in Files, f \notin opened \cup failed \cup Ghosts \cup contended
  PROVE  Later(f, 0) \/ Taken(f) \/ index[f] = disk[f]
  BY DEF ConvergeInv, IndexTells

LEMMA RemovesConverges == ASSUME IInv, ConvergeInv, NEW i, IntakeRemoves(i) PROVE ConvergeInv'
  <1> DEFINE f == Next1(i).uri
  <1>1. /\ i \in DOMAIN intakes /\ intakes[i].events # <<>> /\ Next1(i).kind = "delete"
        /\ intakes # <<>>
    BY DEF IntakeRemoves, At
  <1>2. /\ UNCHANGED IntakeRest /\ UNCHANGED <<batches, contended>>
        /\ index' = [index EXCEPT ![f] = 0] /\ failed' = failed \ {f}
    BY DEF IntakeRemoves
  <1>3. PICK F : Advance(i, F)
    BY DEF IntakeRemoves
  <1>4. ASSUME IntakesTell
        PROVE  IntakesTell' /\ \A g \in Files : Taken(g) => g = f \/ Taken(g)'
    <2> DEFINE new == [events |-> Tail(intakes[i].events), content |-> Unread,
                       refresh |-> intakes[i].refresh \cup F]
    <2>1. /\ intakes' = [intakes EXCEPT ![i] = new]
          /\ new.events = Tail(intakes[i].events) /\ new.content = Unread
      BY <1>3 DEF Advance
    <2> HIDE DEF new
    <2> QED BY <1>1, <1>2, <1>4, <2>1, IntakeTells DEF IntakeRest
  <1>5. ASSUME startup = "done", NEW g \in Files,
               g \notin opened \cup failed' \cup Ghosts \cup contended
        PROVE  Later(g, 0) \/ Taken(g)' \/ index'[g] = disk[g]
    <2>1. IntakesTell
      BY <1>5 DEF ConvergeInv
    <2>2. CASE g = f
      <3>1. ~Later(g, 0) => Tells(Next1(i))
        BY <1>1, <1>5, <2>1, <2>2, NextEventTells DEF Superseded
      <3> QED BY <1>1, <1>2, <2>2, <3>1 DEF Tells, IInv, FactTypes
    <2>3. CASE g # f
      <3>1. index'[g] = index[g] /\ g \notin failed
        BY <1>2, <1>5, <2>3 DEF IInv, FactTypes
      <3>2. Later(g, 0) \/ Taken(g) \/ index[g] = disk[g]
        BY <1>5, <3>1, IndexKnows
      <3> QED BY <1>4, <2>1, <2>3, <3>1, <3>2
    <2> QED BY <2>2, <2>3
  <1> HIDE DEF f
  <1> QED BY <1>1, <1>2, <1>4, <1>5, IntakeConverges

LEMMA ReadsConverges == ASSUME IInv, ConvergeInv, NEW i, IntakeReads(i) PROVE ConvergeInv'
  <1> DEFINE f == Next1(i).uri
             refresh == IF f \in files THEN {} ELSE Files
             new == [events |-> intakes[i].events, content |-> disk[f],
                     refresh |-> intakes[i].refresh \cup refresh]
  <1>1. /\ i \in DOMAIN intakes /\ intakes[i].events # <<>> /\ intakes # <<>>
    BY DEF IntakeReads, At
  <1>2. UNCHANGED IntakeRest /\ UNCHANGED <<batches, contended, index>>
    BY DEF IntakeReads
  <1>3. \/ /\ Advance(i, refresh)
           /\ (IsOpen(f) /\ failed' = failed \ {f}) \/ failed' = failed \cup {f}
        \/ intakes' = [intakes EXCEPT ![i] = new] /\ failed' = failed \ {f}
    BY <1>1 DEF IntakeReads
  <1>4. f \in Files
    BY <1>1, HeadOfIntake DEF IInv
  <1>5. ASSUME IntakesTell
        PROVE  IntakesTell' /\ \A g \in Files : Taken(g) => g = f \/ Taken(g)'
    <2>1. CASE Advance(i, refresh)
      <3> DEFINE next == [events |-> Tail(intakes[i].events), content |-> Unread,
                          refresh |-> intakes[i].refresh \cup refresh]
      <3>1. /\ intakes' = [intakes EXCEPT ![i] = next]
            /\ next.events = Tail(intakes[i].events) /\ next.content = Unread
        BY <2>1 DEF Advance
      <3> HIDE DEF next
      <3> QED BY <1>1, <1>2, <1>5, <3>1, IntakeTells DEF IntakeRest
    <2>2. CASE intakes' = [intakes EXCEPT ![i] = new]
      <3>1. new.events = intakes[i].events /\ new.content = disk[f]
        OBVIOUS
      <3> HIDE DEF new
      <3> QED BY <1>1, <1>2, <1>5, <2>2, <3>1, IntakeTells DEF IntakeRest
    <2> QED BY <1>3, <2>1, <2>2
  <1>6. ASSUME NEW g, g = f, intakes' = [intakes EXCEPT ![i] = new] PROVE Taken(g)'
    <2>1. intakes[i].events \in Seq(Event)
      BY <1>1, IntakeFields DEF IInv
    <2>2. 1 \in DOMAIN intakes[i].events /\ Next1(i) = intakes[i].events[1]
      BY <1>1, <2>1, TailOfEvents DEF Next1
    <2>3. intakes'[i].events = intakes[i].events /\ i \in DOMAIN intakes'
      BY <1>1, <1>6 DEF IInv, IntakeTypes
    <2>4. g \in UrisOf(intakes[i].events)
      BY <1>6, <2>2 DEF UrisOf
    <2> QED BY <2>3, <2>4 DEF Taken
  <1>7. ASSUME startup = "done", NEW g \in Files,
               g \notin opened \cup failed' \cup Ghosts \cup contended
        PROVE  Later(g, 0) \/ Taken(g)' \/ index'[g] = disk[g]
    <2>1. CASE g = f
      <3>1. ~IsOpen(f)
        BY <1>7, <2>1 DEF ConvergeInv
      <3>2. f \notin failed'
        BY <1>7, <2>1
      <3>3. failed' # failed \cup {f}
        BY <3>2
      <3> HIDE DEF f, refresh, new
      <3> QED BY <1>3, <1>6, <2>1, <3>1, <3>3
    <2>2. CASE g # f
      <3>1. g \notin failed
        BY <1>3, <1>7, <2>2
      <3>2. Later(g, 0) \/ Taken(g) \/ index[g] = disk[g]
        BY <1>7, <3>1, IndexKnows
      <3>3. Taken(g) => Taken(g)'
        BY <1>5, <1>7, <2>2 DEF ConvergeInv
      <3> QED BY <1>2, <3>2, <3>3
    <2> QED BY <2>1, <2>2
  <1> HIDE DEF f, refresh, new
  <1> QED BY <1>1, <1>2, <1>5, <1>7, IntakeConverges

LEMMA PublishesConverges ==
  ASSUME IInv, ConvergeInv, NEW i, IntakePublishes(i) PROVE ConvergeInv'
  <1> DEFINE f == Next1(i).uri
  <1>1. /\ i \in DOMAIN intakes /\ intakes[i].content # Unread /\ intakes # <<>>
    BY DEF IntakePublishes
  <1>2. /\ UNCHANGED IntakeRest /\ UNCHANGED <<batches, contended>>
        /\ index' = [index EXCEPT ![f] = intakes[i].content] /\ failed' = failed \ {f}
        /\ Advance(i, {f})
    BY DEF IntakePublishes
  <1>3. intakes[i].events # <<>>
    BY <1>1, IntakeFields DEF IInv
  <1>4. ASSUME IntakesTell
        PROVE  IntakesTell' /\ \A g \in Files : Taken(g) => g = f \/ Taken(g)'
    <2> DEFINE new == [events |-> Tail(intakes[i].events), content |-> Unread,
                       refresh |-> intakes[i].refresh \cup {f}]
    <2>1. /\ intakes' = [intakes EXCEPT ![i] = new]
          /\ new.events = Tail(intakes[i].events) /\ new.content = Unread
      BY <1>2 DEF Advance
    <2> HIDE DEF new
    <2> QED BY <1>1, <1>2, <1>3, <1>4, <2>1, IntakeTells DEF IntakeRest
  <1>5. ASSUME startup = "done", NEW g \in Files,
               g \notin opened \cup failed' \cup Ghosts \cup contended
        PROVE  Later(g, 0) \/ Taken(g)' \/ index'[g] = disk[g]
    <2>1. IntakesTell
      BY <1>5 DEF ConvergeInv
    <2>2. CASE g = f
      <3>1. ~Later(g, 0) => intakes[i].content = disk[f]
        BY <1>1, <1>5, <2>1, <2>2 DEF IntakesTell, Superseded
      <3> QED BY <1>2, <2>2, <3>1 DEF IInv, FactTypes
    <2>3. CASE g # f
      <3>1. index'[g] = index[g] /\ g \notin failed
        BY <1>2, <1>5, <2>3 DEF IInv, FactTypes
      <3>2. Later(g, 0) \/ Taken(g) \/ index[g] = disk[g]
        BY <1>5, <3>1, IndexKnows
      <3> QED BY <1>4, <2>1, <2>3, <3>1, <3>2
    <2> QED BY <2>2, <2>3
  <1> HIDE DEF f
  <1> QED BY <1>1, <1>2, <1>4, <1>5, IntakeConverges

\* The next batch goes to an intake, and what it shares with another is contended.
LEMMA StartConverges == ASSUME IInv, ConvergeInv, StartIntake PROVE ConvergeInv'
  <1> USE DEF IInv, IntakeRest
  <1> DEFINE new == [events |-> Head(batches), content |-> Unread, refresh |-> {}]
             k == Len(intakes) + 1
  <1>1. /\ startup = "done" /\ batches # <<>> /\ intakes' = Append(intakes, new)
        /\ batches' = Tail(batches)
        /\ UNCHANGED <<pending, disk, buffer, saved, startup, captured, index, staged, failed,
                       opened, touched>>
        /\ contended' = contended \cup
             {f \in UrisOf(Head(batches)) : \E i \in DOMAIN intakes : f \in UrisOf(intakes[i].events)}
    BY DEF StartIntake
  <1>2. QueueTells /\ IntakesTell /\ IndexTells
    BY <1>1 DEF ConvergeInv
  <1>3. /\ batches \in Seq(Seq(Event)) /\ Len(batches) \in Nat /\ Len(batches) >= 1
        /\ DOMAIN batches = 1 .. Len(batches)
    BY <1>1 DEF WindowInv
  <1>4. /\ Head(batches) = batches[1] /\ 1 \in DOMAIN batches /\ batches[1] \in Seq(Event)
        /\ DOMAIN batches' = 1 .. (Len(batches) - 1)
        /\ \A m \in DOMAIN batches' : batches'[m] = batches[m + 1]
    BY <1>1, <1>3
  <1>5. /\ \A m \in DOMAIN batches' : m + 1 \in DOMAIN batches /\ m \in Nat
        /\ \A m \in DOMAIN batches : m = 1 \/ (m - 1 \in DOMAIN batches' /\ batches'[m - 1] = batches[m])
    <2>1. PICK n \in Nat : n = Len(batches)
      BY <1>3
    <2>2. DOMAIN batches = 1 .. n /\ DOMAIN batches' = 1 .. (n - 1)
      BY <1>3, <1>4, <2>1
    <2>3. ASSUME NEW m \in DOMAIN batches'
          PROVE  m + 1 \in DOMAIN batches /\ m \in Nat
      BY <2>2
    <2>4. ASSUME NEW m \in DOMAIN batches, m # 1
          PROVE  m - 1 \in DOMAIN batches' /\ batches'[m - 1] = batches[m]
      <3>1. m - 1 \in DOMAIN batches' /\ (m - 1) + 1 = m
        BY <2>2, <2>4
      <3> QED BY <1>4, <3>1
    <2> QED BY <2>3, <2>4
  <1>6. ASSUME NEW f, NEW m \in Nat, Later(f, m + 1) PROVE Later(f, m)'
    <2>1. CASE f \in UrisOf(pending)
      BY <1>1, <2>1 DEF Later
    <2>2. ASSUME NEW n \in DOMAIN batches, n > m + 1, f \in UrisOf(batches[n]) PROVE Later(f, m)'
      <3>1. n - 1 \in DOMAIN batches' /\ batches'[n - 1] = batches[n] /\ n - 1 > m
        BY <1>3, <1>5, <2>2
      <3> QED BY <2>2, <3>1 DEF Later
    <2> QED BY <1>6, <2>1, <2>2 DEF Later
  <1>7. ASSUME NEW f, Later(f, 0) PROVE Later(f, 0)' \/ f \in UrisOf(batches[1])
    <2>1. CASE Later(f, 0 + 1)
      BY <1>6, <2>1
    <2>2. CASE ~Later(f, 1)
      BY <1>3, <1>7, <2>2 DEF Later
    <2> QED BY <2>1, <2>2
  <1>8. QueueTells'
    <2>1. ASSUME NEW m \in DOMAIN batches', NEW i \in DOMAIN batches'[m]
          PROVE  Tells(batches[m][i])' \/ Later(batches[m][i].uri, m)'
      <3>1. m + 1 \in DOMAIN batches /\ m \in Nat /\ batches'[m] = batches[m + 1]
        BY <1>4, <1>5
      <3>2. Tells(batches[m + 1][i]) \/ Later(batches[m + 1][i].uri, m + 1)
        BY <1>2, <2>1, <3>1 DEF QueueTells
      <3>3. Tells(batches[m + 1][i]) => Tells(batches[m][i])'
        BY <1>1, <3>1 DEF Tells
      <3>4. Later(batches[m + 1][i].uri, m + 1) => Later(batches[m][i].uri, m)'
        BY <1>6, <3>1
      <3> QED BY <3>2, <3>3, <3>4
    <2>2. ASSUME NEW m \in DOMAIN batches' PROVE OneEach(batches'[m])
      BY <1>2, <1>4, <1>5 DEF QueueTells
    <2> QED BY <2>1, <2>2 DEF QueueTells
  <1>9. /\ DOMAIN intakes' = DOMAIN intakes \cup {k} /\ intakes'[k] = new
        /\ \A m \in DOMAIN intakes : intakes'[m] = intakes[m] /\ m # k
    <2>1. /\ intakes \in Seq(Intakes) /\ Len(intakes) \in Nat /\ DOMAIN intakes = 1 .. Len(intakes)
      BY DEF IntakeTypes
    <2>2. /\ DOMAIN intakes' = 1 .. k /\ intakes'[k] = new
          /\ \A m \in 1 .. Len(intakes) : intakes'[m] = intakes[m]
      BY <1>1, <2>1
    <2>3. 1 .. k = (1 .. Len(intakes)) \cup {k} /\ k \notin 1 .. Len(intakes)
      BY <2>1
    <2> QED BY <2>1, <2>2, <2>3
  <1>10. new.events = batches[1] /\ new.content = Unread
    BY <1>4
  <1>11. \A f : f \in contended' <=>
            f \in contended \/ (f \in UrisOf(batches[1]) /\ Taken(f))
    BY <1>1, <1>4 DEF Taken
  <1> HIDE DEF new, k
  <1>12. ASSUME NEW f, Superseded(f), Taken(f) PROVE Superseded(f)'
    BY <1>7, <1>11, <1>12 DEF Superseded
  <1>13. IntakesTell'
    <2>1. ASSUME NEW m \in DOMAIN intakes
          PROVE  /\ OneEach(intakes'[m].events)
                 /\ \A i \in DOMAIN intakes'[m].events :
                      Tells(intakes[m].events[i])' \/ Superseded(intakes[m].events[i].uri)'
                 /\ intakes'[m].content # Unread =>
                      intakes'[m].content = disk'[Next1(m)'.uri] \/ Superseded(Next1(m).uri)'
      <3>1. intakes'[m] = intakes[m]
        BY <1>9
      <3>2. Next1(m)' = Next1(m)
        BY <3>1 DEF Next1
      <3>3. ASSUME NEW i \in DOMAIN intakes[m].events
            PROVE  Tells(intakes[m].events[i])' \/ Superseded(intakes[m].events[i].uri)'
        <4>1. Tells(intakes[m].events[i]) \/ Superseded(intakes[m].events[i].uri)
          BY <1>2 DEF IntakesTell
        <4>2. Taken(intakes[m].events[i].uri)
          BY DEF Taken, UrisOf
        <4>3. Tells(intakes[m].events[i]) => Tells(intakes[m].events[i])'
          BY <1>1, <3>1 DEF Tells
        <4>4. Superseded(intakes[m].events[i].uri) => Superseded(intakes[m].events[i].uri)'
          BY <1>12, <3>1, <4>2
        <4> QED BY <4>1, <4>3, <4>4
      <3>4. ASSUME intakes[m].content # Unread
            PROVE  intakes[m].content = disk[Next1(m).uri] \/ Superseded(Next1(m).uri)'
        <4>1. intakes[m].events \in Seq(Event) /\ intakes[m].events # <<>>
          BY <3>4, IntakeFields
        <4>2. Taken(Next1(m).uri)
          BY <4>1, TailOfEvents DEF Taken, UrisOf, Next1
        <4>3. intakes[m].content = disk[Next1(m).uri] \/ Superseded(Next1(m).uri)
          BY <1>2, <3>4 DEF IntakesTell
        <4> QED BY <1>12, <3>2, <4>2, <4>3
      <3>5. OneEach(intakes[m].events)
        BY <1>2 DEF IntakesTell
      <3> QED BY <1>1, <3>1, <3>2, <3>3, <3>4, <3>5
    <2>2. OneEach(batches[1])
      BY <1>2, <1>4 DEF QueueTells
    <2>3. ASSUME NEW i \in DOMAIN batches[1], NEW f, f = batches[1][i].uri
          PROVE  (batches[1][i].kind = "delete" <=> disk'[f] = 0) \/ Later(f, 0)'
      <3>1. Tells(batches[1][i]) \/ Later(f, 0 + 1)
        BY <1>2, <1>4, <2>3 DEF QueueTells
      <3>2. Later(f, 0 + 1) => Later(f, 0)'
        BY <1>6
      <3> QED BY <1>1, <2>3, <3>1, <3>2 DEF Tells
    <2>4. ASSUME NEW m \in DOMAIN intakes', NEW n \in DOMAIN intakes', m # n, NEW f \in Files,
                 f \in UrisOf(intakes'[m].events), f \in UrisOf(intakes'[n].events)
          PROVE  f \in contended'
      <3>1. CASE m \in DOMAIN intakes /\ n \in DOMAIN intakes
        BY <1>2, <1>9, <1>11, <2>4, <3>1 DEF IntakesTell
      <3>2. CASE m = k /\ n \in DOMAIN intakes
        BY <1>9, <1>10, <1>11, <2>4, <3>2 DEF Taken
      <3>3. CASE n = k /\ m \in DOMAIN intakes
        BY <1>9, <1>10, <1>11, <2>4, <3>3 DEF Taken
      <3> QED BY <1>9, <2>4, <3>1, <3>2, <3>3
    <2>5. ASSUME NEW m \in DOMAIN intakes', m = k
          PROVE  /\ OneEach(intakes'[m].events) /\ intakes'[m].content = Unread
                 /\ \A i \in DOMAIN intakes'[m].events :
                      Tells(intakes[m].events[i])' \/ Superseded(intakes[m].events[i].uri)'
      <3>1. intakes'[m].events = batches[1] /\ intakes'[m].content = Unread
        BY <1>9, <1>10, <2>5
      <3>2. ASSUME NEW i \in DOMAIN intakes'[m].events
            PROVE  Tells(intakes[m].events[i])' \/ Superseded(intakes[m].events[i].uri)'
        <4>1. PICK f : f = intakes'[m].events[i].uri
          OBVIOUS
        <4>2. i \in DOMAIN batches[1] /\ f = batches[1][i].uri
          BY <3>1, <3>2, <4>1
        <4>3. (batches[1][i].kind = "delete" <=> disk'[f] = 0) \/ Later(f, 0)'
          BY <2>3, <4>2
        <4> QED BY <3>1, <4>1, <4>3 DEF Tells, Superseded
      <3> QED BY <2>2, <3>1, <3>2
    <2>6. \A m \in DOMAIN intakes' : m \in DOMAIN intakes \/ m = k
      BY <1>9
    <2> QED BY <2>1, <2>4, <2>5, <2>6 DEF IntakesTell
  <1>14. ASSUME NEW f \in Files, Taken(f) \/ f \in UrisOf(batches[1]) PROVE Taken(f)'
    <2>1. CASE Taken(f)
      BY <1>9, <2>1 DEF Taken
    <2>2. CASE f \in UrisOf(batches[1])
      BY <1>9, <1>10, <2>2 DEF Taken
    <2> QED BY <1>14, <2>1, <2>2
  <1>15. IndexTells'
    <2>1. Ghosts' = Ghosts /\ contended \subseteq contended'
      BY <1>1 DEF Ghosts
    <2> QED BY <1>1, <1>2, <1>7, <1>14, <2>1 DEF IndexTells
  <1>16. StartupTells'
    BY <1>1 DEF StartupTells
  <1>17. (\A f \in Files : IsOpen(f)' => f \in opened') /\ touched' \subseteq Files
    BY <1>1 DEF ConvergeInv, IsOpen
  <1> QED BY <1>8, <1>13, <1>15, <1>16, <1>17 DEF ConvergeInv

\* Steps that change nothing of all this, or end the session.
LEMMA OthersConverge ==
  ASSUME ConvergeInv, Preempt \/ Shutdown \/ UNCHANGED vars PROVE ConvergeInv'
  <1>1. (\A f \in Files : IsOpen(f)' => f \in opened') /\ touched' \subseteq Files
    BY DEF ConvergeInv, IsOpen, Preempt, IntakeRest, Shutdown, vars
  <1>2. CASE Shutdown
    BY <1>1, <1>2 DEF Shutdown, ConvergeInv
  <1>3. CASE Preempt \/ UNCHANGED vars
    <2>1. UNCHANGED <<pending, batches, disk, saved, startup, captured, index, staged, failed,
                      intakes, opened, touched, contended>>
      BY <1>3 DEF Preempt, IntakeRest, vars, debouncerVars
    <2>2. \A f, k : Later(f, k)' <=> Later(f, k)
      BY <2>1 DEF Later
    <2>3. /\ Ghosts' = Ghosts /\ \A f : Taken(f)' <=> Taken(f)
          /\ \A f : Superseded(f)' <=> Superseded(f)
          /\ \A e : Tells(e)' <=> Tells(e)
      BY <2>1, <2>2 DEF Ghosts, Taken, Superseded, Tells
    <2>4. /\ \A f : PassTells(f)' <=> PassTells(f)
          /\ \A m : Next1(m)' = Next1(m)
      BY <2>1 DEF PassTells, Next1, Committed
    <2>5. QueueTells' <=> QueueTells
      BY <2>1, <2>2 DEF QueueTells, Tells
    <2>6. IntakesTell' <=> IntakesTell
      BY <2>1, <2>3, <2>4 DEF IntakesTell, Tells
    <2>7. IndexTells' <=> IndexTells
      BY <2>1, <2>2, <2>3 DEF IndexTells
    <2>8. StartupTells' <=> StartupTells
      BY <2>1, <2>2, <2>3, <2>4 DEF StartupTells
    <2> QED BY <1>1, <2>1, <2>5, <2>6, <2>7, <2>8 DEF ConvergeInv
  <1> QED BY <1>2, <1>3

LEMMA InitConverges == Init => ConvergeInv
  <1> SUFFICES ASSUME Init PROVE ConvergeInv
    OBVIOUS
  <1>1. /\ batches = <<>> /\ intakes = <<>> /\ startup = "starting" /\ touched = {}
        /\ index = [f \in Files |-> 0] /\ buffer = index
    BY DEF Init, DebouncerInit
  <1>2. QueueTells /\ IntakesTell
    BY <1>1 DEF QueueTells, IntakesTell
  <1>3. IndexTells /\ StartupTells
    BY <1>1 DEF IndexTells, StartupTells, PassTells
  <1> QED BY <1>1, <1>2, <1>3 DEF ConvergeInv, IsOpen

LEMMA NextConverges == IInv /\ ConvergeInv /\ [Next]_vars => ConvergeInv'
  <1> SUFFICES ASSUME IInv, ConvergeInv, [Next]_vars PROVE ConvergeInv'
    OBVIOUS
  <1>1. IInv'
    BY NextPreserves
  <1>2. ASSUME NEW f \in Files, Write(f) \/ Delete(f) PROVE ConvergeInv'
    BY <1>1, <1>2, WritesConverge
  <1>3. ASSUME NEW f \in Edited, Open(f) \/ Edit(f) \/ Save(f) \/ Close(f) \/ Query(f)
        PROVE  ConvergeInv'
    <2>1. f \in Files
      BY WorkspaceAssumption
    <2> QED BY <1>1, <1>3, <2>1, EditorConverges, WritesConverge
  <1>4. CASE Timers
    BY <1>1, <1>4, TimersConverge
  <1>5. CASE Startup
    BY <1>5, RestoreConverges, StructuralConverges, EndPassConverges, PassReadsConverges,
       EnrichedConverges DEF Startup
  <1>6. CASE StartIntake \/ Preempt \/ Shutdown \/ UNCHANGED vars
    BY <1>6, StartConverges, OthersConverge
  <1>7. ASSUME NEW i \in 1 .. MaxIntakes, Intake(i) PROVE ConvergeInv'
    BY <1>7, RemovesConverges, ReadsConverges, PublishesConverges, EndIntakeConverges DEF Intake
  <1> QED BY <1>2, <1>3, <1>4, <1>5, <1>6, <1>7 DEF Next

\* Once startup is done, no event waits and no intake runs, the index shows of every file
\* the editor never opened what the disk has, whatever was restored, read and published
\* across awaits before; but for files that failed, restored records of files that went
\* while no session ran, and files of which two intakes had events at once.
THEOREM IndexConverges == Spec => []NeverOpenedFilesConverge
  <1>1. ConvergeInv => NeverOpenedFilesConverge
    <2> SUFFICES ASSUME ConvergeInv, Quiet, NEW f \in Files,
                        f \notin opened \cup failed \cup Ghosts \cup contended
                 PROVE  index[f] = disk[f]
      BY DEF NeverOpenedFilesConverge
    <2>1. startup = "done" /\ pending = <<>> /\ batches = <<>> /\ intakes = <<>>
      BY DEF Quiet
    <2>2. ~Later(f, 0) /\ ~Taken(f)
      BY <2>1 DEF Later, Taken, UrisOf
    <2> QED BY <2>1, <2>2, IndexKnows
  <1> QED BY Invariance, InitConverges, NextConverges, <1>1, PTL DEF Spec
=============================================================================
