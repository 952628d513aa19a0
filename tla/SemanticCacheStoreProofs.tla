---------------------- MODULE SemanticCacheStoreProofs ----------------------
(***************************************************************************)
(* Proofs about the semantic cache, for any documents, projects and        *)
(* bounds, as long as the calls of the store take turns.                   *)
(*                                                                         *)
(*   - Inv: no journal ever repeats a number.  It speaks of the journals   *)
(*     on file, in memory and in the write in flight.                      *)
(*   - StoreInv, built on Inv: nothing load() returns is stale, and what   *)
(*     it would return between calls is what the server has.  It says of   *)
(*     every pair of a checkpoint and a journal that a crash may leave     *)
(*     what their replay yields (Sound), how far a checkpoint has come     *)
(*     (Progress), and what the store and its calls know of the files.     *)
(*   - Counts: no number is greater than the number of edits.              *)
(***************************************************************************)
EXTENDS SemanticCacheStoreProperties, FiniteSetTheorems, TLAPS

\* The numbers of a journal grow, and none is above n.
Grows(j) == \A i, k \in DOMAIN j : i < k => j[i].sequence < j[k].sequence
UpTo(j, n) == \A i \in DOMAIN j : j[i].sequence <= n

Types ==
  /\ version \in [Docs -> Nat]
  /\ journal \in [Partitions -> Seq(JournalEntry) \cup {NoFile, Torn}]
  /\ entries \in [Partitions -> Seq(JournalEntry)]
  /\ nextSequence \in [Partitions -> Nat]
  /\ append = NoCall \/ append \in AppendCall

\* The calls take turns, and none outlives the process.
Turns ==
  /\ append = NoCall \/ persist = NoCall
  /\ phase = "down" => append = NoCall /\ persist = NoCall

\* The files, the store and the write in flight all have growing journals, whose numbers
\* the store does not exceed.
JournalsGrow ==
  /\ \A p \in Partitions : journal[p] \notin {NoFile, Torn} => Grows(journal[p])
  /\ \A p \in Partitions : Grows(entries[p]) /\ UpTo(entries[p], nextSequence[p])
  /\ append # NoCall /\ append.step = "writing" =>
       /\ Grows(append.payload) /\ UpTo(append.payload, append.entry.sequence)
       /\ append.part = Workspace => UpTo(entries[Workspace], append.entry.sequence)

Inv == Types /\ Turns /\ JournalsGrow

-----------------------------------------------------------------------------
(* Journals.                                                               *)

LEMMA JournalNumbers ==
  ASSUME NEW j \in Seq(JournalEntry), NEW i \in DOMAIN j PROVE j[i].sequence \in Nat
  <1>1. j[i] \in JournalEntry
    OBVIOUS
  <1> QED BY <1>1 DEF JournalEntry

LEMMA GrowingIsValid ==
  ASSUME NEW j \in Seq(JournalEntry), Grows(j) PROVE ValidJournal(j)
  <1> SUFFICES ASSUME NEW i \in DOMAIN j, NEW k \in DOMAIN j, j[i].sequence = j[k].sequence,
                      i # k
               PROVE  FALSE
    BY DEF ValidJournal
  <1>1. j[i].sequence \in Nat /\ j[k].sequence \in Nat
    BY JournalNumbers
  <1>2. i < k \/ k < i
    OBVIOUS
  <1> QED BY <1>1, <1>2 DEF Grows

LEMMA EmptyJournal == <<>> \in Seq(JournalEntry) /\ Grows(<<>>) /\ \A n : UpTo(<<>>, n)
  BY DEF Grows, UpTo

LEMMA LastIsGreatest ==
  ASSUME NEW j \in Seq(JournalEntry), Grows(j)
  PROVE  LastSequence(j) \in Nat /\ UpTo(j, LastSequence(j))
  <1>1. CASE j = <<>>
    BY <1>1, EmptyJournal DEF LastSequence
  <1>2. CASE j # <<>>
    <2>1. /\ LastSequence(j) = j[Len(j)].sequence /\ Len(j) \in DOMAIN j
          /\ Len(j) \in Nat /\ DOMAIN j = 1 .. Len(j)
      BY <1>2 DEF LastSequence
    <2>2. \A i \in DOMAIN j : j[i].sequence \in Nat
      BY JournalNumbers
    <2>3. \A i \in DOMAIN j : i = Len(j) \/ i < Len(j)
      BY <2>1
    <2> QED BY <2>1, <2>2, <2>3 DEF Grows, UpTo
  <1> QED BY <1>1, <1>2

LEMMA AppendedJournal ==
  ASSUME NEW j \in Seq(JournalEntry), NEW n \in Nat, Grows(j), UpTo(j, n),
         NEW e \in JournalEntry, e.sequence = n + 1
  PROVE  /\ Append(j, e) \in Seq(JournalEntry)
         /\ Grows(Append(j, e)) /\ UpTo(Append(j, e), n + 1)
  <1> DEFINE a == Append(j, e)
  <1>1. /\ a \in Seq(JournalEntry) /\ Len(j) \in Nat
        /\ DOMAIN j = 1 .. Len(j) /\ DOMAIN a = 1 .. (Len(j) + 1)
        /\ a[Len(j) + 1] = e /\ \A i \in DOMAIN j : a[i] = j[i]
    OBVIOUS
  <1> HIDE DEF a
  <1>2. \A i \in DOMAIN j : j[i].sequence \in Nat /\ j[i].sequence <= n
    BY JournalNumbers DEF UpTo
  <1>3. \A i \in DOMAIN a : i \in DOMAIN j \/ i = Len(j) + 1
    BY <1>1
  <1>4. UpTo(a, n + 1)
    BY <1>1, <1>2, <1>3 DEF UpTo
  <1>5. Grows(a)
    <2> SUFFICES ASSUME NEW i \in DOMAIN a, NEW k \in DOMAIN a, i < k
                 PROVE  a[i].sequence < a[k].sequence
      BY DEF Grows
    <2>1. i \in DOMAIN j
      BY <1>1
    <2>2. CASE k \in DOMAIN j
      BY <1>1, <2>1, <2>2 DEF Grows
    <2>3. CASE k = Len(j) + 1
      BY <1>1, <1>2, <2>1, <2>3
    <2> QED BY <1>3, <2>2, <2>3
  <1> QED BY <1>1, <1>4, <1>5 DEF a

LEMMA JournalFacts ==
  ASSUME Types, JournalsGrow, NEW p \in Partitions, journal[p] # Torn
  PROVE  JournalOf(p) \in Seq(JournalEntry) /\ Grows(JournalOf(p))
  <1>1. CASE journal[p] = NoFile
    BY <1>1, EmptyJournal DEF JournalOf
  <1>2. CASE journal[p] # NoFile
    BY <1>2 DEF JournalOf, Types, JournalsGrow
  <1> QED BY <1>1, <1>2

LEMMA InvImplies == Inv => JournalsAreValid
  BY JournalFacts, GrowingIsValid DEF Inv, JournalsAreValid

-----------------------------------------------------------------------------
(* What the steps do to the store and to the files.                        *)

\* The journals of the store are good ones, with numbers to match.
StoreGrows(e, n) ==
  /\ e \in [Partitions -> Seq(JournalEntry)] /\ n \in [Partitions -> Nat]
  /\ \A p \in Partitions : Grows(e[p]) /\ UpTo(e[p], n[p])

\* The journals on file are good ones, absent or torn.
FilesGrow(j) ==
  /\ j \in [Partitions -> Seq(JournalEntry) \cup {NoFile, Torn}]
  /\ \A p \in Partitions : j[p] \notin {NoFile, Torn} => Grows(j[p])

LEMMA InvParts == Inv => StoreGrows(entries, nextSequence) /\ FilesGrow(journal)
  BY DEF Inv, Types, JournalsGrow, StoreGrows, FilesGrow

LEMMA EmptyStore == StoreGrows(NoEntries, NoSequences)
  BY EmptyJournal DEF StoreGrows, NoEntries, NoSequences

LEMMA LoadedStore ==
  ASSUME Inv, NEW mode, NEW matches, LoadMemory(entries, nextSequence, mode, matches)
              \/ LoadMemory(NoEntries, NoSequences, mode, matches)
  PROVE  StoreGrows(entries', nextSequence')
  <1>1. CASE WorkspaceTorn
    BY <1>1, InvParts, EmptyStore DEF LoadMemory
  <1>2. CASE ~WorkspaceTorn
    <2>1. PICK taken \in TakenOver(matches) :
            LET kept(p) == IF p \in taken \cup {Workspace} THEN JournalOf(p) ELSE <<>>
            IN /\ entries' = [p \in Partitions |-> kept(p)]
               /\ nextSequence' = [p \in Partitions |-> LastSequence(kept(p))]
      BY <1>2 DEF LoadMemory
    <2>2. \A p \in taken \cup {Workspace} : journal[p] # Torn
      BY <1>2, <2>1 DEF TakenOver, Restorable, WorkspaceTorn
    <2> DEFINE kept(p) == IF p \in taken \cup {Workspace} THEN JournalOf(p) ELSE <<>>
    <2>3. ASSUME NEW p \in Partitions
          PROVE  kept(p) \in Seq(JournalEntry) /\ Grows(kept(p))
      BY <2>2, JournalFacts, EmptyJournal DEF Inv
    <2>4. ASSUME NEW p \in Partitions
          PROVE  /\ LastSequence(kept(p)) \in Nat
                 /\ UpTo(kept(p), LastSequence(kept(p)))
      BY <2>3, LastIsGreatest
    <2>5. /\ entries' = [p \in Partitions |-> kept(p)]
          /\ nextSequence' = [p \in Partitions |-> LastSequence(kept(p))]
      BY <2>1
    <2> HIDE DEF kept
    <2> QED BY <2>3, <2>4, <2>5 DEF StoreGrows
  <1> QED BY <1>1, <1>2

\* A step with no append in flight after it.
LEMMA QuietSteps ==
  ASSUME Inv, append' = NoCall, StoreGrows(entries', nextSequence'), FilesGrow(journal'),
         version' \in [Docs -> Nat], phase' = "down" => persist' = NoCall
  PROVE  Inv'
  BY DEF Inv, Types, Turns, JournalsGrow, StoreGrows, FilesGrow

\* A step that leaves the store, the journals and the append alone.
LEMMA OtherSteps ==
  ASSUME Inv, UNCHANGED <<entries, nextSequence, journal, append>>,
         version' \in [Docs -> Nat], append = NoCall \/ persist' = NoCall,
         phase' = "down" => append = NoCall /\ persist' = NoCall
  PROVE  Inv'
  BY DEF Inv, Types, Turns, JournalsGrow

-----------------------------------------------------------------------------
(* The steps of an append.                                                 *)

LEMMA MutateSteps ==
  ASSUME ~Overlapping, Inv, NEW d \in Docs, NEW kept \in BOOLEAN, Mutate(d, kept) PROVE Inv'
  <1>1. /\ append = NoCall /\ persist = NoCall /\ phase # "down"
        /\ UNCHANGED <<entries, nextSequence, journal, phase, persist>>
    BY DEF Mutate, MayAppend, files
  <1>2. version \in [Docs -> Nat] /\ version' = [version EXCEPT ![d] = @ + 1]
    BY DEF Mutate, Inv, Types
  <1> DEFINE r == IF kept THEN version[d] + 1 ELSE 0
             e == Entry(0, d, r)
  <1>3. append' = [step |-> "called", entry |-> e, part |-> Workspace, payload |-> <<>>,
                   version |-> version'[d]]
    BY DEF Mutate
  <1>4. e \in JournalEntry
    BY <1>2 DEF Entry, JournalEntry
  <1> HIDE DEF r, e
  <1>5. append' \in AppendCall /\ append'.step = "called"
    BY <1>2, <1>3, <1>4, EmptyJournal DEF AppendCall, Partitions
  <1> QED BY <1>1, <1>2, <1>5 DEF Inv, Types, Turns, JournalsGrow

\* The call takes the next number of its journal.
LEMMA PushSteps == ASSUME Inv, PushEntry PROVE Inv'
  <1> USE DEF Inv
  <1> DEFINE p == PartitionFor(append.entry.doc)
             e == [append.entry EXCEPT !.sequence = NextNumber(p)]
             payload == Append(entries[p], e)
  <1>1. /\ append # NoCall
        /\ append' = [append EXCEPT !.step = "writing", !.entry = e, !.part = p,
                                    !.payload = payload]
        /\ entries' = IF p = Workspace THEN [entries EXCEPT ![p] = payload] ELSE entries
        /\ nextSequence' = IF p = Workspace
                           THEN [nextSequence EXCEPT ![p] = e.sequence] ELSE nextSequence
        /\ UNCHANGED <<journal, version, phase, persist>>
    BY DEF PushEntry, files, ghosts
  <1>2. append \in AppendCall /\ append.entry \in JournalEntry /\ append.entry.doc \in Docs
    <2>1. append \in AppendCall
      BY <1>1 DEF Types
    <2>2. append.entry \in JournalEntry
      BY <2>1 DEF AppendCall
    <2> QED BY <2>1, <2>2 DEF JournalEntry
  <1>3. p \in Partitions
    BY <1>2, StoreAssumption DEF PartitionFor, Partitions
  <1>4. /\ nextSequence[p] \in Nat /\ entries[p] \in Seq(JournalEntry)
        /\ Grows(entries[p]) /\ UpTo(entries[p], nextSequence[p])
    BY <1>3 DEF Types, JournalsGrow
  <1>5. e \in JournalEntry /\ e.sequence = nextSequence[p] + 1
    <2>1. NextNumber(p) = nextSequence[p] + 1 /\ NextNumber(p) \in Nat
      BY <1>4 DEF NextNumber
    <2>2. ASSUME NEW x \in JournalEntry, NEW n \in Nat
          PROVE  /\ [x EXCEPT !.sequence = n] \in JournalEntry
                 /\ [x EXCEPT !.sequence = n].sequence = n
      BY DEF JournalEntry
    <2> HIDE DEF p
    <2> QED BY <1>2, <2>1, <2>2
  <1>6. /\ payload \in Seq(JournalEntry) /\ Grows(payload) /\ UpTo(payload, nextSequence[p] + 1)
    BY <1>4, <1>5, AppendedJournal
  <1>7. Workspace \in Partitions
    BY DEF Partitions
  <1> HIDE DEF p, e, payload
  <1>8. /\ append' \in AppendCall /\ append'.step = "writing" /\ append'.entry = e
        /\ append'.part = p /\ append'.payload = payload
    BY <1>1, <1>2, <1>3, <1>5, <1>6 DEF AppendCall
  <1>9. StoreGrows(entries', nextSequence')
    BY <1>1, <1>3, <1>4, <1>5, <1>6, InvParts DEF StoreGrows
  <1>10. p = Workspace => UpTo(entries'[Workspace], e.sequence)
    BY <1>1, <1>3, <1>5, <1>6 DEF Types
  <1>11. Types'
    BY <1>1, <1>8, <1>9 DEF Types, StoreGrows
  <1>12. JournalsGrow'
    BY <1>1, <1>5, <1>6, <1>8, <1>9, <1>10 DEF JournalsGrow, StoreGrows
  <1>13. Turns'
    BY <1>1 DEF Turns
  <1> QED BY <1>11, <1>12, <1>13

LEMMA EndAppendSteps == ASSUME Inv, EndAppend PROVE Inv'
  <1> USE DEF Inv
  <1> DEFINE p == append.part
             n == append.entry.sequence
  <1>1. /\ append # NoCall /\ append.step = "writing" /\ append' = NoCall
        /\ journal' = [journal EXCEPT ![p] = append.payload]
        /\ entries' = IF p = Workspace THEN entries ELSE [entries EXCEPT ![p] = append.payload]
        /\ nextSequence' = [nextSequence EXCEPT ![p] = n]
        /\ UNCHANGED <<version, phase, persist>>
    BY DEF EndAppend
  <1>2. /\ p \in Partitions /\ n \in Nat /\ append.payload \in Seq(JournalEntry)
        /\ Grows(append.payload) /\ UpTo(append.payload, n)
        /\ p = Workspace => UpTo(entries[Workspace], n)
    <2>1. append \in AppendCall
      BY <1>1 DEF Types
    <2>2. append.entry \in JournalEntry /\ p \in Partitions /\ append.payload \in Seq(JournalEntry)
      BY <2>1 DEF AppendCall
    <2>3. n \in Nat
      BY <2>2 DEF JournalEntry
    <2> QED BY <1>1, <2>2, <2>3 DEF JournalsGrow
  <1> HIDE DEF p, n
  <1>3. FilesGrow(journal')
    BY <1>1, <1>2, InvParts DEF FilesGrow
  <1>4. StoreGrows(entries', nextSequence')
    BY <1>1, <1>2, InvParts DEF StoreGrows
  <1> QED BY <1>1, <1>3, <1>4, QuietSteps DEF Types, Turns

-----------------------------------------------------------------------------
(* The steps of the other calls.                                           *)

LEMMA CheckpointSteps ==
  ASSUME Inv, BeginCheckpoint \/ DeleteManifest \/ DeleteProjects \/ WriteWorkspace
              \/ (\E p \in Projects : WriteProject(p)) \/ WriteManifest \/ DeleteJournal
  PROVE  Inv'
  <1> USE DEF Inv
  <1>1. persist # NoCall
    BY DEF BeginCheckpoint, DeleteManifest, DeleteProjects, WriteWorkspace, WriteProject,
           WriteManifest, DeleteJournal, At
  <1>2. append = NoCall /\ phase # "down"
    BY <1>1 DEF Turns
  <1>3. UNCHANGED <<append, version, phase>>
    BY DEF BeginCheckpoint, DeleteManifest, DeleteProjects, WriteWorkspace, WriteProject,
           WriteManifest, DeleteJournal, ghosts
  <1>4. /\ StoreGrows(entries, nextSequence) /\ FilesGrow(journal)
        /\ Workspace \in Partitions /\ Projects \subseteq Partitions
    BY InvParts DEF Partitions
  <1>5. FilesGrow(journal')
    <2>1. CASE DeleteProjects
      BY <1>4, <2>1 DEF DeleteProjects, OnlyWorkspace, FilesGrow
    <2>2. CASE DeleteJournal
      BY <1>4, <2>2 DEF DeleteJournal, FilesGrow
    <2>3. CASE ~DeleteProjects /\ ~DeleteJournal
      BY <1>4, <2>3 DEF BeginCheckpoint, DeleteManifest, WriteWorkspace, WriteProject,
                        WriteManifest, files
    <2> QED BY <2>1, <2>2, <2>3
  <1>6. StoreGrows(entries', nextSequence')
    <2>1. CASE BeginCheckpoint
      BY <1>4, <2>1, EmptyJournal DEF BeginCheckpoint, OnlyWorkspace, StoreGrows
    <2>2. ASSUME NEW p \in Projects, WriteProject(p) PROVE StoreGrows(entries', nextSequence')
      BY <1>4, <2>2, EmptyJournal DEF WriteProject, StoreGrows
    <2>3. CASE ResetJournal
      BY <1>4, <2>3, EmptyJournal DEF ResetJournal, StoreGrows
    <2>4. CASE UNCHANGED <<entries, nextSequence>>
      BY <1>4, <2>4
    <2>5. CASE DeleteManifest \/ DeleteProjects \/ DeleteJournal
      BY <2>4, <2>5 DEF DeleteManifest, DeleteProjects, DeleteJournal, memory
    <2>6. CASE WriteWorkspace \/ WriteManifest
      BY <2>3, <2>4, <2>6 DEF WriteWorkspace, WriteManifest
    <2> QED BY <2>1, <2>2, <2>5, <2>6
  <1> QED BY <1>2, <1>3, <1>5, <1>6, QuietSteps DEF Types

LEMMA LoadSteps == ASSUME ~Overlapping, Inv, Compact \/ Validate PROVE Inv'
  <1> USE DEF Inv
  <1>1. append = NoCall /\ phase # "down" /\ UNCHANGED <<append, version, phase, journal>>
    BY DEF Compact, Validate, MayCall, At, Turns, files, ghosts
  <1>2. LoadMemory(entries, nextSequence, partitioned, TRUE)
    BY DEF Compact, Validate
  <1>3. StoreGrows(entries', nextSequence')
    BY <1>2, LoadedStore
  <1> QED BY <1>1, <1>3, InvParts, QuietSteps DEF Types

LEMMA ClearSteps == ASSUME ~Overlapping, Inv, BeginClear \/ EndClear PROVE Inv'
  <1> USE DEF Inv
  <1>1. CASE BeginClear
    <2>1. /\ append = NoCall /\ phase # "down" /\ UNCHANGED <<append, version, phase, journal>>
          /\ entries' = NoEntries /\ nextSequence' = NoSequences
      BY <1>1 DEF BeginClear, MayCall, files, ghosts
    <2> QED BY <2>1, EmptyStore, InvParts, QuietSteps DEF Types
  <1>2. CASE EndClear
    <2>1. /\ append = NoCall /\ persist' = NoCall
          /\ UNCHANGED <<append, version, entries, nextSequence>>
          /\ journal' = [p \in Partitions |-> NoFile]
      BY <1>2 DEF EndClear, At, Turns, memory
    <2>2. FilesGrow(journal')
      BY <2>1 DEF FilesGrow
    <2> QED BY <2>1, <2>2, InvParts, QuietSteps DEF Types
  <1> QED BY <1>1, <1>2

LEMMA OpenSteps ==
  ASSUME Inv, Start \/ (\E known, matches \in BOOLEAN : Discover(known, matches)) PROVE Inv'
  <1> USE DEF Inv
  <1>1. /\ append = NoCall /\ append' = NoCall /\ phase' # "down"
        /\ UNCHANGED <<version, journal>>
    BY DEF Start, Discover, Turns, files
  <1>2. PICK matches : OpenStore(matches)
    BY DEF Start, Discover
  <1>3. StoreGrows(entries', nextSequence')
    BY <1>2, LoadedStore DEF OpenStore
  <1> QED BY <1>1, <1>3, InvParts, QuietSteps DEF Types

\* What is left of the files by a call cut short.
LEMMA InterruptedFiles == ASSUME Inv, Interrupted PROVE FilesGrow(journal')
  <1>1. FilesGrow(journal)
    BY InvParts
  <1>2. CASE journal' = journal
    BY <1>1, <1>2
  <1>3. ASSUME append # NoCall, journal' = [journal EXCEPT ![append.part] = Torn]
        PROVE  FilesGrow(journal')
    BY <1>1, <1>3 DEF FilesGrow
  <1>4. ASSUME NEW j, journal' = [p \in Partitions |-> IF p \in j THEN NoFile ELSE journal[p]]
        PROVE  FilesGrow(journal')
    BY <1>1, <1>4 DEF FilesGrow
  <1> QED BY <1>2, <1>3, <1>4 DEF Interrupted, files

LEMMA FailSteps == ASSUME Inv, FailCheckpoint \/ Crash PROVE Inv'
  <1> USE DEF Inv
  <1>1. CASE FailCheckpoint
    <2>1. /\ append = NoCall /\ persist' = NoCall /\ UNCHANGED <<append, version>>
          /\ UNCHANGED <<entries, nextSequence>> /\ FilesGrow(journal')
      BY <1>1, InterruptedFiles DEF FailCheckpoint, Turns, memory
    <2> QED BY <2>1, InvParts, QuietSteps DEF Types
  <1>2. CASE Crash
    <2>1. /\ append' = NoCall /\ persist' = NoCall /\ version' = version
          /\ entries' = NoEntries /\ nextSequence' = NoSequences /\ FilesGrow(journal')
      BY <1>2, InterruptedFiles DEF Crash
    <2> QED BY <2>1, EmptyStore, QuietSteps DEF Types
  <1> QED BY <1>1, <1>2

LEMMA RemainingSteps ==
  ASSUME ~Overlapping, Inv, (\E d \in Docs : IndexUnlogged(d)) \/ SaveCheckpoint \/ UNCHANGED vars
  PROVE  Inv'
  <1> USE DEF Inv
  <1>1. CASE \E d \in Docs : IndexUnlogged(d)
    <2>1. /\ UNCHANGED <<entries, nextSequence, journal, append, persist, phase>>
          /\ version' \in [Docs -> Nat]
      BY <1>1 DEF IndexUnlogged, files, memory, Types
    <2> QED BY <2>1, OtherSteps DEF Turns
  <1>2. CASE SaveCheckpoint
    <2>1. /\ UNCHANGED <<entries, nextSequence, journal, append, version, phase>>
          /\ append = NoCall /\ phase # "down"
      BY <1>2 DEF SaveCheckpoint, MayCall, files, memory, ghosts
    <2> QED BY <2>1, OtherSteps DEF Types
  <1>3. CASE UNCHANGED vars
    <2>1. UNCHANGED <<entries, nextSequence, journal, append, persist, phase, version>>
      BY <1>3 DEF vars, files, memory, ghosts
    <2> QED BY <2>1, OtherSteps DEF Types, Turns
  <1> QED BY <1>1, <1>2, <1>3

-----------------------------------------------------------------------------

LEMMA InitEstablishes == Init => Inv
  <1> SUFFICES ASSUME Init PROVE Inv
    OBVIOUS
  <1>1. /\ append = NoCall /\ persist = NoCall /\ version \in [Docs -> Nat]
        /\ entries = NoEntries /\ nextSequence = NoSequences
        /\ journal = [p \in Partitions |-> NoFile]
    BY DEF Init, Nowhere
  <1>2. StoreGrows(entries, nextSequence) /\ FilesGrow(journal)
    BY <1>1, EmptyStore DEF FilesGrow
  <1> QED BY <1>1, <1>2 DEF Inv, Types, Turns, JournalsGrow, StoreGrows, FilesGrow

LEMMA NextPreserves == ASSUME ~Overlapping PROVE Inv /\ [Next]_vars => Inv'
  <1> SUFFICES ASSUME Inv, [Next]_vars PROVE Inv'
    OBVIOUS
  <1>1. ASSUME NEW d \in Docs, NEW kept \in BOOLEAN, Mutate(d, kept) PROVE Inv'
    BY <1>1, MutateSteps
  <1>2. CASE PushEntry \/ EndAppend
    BY <1>2, PushSteps, EndAppendSteps
  <1>3. CASE BeginCheckpoint \/ DeleteManifest \/ DeleteProjects \/ WriteWorkspace
             \/ (\E p \in Projects : WriteProject(p)) \/ WriteManifest \/ DeleteJournal
    BY <1>3, CheckpointSteps
  <1>4. CASE Compact \/ Validate \/ BeginClear \/ EndClear
    BY <1>4, LoadSteps, ClearSteps
  <1>5. CASE Start \/ \E known, matches \in BOOLEAN : Discover(known, matches)
    BY <1>5, OpenSteps
  <1>6. CASE FailCheckpoint \/ Crash
    BY <1>6, FailSteps
  <1>7. CASE (\E d \in Docs : IndexUnlogged(d)) \/ SaveCheckpoint \/ UNCHANGED vars
    BY <1>7, RemainingSteps
  <1> QED BY <1>1, <1>2, <1>3, <1>4, <1>5, <1>6, <1>7 DEF Next

\* While appends and checkpoints take turns no journal ever repeats a number, whatever
\* crashed or failed between two of its writes and however often the store was opened:
\* load() never refuses a journal for its sequence.
THEOREM JournalsAreAlwaysValid == ASSUME ~Overlapping PROVE Spec => []JournalsAreValid
  BY InitEstablishes, NextPreserves, InvImplies, PTL DEF Spec

-----------------------------------------------------------------------------
(* What a journal makes of a checkpoint.                                   *)

Mentions(j, d) == \E i \in DOMAIN j : j[i].doc = d

\* A nonempty set of numbers has a least.
LEMMA LeastNumber == ASSUME NEW T \in SUBSET Nat, T # {} PROVE \E n \in T : \A m \in T : n <= m
  <1> DEFINE F == {0 .. n : n \in T}
  <1>1. \A A \in F : A \in FiniteSubsetsOf(Nat)
    <2>1. ASSUME NEW n \in T PROVE 0 .. n \subseteq Nat /\ IsFiniteSet(0 .. n)
      <3>1. 0 \in Int /\ n \in Int
        OBVIOUS
      <3> QED BY <3>1, FS_Interval
    <2> QED BY <2>1 DEF FiniteSubsetsOf
  <1>2. F # {}
    OBVIOUS
  <1>3. PICK A \in F : \A B \in F : <<B, A>> \notin StrictSubsetOrdering(Nat)
    <2> HIDE DEF F
    <2>1. F \subseteq FiniteSubsetsOf(Nat)
      BY <1>1
    <2> QED BY <1>2, <2>1, FS_StrictSubsetOrderingWellFounded, WFMin
  <1>4. PICK n \in T : A = 0 .. n
    BY <1>3
  <1>5. ASSUME NEW m \in T, m < n PROVE FALSE
    <2>1. 0 .. m \in F /\ 0 .. m \subseteq A /\ n \in A /\ n \notin 0 .. m
      BY <1>4, <1>5
    <2> QED BY <1>1, <1>3, <2>1 DEF StrictSubsetOrdering, FiniteSubsetsOf
  <1> QED BY <1>5

LEMMA LastMention ==
  ASSUME NEW j \in Seq(JournalEntry), NEW d, Mentions(j, d)
  PROVE  \E i \in DOMAIN j : j[i].doc = d /\ \A k \in DOMAIN j : j[k].doc = d => k <= i
  <1>1. PICK n \in Nat : n = Len(j) /\ DOMAIN j = 1 .. n
    OBVIOUS
  <1> DEFINE T == {n - i : i \in {k \in 1 .. n : j[k].doc = d}}
  <1>2. T \in SUBSET Nat /\ T # {}
    BY <1>1 DEF Mentions
  <1>3. PICK m \in T : \A l \in T : m <= l
    <2> HIDE DEF T
    <2> QED BY <1>2, LeastNumber
  <1>4. PICK i \in 1 .. n : m = n - i /\ j[i].doc = d
    BY <1>3
  <1>5. ASSUME NEW k \in 1 .. n, j[k].doc = d PROVE k <= i
    <2>1. n - k \in T
      BY <1>5
    <2>2. n - i <= n - k
      BY <1>3, <1>4, <2>1
    <2> QED BY <2>2
  <1> QED BY <1>1, <1>4, <1>5

\* The last entry that j has of d has the record r.
LastOf(j, d, r) ==
  \E i \in DOMAIN j : /\ j[i].doc = d /\ j[i].record = r
                      /\ \A k \in DOMAIN j : j[k].doc = d => k <= i

LEMMA ReplayWithout ==
  ASSUME NEW j, NEW docs, NEW d \in Docs, ~Mentions(j, d) PROVE Replay(docs, j)[d] = docs[d]
  BY DEF Mentions, Replay

\* The last entry of a document decides, whatever the checkpoint says.
LEMMA ReplayLast ==
  ASSUME NEW j \in Seq(JournalEntry), Grows(j), NEW docs, NEW d \in Docs, Mentions(j, d)
  PROVE  LastOf(j, d, Replay(docs, j)[d])
  <1> DEFINE of == {i \in DOMAIN j : j[i].doc = d}
             Last(i) == \A k \in of : j[k].sequence <= j[i].sequence
             last == CHOOSE i \in of : Last(i)
  <1>1. Replay(docs, j)[d] = j[last].record
    BY DEF Mentions, Replay
  <1>2. \A i \in DOMAIN j : i \in Nat /\ j[i].sequence \in Nat
    BY JournalNumbers
  <1>3. PICK i \in of : \A k \in of : k <= i
    BY LastMention
  <1>4. \A k \in of : k = i \/ j[k].sequence < j[i].sequence
    <2>1. \A k \in of : k = i \/ k < i
      BY <1>2, <1>3
    <2> QED BY <1>3, <2>1 DEF Grows
  <1>5. Last(i)
    BY <1>2, <1>3, <1>4
  <1>6. last \in of /\ Last(last)
    <2> HIDE DEF of, Last
    <2> QED BY <1>3, <1>5
  <1>7. last = i
    <2>1. j[i].sequence <= j[last].sequence /\ j[last].sequence \in Nat /\ j[i].sequence \in Nat
      BY <1>2, <1>3, <1>6
    <2> HIDE DEF last
    <2> QED BY <1>4, <1>6, <2>1
  <1> QED BY <1>1, <1>3, <1>7 DEF LastOf

LEMMA ReplayIgnores ==
  ASSUME NEW j, NEW d \in Docs, Mentions(j, d), NEW docs, NEW other
  PROVE  Replay(docs, j)[d] = Replay(other, j)[d]
  BY DEF Mentions, Replay

LEMMA ReplayEmpty == \A docs : \A d \in Docs : Replay(docs, <<>>)[d] = docs[d]
  <1>1. \A d : ~Mentions(<<>>, d)
    BY DEF Mentions
  <1> QED BY <1>1, ReplayWithout

\* An entry appended decides for its document and changes nothing for others.
LEMMA ReplayAppended ==
  ASSUME NEW j \in Seq(JournalEntry), NEW e \in JournalEntry, Grows(j), Grows(Append(j, e)),
         NEW docs, NEW d \in Docs
  PROVE  Replay(docs, Append(j, e))[d] = IF d = e.doc THEN e.record ELSE Replay(docs, j)[d]
  <1>1. PICK n \in Nat : n = Len(j) /\ DOMAIN j = 1 .. n
    OBVIOUS
  <1>2. PICK a : a = Append(j, e)
    OBVIOUS
  <1>3. /\ a \in Seq(JournalEntry) /\ DOMAIN a = 1 .. (n + 1) /\ a[n + 1] = e
        /\ \A i \in 1 .. n : a[i] = j[i]
    BY <1>1, <1>2
  <1>4. Grows(a)
    BY <1>2
  <1>5. CASE d = e.doc
    <2>1. n + 1 \in DOMAIN a /\ Mentions(a, d)
      BY <1>3, <1>5 DEF Mentions
    <2>2. LastOf(a, d, Replay(docs, a)[d])
      BY <1>3, <1>4, <2>1, ReplayLast
    <2>3. PICK i \in DOMAIN a : /\ Replay(docs, a)[d] = a[i].record
                                /\ \A k \in DOMAIN a : a[k].doc = d => k <= i
      BY <2>2 DEF LastOf
    <2>4. i = n + 1
      BY <1>3, <1>5, <2>1, <2>3
    <2> QED BY <1>2, <1>3, <1>5, <2>3, <2>4
  <1>6. CASE d # e.doc
    <2>1. \A i \in DOMAIN a : a[i].doc = d => i \in DOMAIN j /\ a[i] = j[i]
      BY <1>1, <1>3, <1>6
    <2>2. \A i \in DOMAIN j : i \in DOMAIN a /\ a[i] = j[i] /\ i \in Nat
      BY <1>1, <1>3
    <2>3. CASE Mentions(j, d)
      <3>1. Mentions(a, d)
        BY <2>2, <2>3 DEF Mentions
      <3>2. LastOf(a, d, Replay(docs, a)[d])
        BY <1>3, <1>4, <3>1, ReplayLast
      <3>3. LastOf(j, d, Replay(docs, j)[d])
        BY <2>3, ReplayLast
      <3>4. PICK i \in DOMAIN a : /\ a[i].doc = d /\ Replay(docs, a)[d] = a[i].record
                                  /\ \A k \in DOMAIN a : a[k].doc = d => k <= i
        BY <3>2 DEF LastOf
      <3>5. PICK l \in DOMAIN j : /\ j[l].doc = d /\ Replay(docs, j)[d] = j[l].record
                                  /\ \A k \in DOMAIN j : j[k].doc = d => k <= l
        BY <3>3 DEF LastOf
      <3>6. i = l
        BY <2>1, <2>2, <3>4, <3>5
      <3> QED BY <1>2, <1>6, <2>2, <3>4, <3>5, <3>6
    <2>4. CASE ~Mentions(j, d)
      <3>1. ~Mentions(a, d)
        BY <2>1, <2>4 DEF Mentions
      <3>2. Replay(docs, a)[d] = docs[d]
        BY <3>1, ReplayWithout
      <3>3. Replay(docs, j)[d] = docs[d]
        BY <2>4, ReplayWithout
      <3> QED BY <1>2, <1>6, <3>2, <3>3
    <2> QED BY <2>3, <2>4
  <1> QED BY <1>5, <1>6

-----------------------------------------------------------------------------
(* What may be restored.                                                   *)

Good == integrity \notin {"torn", "failed"}

Writing == append # NoCall /\ append.step = "writing"

Whole(c) == c \notin {NoFile, Torn}

Text(j) == IF j = NoFile THEN <<>> ELSE j

\* The types of the files and of what the store and the server know.
FileTypes ==
  /\ checkpoint \in [Partitions -> [Docs -> Nat] \cup {NoFile, Torn}]
  /\ manifest \in (SUBSET Projects) \cup {NoFile, Torn}
  /\ persist = NoCall \/ persist \in StoreCall
  /\ partitioned \in BOOLEAN /\ model \in BOOLEAN /\ restored \in BOOLEAN
  /\ phase \in {"down", "early", "up"} /\ (phase = "early" => ~model)
  /\ cache \in [Docs -> Nat] /\ durable \in [Docs -> Nat]
  /\ unlogged \subseteq Docs /\ unread \subseteq Docs
  /\ integrity \in {"intact", "open", "torn", "failed"}

\* No record is newer than the last version, and each is where its document belongs.
Belongs(ver, j, p) ==
  \A i \in DOMAIN j : p \in {Workspace, ProjectOf[j[i].doc]} /\ j[i].record <= ver[j[i].doc]

Fits(ver, c, p) ==
  \A d \in Docs : c[d] <= ver[d] /\ (c[d] # 0 => p \in {Workspace, ProjectOf[d]})

Bounded(ver, docs) == \A d \in Docs : docs[d] <= ver[d]

Placed ==
  /\ \A p \in Partitions : /\ Whole(checkpoint[p]) => Fits(version, checkpoint[p], p)
                           /\ journal[p] # Torn => Belongs(version, Text(journal[p]), p)
                           /\ Belongs(version, entries[p], p)
  /\ Writing => Belongs(version, append.payload, append.part)
  /\ Bounded(version, cache) /\ Bounded(version, durable)

\* The checkpoint of the workspace has no document of a project that is listed.
Apart ==
  Whole(checkpoint[Workspace]) =>
    \A d \in Docs : ProjectOf[d] \in Listed => checkpoint[Workspace][d] = 0

\* How far a checkpoint has come.
Progress ==
  persist # NoCall =>
    LET docs == persist.docs
        made == ProjectsOf(docs)
        after(steps) == persist.step \in steps
    IN /\ Bounded(version, docs)
       /\ after({"clear"}) <=> persist.kind = "clear"
       /\ after({"clear"}) => entries = NoEntries /\ ~partitioned /\ docs = Nowhere
       /\ ~after({"begin", "clear"}) =>
            partitioned = model /\ \A p \in Projects : entries[p] = <<>>
       /\ after({"begin", "manifest", "projects", "checkpoint"}) => persist.rest = made
       /\ persist.rest \subseteq made
       /\ after({"manifest"}) => ~model
       /\ after({"project"}) => model
       /\ after({"validate"}) => persist.kind = "compaction"
       /\ after({"projects", "checkpoint", "journal", "validate"}) /\ ~model => manifest = NoFile
       /\ after({"checkpoint", "project", "journal", "validate"}) =>
            \A p \in Projects : journal[p] = NoFile
       /\ after({"checkpoint"}) => \A p \in Projects : checkpoint[p] = NoFile
       /\ after({"project"}) => \A p \in persist.rest : checkpoint[p] = NoFile
       /\ after({"project", "journal", "validate"}) =>
            /\ checkpoint[Workspace] = IF model THEN DocsOf(docs, Workspace) ELSE docs
            /\ model => \A p \in Projects : checkpoint[p] =
                 IF p \in made /\ ~(after({"project"}) /\ p \in persist.rest)
                 THEN DocsOf(docs, p) ELSE NoFile
       /\ after({"journal", "validate"}) =>
            (model => manifest = made) /\ entries[Workspace] = <<>>
       /\ after({"validate"}) => journal[Workspace] = NoFile

\* A record that may be restored is none, or as new as what was acknowledged; and
\* the last entry of a document is, whatever checkpoint comes before its journal.
Current(dur, docs) == \A d \in Docs : docs[d] = 0 \/ dur[d] <= docs[d]

Sound(dur, c, j) ==
  j # Torn => /\ Current(dur, Replay(Nowhere, Text(j)))
              /\ Whole(c) => Current(dur, Replay(c, Text(j)))

FilesTell ==
  Good => \A p \in Listed \cup {Workspace} : Sound(durable, checkpoint[p], journal[p])

CallsTell ==
  Good => /\ Current(durable, cache)
          /\ persist # NoCall => Current(durable, persist.docs)

\* The record of an append is that of the server, but for what was indexed since.
AppendTells ==
  append # NoCall =>
    LET d == append.entry.doc
    IN /\ append.entry.record \in {0, append.version}
       /\ durable[d] <= append.version /\ append.version <= version[d]
       /\ IF append.version = version[d] THEN cache[d] = append.entry.record
          ELSE cache[d] = version[d] /\ d \in unlogged

\* Without a call beside it, the store has in memory the journals on file that load()
\* reads, and an append adds to them.
MemoryTells ==
  Good /\ phase # "down" =>
    /\ ~WorkspaceTorn
    /\ persist = NoCall =>
         /\ phase = "up" => \A p \in Listed : entries[p] = Text(journal[p]) /\ journal[p] # Torn
         /\ ~(Writing /\ append.part = Workspace) => entries[Workspace] = Text(journal[Workspace])
         /\ Writing /\ append.part = Workspace => entries[Workspace] = append.payload
         /\ Writing /\ append.part \in Listed \cup {Workspace} =>
              append.payload = Append(Text(journal[append.part]), append.entry)

WriteTells ==
  Writing /\ append.part # Workspace => phase = "up" /\ append.part = ProjectOf[append.entry.doc]

\* Once the store has its projects, what belongs to one that is listed stays out of the
\* journal of the workspace.
UpTells ==
  Good /\ phase = "up" /\ persist = NoCall =>
    /\ Listed # {} => /\ model /\ partitioned
                      /\ \A p \in Listed \cup {Workspace} : Whole(checkpoint[p])
    /\ \A d \in Docs : ProjectOf[d] \in Listed => ~Mentions(Text(journal[Workspace]), d)
    /\ Writing /\ ProjectOf[append.entry.doc] \in Listed => append.part # Workspace

\* The checkpoint of what the server has, but for what was indexed since.
CheckpointTells ==
  persist # NoCall /\ persist.kind = "checkpoint" =>
    \A d \in Docs : /\ cache[d] \in {persist.docs[d], version[d]}
                    /\ d \notin unlogged => cache[d] = persist.docs[d]

Known == Docs \ (unlogged \cup unread)

\* Of the documents known to be logged, the files or the checkpoint under way have the
\* record of the server.
IntactTells ==
  integrity = "intact" =>
    /\ persist = NoCall =>
         /\ manifest # Torn
         /\ \A p \in Listed \cup {Workspace} : Whole(checkpoint[p]) /\ journal[p] # Torn
         /\ phase # "down" =>
              \A d \in Known : Load[d] = cache[d] \/ (append # NoCall /\ append.entry.doc = d)
    /\ persist # NoCall /\ persist.kind # "clear" => \A d \in Known : persist.docs[d] = cache[d]

Base == Inv /\ FileTypes /\ Placed /\ Apart /\ Progress

StoreInv ==
  /\ Base /\ FilesTell /\ CallsTell /\ AppendTells /\ MemoryTells /\ WriteTells /\ UpTells
  /\ CheckpointTells /\ IntactTells

-----------------------------------------------------------------------------
(* What load() finds.                                                      *)

LEMMA Listing ==
  ASSUME FileTypes
  PROVE  /\ Listed \subseteq Projects /\ Workspace \notin Listed
         /\ Listed \cup {Workspace} \subseteq Partitions
         /\ manifest \notin {NoFile, Torn} => Listed = manifest
  <1>1. CASE manifest \in {NoFile, Torn}
    BY <1>1, StoreAssumption DEF Listed, Partitions
  <1>2. CASE manifest \notin {NoFile, Torn}
    <2>1. manifest \in SUBSET Projects /\ Listed = manifest
      BY <1>2 DEF FileTypes, Listed
    <2>2. Workspace \notin Projects
      BY StoreAssumption
    <2> QED BY <1>2, <2>1, <2>2 DEF Partitions
  <1> QED BY <1>1, <1>2

LEMMA Texts ==
  ASSUME Inv, NEW p \in Partitions, journal[p] # Torn
  PROVE  /\ Text(journal[p]) \in Seq(JournalEntry) /\ Grows(Text(journal[p]))
         /\ JournalOf(p) = Text(journal[p])
  BY JournalFacts DEF Inv, JournalOf, Text

\* What the restore of a partition yields.
LEMMA RestoreFacts ==
  ASSUME Base, NEW p \in Partitions, Restorable(p)
  PROVE  /\ Restore(p) \in [Docs -> Nat] /\ Fits(version, Restore(p), p)
         /\ Restore(p) = Replay(checkpoint[p], Text(journal[p]))
         /\ Whole(checkpoint[p]) /\ checkpoint[p] \in [Docs -> Nat] /\ journal[p] # Torn
  <1> USE DEF Base
  <1>1. /\ Whole(checkpoint[p]) /\ checkpoint[p] \in [Docs -> Nat] /\ journal[p] # Torn
    BY DEF Restorable, Whole, FileTypes
  <1>2. PICK j : /\ j = Text(journal[p]) /\ j \in Seq(JournalEntry) /\ Grows(j)
                 /\ JournalOf(p) = j
    BY <1>1, Texts
  <1>3. PICK c : c = checkpoint[p]
    OBVIOUS
  <1>4. Fits(version, c, p) /\ Belongs(version, j, p)
    BY <1>1, <1>2, <1>3 DEF Placed
  <1>5. Restore(p) = Replay(c, j) /\ Restore(p) = [d \in Docs |-> Replay(c, j)[d]]
    BY <1>2, <1>3 DEF Restore, Replay
  <1>6. ASSUME NEW d \in Docs
        PROVE  /\ Replay(c, j)[d] \in Nat /\ Replay(c, j)[d] <= version[d]
               /\ Replay(c, j)[d] # 0 => p \in {Workspace, ProjectOf[d]}
    <2>1. j \in Seq(JournalEntry) /\ Grows(j)
      BY <1>2
    <2>2. CASE Mentions(j, d)
      <3>1. LastOf(j, d, Replay(c, j)[d])
        BY <2>1, <2>2, ReplayLast
      <3>2. PICK i \in DOMAIN j : j[i].doc = d /\ j[i].record = Replay(c, j)[d]
        BY <3>1 DEF LastOf
      <3>3. j[i] \in JournalEntry
        BY <2>1
      <3> QED BY <1>4, <3>2, <3>3 DEF Belongs, JournalEntry
    <2>3. CASE ~Mentions(j, d)
      <3>1. Replay(c, j)[d] = c[d] /\ c[d] \in Nat
        BY <1>1, <1>3, <2>3, ReplayWithout
      <3> QED BY <1>4, <3>1 DEF Fits
    <2> QED BY <2>2, <2>3
  <1>7. PICK r : r = Replay(c, j)
    OBVIOUS
  <1>8. r = [d \in Docs |-> r[d]]
    BY <1>5, <1>7
  <1>9. r \in [Docs -> Nat] /\ Fits(version, r, p)
    BY <1>6, <1>7, <1>8 DEF Fits
  <1> QED BY <1>1, <1>2, <1>3, <1>5, <1>7, <1>9

Loadable == manifest # Torn /\ \A p \in Listed \cup {Workspace} : Restorable(p)

\* A project that is listed comes before the workspace, for its own documents.
LEMMA LoadFacts ==
  ASSUME Base
  PROVE  /\ Load # Rebuild <=> Loadable
         /\ Loadable => /\ Load \in [Docs -> Nat] /\ Bounded(version, Load)
                        /\ \A d \in Docs :
                             Load[d] = LET p == ProjectOf[d]
                                       IN IF p \in Listed /\ Restore(p)[d] # 0
                                          THEN Restore(p)[d] ELSE Restore(Workspace)[d]
  <1>1. FileTypes
    BY DEF Base
  <1> DEFINE of(d) == {p \in Listed : Restore(p)[d] # 0}
             found == [d \in Docs |-> IF of(d) = {} THEN Restore(Workspace)[d]
                                      ELSE Restore(CHOOSE p \in of(d) : TRUE)[d]]
  <1>2. ~Loadable => Load = Rebuild
    BY DEF Load, Loadable
  <1>3. Loadable => Load = found
    BY DEF Load, Loadable
  <1>4. ASSUME Loadable, NEW d \in Docs
        PROVE  /\ found[d] = IF ProjectOf[d] \in Listed /\ Restore(ProjectOf[d])[d] # 0
                             THEN Restore(ProjectOf[d])[d] ELSE Restore(Workspace)[d]
               /\ found[d] \in Nat /\ found[d] <= version[d]
    <2>1. \A p \in Listed \cup {Workspace} :
             /\ Restore(p)[d] \in Nat /\ Restore(p)[d] <= version[d]
             /\ Restore(p)[d] # 0 => p \in {Workspace, ProjectOf[d]}
      BY <1>1, <1>4, Listing, RestoreFacts DEF Loadable, Fits
    <2>2. \A p \in of(d) : p = ProjectOf[d]
      BY <1>1, <2>1, Listing
    <2>3. of(d) # {} => (CHOOSE p \in of(d) : TRUE) \in of(d)
      OBVIOUS
    <2>4. of(d) # {} <=> ProjectOf[d] \in Listed /\ Restore(ProjectOf[d])[d] # 0
      BY <2>2
    <2>5. found[d] = IF of(d) = {} THEN Restore(Workspace)[d] ELSE Restore(CHOOSE p \in of(d) : TRUE)[d]
      OBVIOUS
    <2> HIDE DEF of, found
    <2>6. found[d] = IF ProjectOf[d] \in Listed /\ Restore(ProjectOf[d])[d] # 0
                     THEN Restore(ProjectOf[d])[d] ELSE Restore(Workspace)[d]
      BY <2>2, <2>3, <2>4, <2>5
    <2> QED BY <2>1, <2>6
  <1>5. found = [d \in Docs |-> found[d]]
    OBVIOUS
  <1> HIDE DEF found
  <1>6. Loadable => found \in [Docs -> Nat] /\ Bounded(version, found)
    BY <1>4, <1>5 DEF Bounded
  <1>7. Loadable => Load # Rebuild
    BY <1>3, <1>6, StoreAssumption
  <1> QED BY <1>2, <1>3, <1>4, <1>6, <1>7

\* The same, of any state.
RestoresWell ==
  \A p \in Partitions : Restorable(p) =>
    /\ Restore(p) \in [Docs -> Nat] /\ Fits(version, Restore(p), p)
    /\ Restore(p) = Replay(checkpoint[p], Text(journal[p]))

LoadsWell ==
  /\ Load # Rebuild <=> Loadable
  /\ Loadable =>
       \A d \in Docs : Load[d] = LET p == ProjectOf[d]
                                 IN IF p \in Listed /\ Restore(p)[d] # 0
                                    THEN Restore(p)[d] ELSE Restore(Workspace)[d]

LEMMA LoadedWell == Base => RestoresWell /\ LoadsWell
  <1>1. Base => RestoresWell
    BY RestoreFacts DEF RestoresWell
  <1>2. Base => LoadsWell
    BY LoadFacts DEF LoadsWell
  <1> QED BY <1>1, <1>2

LEMMA LoadIsCurrent ==
  ASSUME Base, FilesTell, Good, Loadable PROVE Current(durable, Load)
  <1>1. ASSUME NEW p \in Listed \cup {Workspace} PROVE Current(durable, Restore(p))
    <2>1. Sound(durable, checkpoint[p], journal[p]) /\ Restorable(p) /\ p \in Partitions
      BY Listing DEF FilesTell, Loadable, Base
    <2> QED BY <2>1, RestoreFacts DEF Sound
  <1>2. ASSUME NEW d \in Docs PROVE Load[d] = 0 \/ durable[d] <= Load[d]
    BY <1>1, LoadFacts DEF Current
  <1> QED BY <1>2 DEF Current

LEMMA LoadUnchanged == ASSUME UNCHANGED files PROVE Load' = Load /\ Listed' = Listed
  BY DEF files, Load, Listed, Restorable, JournalOf, Restore

-----------------------------------------------------------------------------
(* What keeps the files sound.                                             *)

\* A journal on file: growing entries, none, or torn.
JournalFile(j) == j \in {NoFile, Torn} \/ (j \in Seq(JournalEntry) /\ Grows(j))

LEMMA JournalFiles == ASSUME Inv, NEW p \in Partitions PROVE JournalFile(journal[p])
  BY DEF Inv, Types, JournalsGrow, JournalFile

LEMMA TextOfFile ==
  ASSUME NEW j, JournalFile(j), j # Torn PROVE Text(j) \in Seq(JournalEntry) /\ Grows(Text(j))
  BY EmptyJournal DEF JournalFile, Text

LEMMA TextOfNone == Text(NoFile) = <<>> /\ \A d : ~Mentions(Text(NoFile), d)
  BY DEF Text, Mentions

\* A current checkpoint may be written before the old journal is gone.
LEMMA SoundCheckpoint ==
  ASSUME NEW dur \in [Docs -> Nat], NEW old, NEW j, JournalFile(j), Sound(dur, old, j),
         NEW c \in [Docs -> Nat], Current(dur, c)
  PROVE  Sound(dur, c, j)
  <1> SUFFICES ASSUME j # Torn, NEW d \in Docs
               PROVE  Replay(c, Text(j))[d] = 0 \/ dur[d] <= Replay(c, Text(j))[d]
    BY DEF Sound, Current
  <1>1. Text(j) \in Seq(JournalEntry) /\ Grows(Text(j))
    BY TextOfFile
  <1>2. CASE Mentions(Text(j), d)
    <2>1. Replay(c, Text(j))[d] = Replay(Nowhere, Text(j))[d]
      BY <1>2, ReplayIgnores
    <2> QED BY <2>1 DEF Sound, Current
  <1>3. CASE ~Mentions(Text(j), d)
    <2>1. Replay(c, Text(j))[d] = c[d]
      BY <1>3, ReplayWithout
    <2> QED BY <2>1 DEF Current
  <1> QED BY <1>2, <1>3

LEMMA SoundWithout ==
  ASSUME NEW dur, NEW c, Whole(c) => Current(dur, c) PROVE Sound(dur, c, NoFile)
  <1>1. \A docs : \A d \in Docs : Replay(docs, Text(NoFile))[d] = docs[d]
    BY ReplayEmpty, TextOfNone
  <1>2. \A d \in Docs : Nowhere[d] = 0
    BY DEF Nowhere
  <1> QED BY <1>1, <1>2 DEF Sound, Current

\* An entry with the last version of its document acknowledges that version.
LEMMA SoundAppended ==
  ASSUME NEW dur \in [Docs -> Nat], NEW c, NEW j, JournalFile(j), j # Torn, Sound(dur, c, j),
         NEW e \in JournalEntry, NEW v \in Nat, e.record \in {0, v},
         Grows(Append(Text(j), e)), Append(Text(j), e) \notin {NoFile, Torn}
  PROVE  Sound([dur EXCEPT ![e.doc] = v], c, Append(Text(j), e))
  <1> DEFINE a == Append(Text(j), e)
             new == [dur EXCEPT ![e.doc] = v]
  <1>1. Text(j) \in Seq(JournalEntry) /\ Grows(Text(j)) /\ Text(a) = a
    BY TextOfFile DEF Text
  <1>2. \A docs : \A d \in Docs :
           Replay(docs, a)[d] = IF d = e.doc THEN e.record ELSE Replay(docs, Text(j))[d]
    BY <1>1, ReplayAppended
  <1>3. \A d \in Docs : new[d] = IF d = e.doc THEN v ELSE dur[d]
    OBVIOUS
  <1> HIDE DEF a, new
  <1>4. ASSUME NEW docs, Current(dur, Replay(docs, Text(j)))
        PROVE  Current(new, Replay(docs, a))
    BY <1>2, <1>3, <1>4 DEF Current
  <1>5. Current(new, Replay(Nowhere, a))
    BY <1>4 DEF Sound
  <1>6. Whole(c) => Current(new, Replay(c, a))
    BY <1>4 DEF Sound
  <1>7. Sound(new, c, a)
    BY <1>1, <1>5, <1>6 DEF Sound
  <1> QED BY <1>7 DEF a, new

\* What has nothing of a document stays sound when it is acknowledged elsewhere.
LEMMA SoundElsewhere ==
  ASSUME NEW dur \in [Docs -> Nat], NEW c, NEW j, JournalFile(j), Sound(dur, c, j),
         NEW d \in Docs, NEW v, j # Torn => ~Mentions(Text(j), d), Whole(c) => c[d] = 0
  PROVE  Sound([dur EXCEPT ![d] = v], c, j)
  <1> DEFINE new == [dur EXCEPT ![d] = v]
  <1> SUFFICES ASSUME j # Torn PROVE Sound(new, c, j)
    BY DEF Sound
  <1>1. \A docs : Replay(docs, Text(j))[d] = docs[d]
    BY ReplayWithout
  <1>2. \A x \in Docs : x # d => new[x] = dur[x]
    OBVIOUS
  <1>3. ASSUME NEW docs, docs[d] = 0, Current(dur, Replay(docs, Text(j)))
        PROVE  Current(new, Replay(docs, Text(j)))
    <2> HIDE DEF new
    <2> QED BY <1>1, <1>2, <1>3 DEF Current
  <1>4. Nowhere[d] = 0
    BY DEF Nowhere
  <1> HIDE DEF new
  <1> QED BY <1>3, <1>4 DEF Sound

LEMMA DocsOfFacts ==
  ASSUME version \in [Docs -> Nat], NEW docs \in [Docs -> Nat], NEW p
  PROVE  /\ DocsOf(docs, p) \in [Docs -> Nat]
         /\ \A d \in Docs : DocsOf(docs, p)[d] = IF ProjectOf[d] = p THEN docs[d] ELSE 0
         /\ \A dur : Current(dur, docs) => Current(dur, DocsOf(docs, p))
         /\ Bounded(version, docs) => Fits(version, DocsOf(docs, p), p)
  <1>1. /\ DocsOf(docs, p) \in [Docs -> Nat]
        /\ \A d \in Docs : DocsOf(docs, p)[d] = IF ProjectOf[d] = p THEN docs[d] ELSE 0
    BY DEF DocsOf
  <1>2. \A dur : Current(dur, docs) => Current(dur, DocsOf(docs, p))
    BY <1>1 DEF Current
  <1>3. Bounded(version, docs) => Fits(version, DocsOf(docs, p), p)
    <2> SUFFICES ASSUME Bounded(version, docs), NEW d \in Docs
                 PROVE  /\ DocsOf(docs, p)[d] <= version[d]
                        /\ DocsOf(docs, p)[d] # 0 => p \in {Workspace, ProjectOf[d]}
      BY DEF Fits
    <2>1. docs[d] <= version[d] /\ docs[d] \in Nat
      BY DEF Bounded
    <2>2. version[d] \in Nat
      OBVIOUS
    <2> QED BY <1>1, <2>1, <2>2
  <1> QED BY <1>1, <1>2, <1>3

-----------------------------------------------------------------------------
(* A call of the store that goes on.                                       *)

LEMMA CallFacts ==
  ASSUME FileTypes, persist # NoCall
  PROVE  /\ persist \in StoreCall /\ persist.docs \in [Docs -> Nat]
         /\ persist.rest \subseteq Projects /\ ProjectsOf(persist.docs) \subseteq Projects
  BY DEF FileTypes, StoreCall, ProjectsOf

LEMMA CallsDiffer == NoCall \notin StoreCall /\ NoCall \notin AppendCall
  BY StoreAssumption

LEMMA GoneOn ==
  ASSUME FileTypes, persist # NoCall,
         NEW step \in {"begin", "manifest", "projects", "checkpoint", "project", "journal",
                       "validate"},
         persist' = [persist EXCEPT !.step = step]
  PROVE  /\ persist' \in StoreCall /\ persist' # NoCall /\ persist'.step = step
         /\ persist'.docs = persist.docs /\ persist'.kind = persist.kind
         /\ persist'.rest = persist.rest
  <1>1. persist \in StoreCall
    BY CallFacts
  <1>2. /\ persist' \in StoreCall /\ persist'.step = step
        /\ persist'.docs = persist.docs /\ persist'.kind = persist.kind
        /\ persist'.rest = persist.rest
    BY <1>1 DEF StoreCall
  <1> QED BY <1>2, CallsDiffer

LEMMA CheckpointGoesOn ==
  ASSUME StoreInv, Inv', persist # NoCall, persist' # NoCall,
         persist'.docs = persist.docs, persist'.kind = persist.kind,
         UNCHANGED <<append, phase, cache, version, durable, integrity>>,
         \A d \in Docs : d \in Known' => d \in Known \/ cache[d] = persist.docs[d],
         persist.kind = "checkpoint" => unlogged' = unlogged,
         FileTypes', Placed', Apart', Progress', FilesTell',
         Good /\ phase # "down" => ~WorkspaceTorn'
  PROVE  StoreInv'
  <1>1. append = NoCall /\ append' = NoCall
    BY DEF StoreInv, Base, Inv, Turns
  <1>2. Base'
    BY DEF Base
  <1>3. CallsTell'
    BY DEF StoreInv, CallsTell, Good
  <1>4. AppendTells' /\ WriteTells'
    BY <1>1 DEF AppendTells, WriteTells, Writing
  <1>5. MemoryTells' /\ UpTells'
    BY DEF MemoryTells, UpTells, Good
  <1>6. CheckpointTells' /\ IntactTells'
    <2>1. \A d \in Known' : d \in Docs
      BY DEF Known
    <2> QED BY <2>1 DEF StoreInv, CheckpointTells, IntactTells
  <1> QED BY <1>2, <1>3, <1>4, <1>5, <1>6 DEF StoreInv

-----------------------------------------------------------------------------
(* The steps of a checkpoint.                                              *)

\* No partition of the store holds an entry.
LEMMA EmptyBelongs == \A ver, p : Belongs(ver, <<>>, p) /\ Belongs(ver, Text(NoFile), p)
  BY DEF Belongs, Text

LEMMA WholeFacts ==
  ASSUME FileTypes, NEW p \in Partitions
  PROVE  /\ Whole(checkpoint[p]) <=> checkpoint[p] \in [Docs -> Nat]
         /\ ~Whole(NoFile) /\ \A c \in [Docs -> Nat] : Whole(c)
  BY StoreAssumption DEF FileTypes, Whole

LEMMA Progressing ==
  ASSUME StoreInv, persist # NoCall
  PROVE  /\ append = NoCall /\ phase # "down" /\ FileTypes /\ version \in [Docs -> Nat]
         /\ persist.docs \in [Docs -> Nat] /\ Bounded(version, persist.docs)
         /\ Good => Current(durable, persist.docs)
         /\ Good => ~WorkspaceTorn
  BY CallFacts DEF StoreInv, Base, Inv, Types, Turns, Progress, CallsTell, MemoryTells

LEMMA BeginConverges == ASSUME StoreInv, Inv', BeginCheckpoint PROVE StoreInv'
  <1> USE DEF ghosts, files
  <1>1. /\ persist # NoCall /\ persist.step = "begin"
        /\ partitioned' = model /\ entries' = OnlyWorkspace(entries, <<>>)
        /\ persist' = [persist EXCEPT !.step = IF model THEN "projects" ELSE "manifest"]
        /\ UNCHANGED <<checkpoint, journal, manifest, model, phase, restored, cache, append,
                       edits, version, durable, unlogged, unread, integrity>>
    BY DEF BeginCheckpoint, At, Goto
  <1>2. FileTypes
    BY <1>1, Progressing
  <1>3. /\ persist' \in StoreCall /\ persist' # NoCall
        /\ persist'.step = (IF model THEN "projects" ELSE "manifest")
        /\ persist'.docs = persist.docs /\ persist'.kind = persist.kind
        /\ persist'.rest = persist.rest
    BY <1>1, <1>2, GoneOn
  <1>4. FileTypes'
    BY <1>1, <1>2, <1>3 DEF FileTypes
  <1>5. \A p \in Partitions : entries'[p] = IF p = Workspace THEN entries[p] ELSE <<>>
    BY <1>1 DEF OnlyWorkspace
  <1>6. Placed'
    <2>1. append' = NoCall /\ Placed
      BY <1>1, Progressing DEF StoreInv, Base
    <2> QED BY <1>1, <1>5, <2>1, EmptyBelongs DEF Placed, Writing
  <1>7. Apart' /\ FilesTell'
    BY <1>1 DEF StoreInv, Base, Apart, FilesTell, Listed, Good
  <1>8. Progress'
    <2>1. \A p \in Projects : entries'[p] = <<>>
      BY <1>5, StoreAssumption DEF Partitions
    <2> QED BY <1>1, <1>3, <2>1 DEF StoreInv, Base, Progress
  <1>9. Good /\ phase # "down" => ~WorkspaceTorn'
    BY <1>1, Progressing DEF WorkspaceTorn
  <1> QED BY <1>1, <1>3, <1>4, <1>6, <1>7, <1>8, <1>9, CheckpointGoesOn DEF Known

LEMMA ManifestConverges == ASSUME StoreInv, Inv', DeleteManifest PROVE StoreInv'
  <1> USE DEF ghosts, memory
  <1>1. /\ persist # NoCall /\ persist.step = "manifest" /\ manifest' = NoFile
        /\ persist' = [persist EXCEPT !.step = "projects"]
        /\ UNCHANGED <<checkpoint, journal, entries, partitioned, model, phase, restored, cache,
                       append, edits, version, durable, unlogged, unread, integrity>>
    BY DEF DeleteManifest, At, Goto
  <1>2. FileTypes
    BY <1>1, Progressing
  <1>3. /\ persist' \in StoreCall /\ persist' # NoCall
        /\ persist'.step = "projects"
        /\ persist'.docs = persist.docs /\ persist'.kind = persist.kind
        /\ persist'.rest = persist.rest
    BY <1>1, <1>2, GoneOn
  <1>4. FileTypes'
    BY <1>1, <1>2, <1>3 DEF FileTypes
  <1>5. Placed'
    BY <1>1 DEF StoreInv, Base, Placed, Writing
  <1>6. Listed' = {}
    BY <1>1 DEF Listed
  <1>7. Apart' /\ FilesTell'
    BY <1>1, <1>6 DEF StoreInv, Apart, FilesTell, Good
  <1>8. Progress'
    BY <1>1, <1>3 DEF StoreInv, Base, Progress
  <1>9. Good /\ phase # "down" => ~WorkspaceTorn'
    BY <1>1, Progressing, StoreAssumption DEF WorkspaceTorn
  <1> QED BY <1>1, <1>3, <1>4, <1>5, <1>7, <1>8, <1>9, CheckpointGoesOn DEF Known

LEMMA ProjectsConverges == ASSUME StoreInv, Inv', DeleteProjects PROVE StoreInv'
  <1> USE DEF ghosts, memory
  <1>1. /\ persist # NoCall /\ persist.step = "projects"
        /\ checkpoint' = OnlyWorkspace(checkpoint, NoFile)
        /\ journal' = OnlyWorkspace(journal, NoFile)
        /\ persist' = [persist EXCEPT !.step = "checkpoint"]
        /\ UNCHANGED <<manifest, entries, partitioned, model, phase, restored, cache,
                       append, edits, version, durable, unlogged, unread, integrity>>
    BY DEF DeleteProjects, At, Goto
  <1>2. FileTypes
    BY <1>1, Progressing
  <1>3. /\ persist' \in StoreCall /\ persist' # NoCall
        /\ persist'.step = "checkpoint"
        /\ persist'.docs = persist.docs /\ persist'.kind = persist.kind
        /\ persist'.rest = persist.rest
    BY <1>1, <1>2, GoneOn
  <1>4. /\ DOMAIN checkpoint' = Partitions
        /\ \A p \in Partitions : checkpoint'[p] = IF p = Workspace THEN checkpoint[p] ELSE NoFile
    BY <1>1 DEF OnlyWorkspace
  <1>5. \A p \in Partitions : journal'[p] = IF p = Workspace THEN journal[p] ELSE NoFile
    BY <1>1 DEF OnlyWorkspace
  <1>6. checkpoint' \in [Partitions -> [Docs -> Nat] \cup {NoFile, Torn}]
    BY <1>1, <1>2 DEF FileTypes, OnlyWorkspace
  <1>7. FileTypes'
    BY <1>1, <1>2, <1>3, <1>6 DEF FileTypes
  <1>8. Workspace \in Partitions /\ Workspace \notin Projects /\ Projects \subseteq Partitions
    BY StoreAssumption DEF Partitions
  <1>9. Placed'
    <2>1. append' = NoCall /\ Placed
      BY <1>1, Progressing DEF StoreInv, Base
    <2>2. ~Whole(NoFile)
      BY DEF Whole
    <2> QED BY <1>1, <1>4, <1>5, <2>1, <2>2, EmptyBelongs DEF Placed, Writing
  <1>10. Listed' = Listed
    BY <1>1 DEF Listed
  <1>11. Apart'
    BY <1>4, <1>8, <1>10 DEF StoreInv, Base, Apart
  <1>12. FilesTell'
    <2> SUFFICES ASSUME Good, NEW p \in Listed \cup {Workspace}
                 PROVE  Sound(durable, checkpoint'[p], journal'[p])
      BY <1>1, <1>10 DEF FilesTell, Good
    <2>1. p \in Partitions
      BY <1>2, Listing
    <2>2. ~Whole(NoFile)
      BY DEF Whole
    <2>3. CASE p = Workspace
      BY <1>4, <1>5, <2>1, <2>3 DEF StoreInv, FilesTell
    <2>4. CASE p # Workspace
      BY <1>4, <1>5, <2>1, <2>2, <2>4, SoundWithout
    <2> QED BY <2>3, <2>4
  <1>13. Progress'
    BY <1>1, <1>3, <1>4, <1>5, <1>8 DEF StoreInv, Base, Progress
  <1>14. Good /\ phase # "down" => ~WorkspaceTorn'
    BY <1>1, <1>4, <1>5, <1>8, Progressing DEF WorkspaceTorn
  <1> QED BY <1>1, <1>3, <1>7, <1>9, <1>11, <1>12, <1>13, <1>14, CheckpointGoesOn DEF Known


LEMMA WorkspaceConverges == ASSUME StoreInv, Inv', WriteWorkspace PROVE StoreInv'
  <1> USE DEF ghosts
  <1> DEFINE docs == IF model THEN DocsOf(persist.docs, Workspace) ELSE persist.docs
             step == IF model THEN "project" ELSE "journal"
  <1>1. /\ persist # NoCall /\ persist.step = "checkpoint"
        /\ checkpoint' = [checkpoint EXCEPT ![Workspace] = docs]
        /\ persist' = [persist EXCEPT !.step = step]
        /\ entries' = IF model THEN entries ELSE [entries EXCEPT ![Workspace] = <<>>]
        /\ UNCHANGED <<journal, manifest, partitioned, model, phase, restored, cache,
                       append, edits, version, durable, unlogged, unread, integrity>>
    BY DEF WriteWorkspace, At, Goto, ResetJournal
  <1>2. /\ FileTypes /\ append = NoCall /\ version \in [Docs -> Nat]
        /\ persist.docs \in [Docs -> Nat] /\ Bounded(version, persist.docs)
    BY <1>1, Progressing
  <1>3. /\ persist' \in StoreCall /\ persist' # NoCall /\ persist'.step = step
        /\ persist'.docs = persist.docs /\ persist'.kind = persist.kind
        /\ persist'.rest = persist.rest
    BY <1>1, <1>2, GoneOn
  <1>4. /\ docs \in [Docs -> Nat] /\ Fits(version, docs, Workspace)
        /\ Good => Current(durable, docs)
        /\ model => \A d \in Docs : ProjectOf[d] # Workspace => docs[d] = 0
    <2>1. Bounded(version, persist.docs) => Fits(version, persist.docs, Workspace)
      BY DEF Bounded, Fits
    <2> QED BY <1>1, <1>2, <2>1, DocsOfFacts, Progressing
  <1>5. Workspace \in Partitions /\ Workspace \notin Projects /\ Projects \subseteq Partitions
    BY StoreAssumption DEF Partitions
  <1>6. checkpoint'[Workspace] = docs /\ \A p \in Projects : checkpoint'[p] = checkpoint[p]
    BY <1>1, <1>2, <1>5 DEF FileTypes
  <1>7. checkpoint' \in [Partitions -> [Docs -> Nat] \cup {NoFile, Torn}]
    BY <1>1, <1>2, <1>4 DEF FileTypes
  <1>8. entries \in [Partitions -> Seq(JournalEntry)]
    BY DEF StoreInv, Base, Inv, Types
  <1>9. \A p \in Partitions : entries'[p] \in {entries[p], <<>>}
    BY <1>1, <1>8
  <1>10. Progress /\ Placed /\ Apart /\ FilesTell
    BY DEF StoreInv, Base
  <1>11. ~model => manifest = NoFile
    BY <1>1, <1>10 DEF Progress
  <1> HIDE DEF docs
  <1>12. FileTypes'
    BY <1>1, <1>2, <1>3, <1>7 DEF FileTypes
  <1>13. Placed'
    BY <1>1, <1>2, <1>4, <1>6, <1>9, <1>10, EmptyBelongs DEF Placed, Writing, Partitions
  <1>14. Listed' = Listed /\ Listed \subseteq Projects /\ (~model => Listed = {})
    BY <1>1, <1>2, <1>11, Listing DEF Listed
  <1>15. Apart'
    BY <1>4, <1>5, <1>6, <1>14 DEF Apart
  <1>16. FilesTell'
    <2> SUFFICES ASSUME Good, NEW p \in Listed \cup {Workspace}
                 PROVE  Sound(durable, checkpoint'[p], journal[p])
      BY <1>1, <1>14 DEF FilesTell, Good
    <2>1. Sound(durable, checkpoint[p], journal[p])
      BY <1>10 DEF FilesTell
    <2>2. CASE p = Workspace
      <3>1. JournalFile(journal[p]) /\ durable \in [Docs -> Nat]
        BY <1>2, <1>5, <2>2, JournalFiles DEF StoreInv, Base, FileTypes
      <3> QED BY <1>4, <1>6, <2>1, <2>2, <3>1, SoundCheckpoint
    <2>3. CASE p # Workspace
      BY <1>6, <1>14, <2>1, <2>3
    <2> QED BY <2>2, <2>3
  <1>17. Progress'
    <2>1. /\ \A p \in Projects : entries'[p] = <<>>
          /\ ~model => entries'[Workspace] = <<>>
      BY <1>1, <1>5, <1>8, <1>9, <1>10 DEF Progress
    <2>2. persist.rest = ProjectsOf(persist.docs) /\ \A p \in Projects : journal[p] = NoFile /\ checkpoint[p] = NoFile
      BY <1>1, <1>10 DEF Progress
    <2>3. CASE model
      <3>1. /\ Bounded(version', persist'.docs) /\ persist'.kind # "clear" /\ partitioned' = model'
            /\ persist'.rest = ProjectsOf(persist'.docs) /\ model' /\ journal' = journal
        BY <1>1, <1>2, <1>3, <1>10, <2>2, <2>3 DEF Progress
      <3>2. /\ checkpoint'[Workspace] = DocsOf(persist.docs, Workspace)
            /\ \A p \in Projects : checkpoint'[p] = NoFile
        BY <1>6, <2>2, <2>3 DEF docs
      <3>3. persist'.step = "project" /\ persist'.rest \subseteq Projects
        BY <1>1, <1>2, <1>3, <2>3, CallFacts
      <3> QED BY <1>3, <2>1, <2>2, <3>1, <3>2, <3>3 DEF Progress
    <2>4. CASE ~model
      BY <1>1, <1>2, <1>3, <1>6, <1>10, <1>11, <2>1, <2>2, <2>4 DEF Progress, docs
    <2> QED BY <1>2, <2>3, <2>4 DEF FileTypes
  <1>18. Good /\ phase # "down" => ~WorkspaceTorn'
    <2>1. docs # Torn
      BY <1>4, StoreAssumption
    <2> QED BY <1>1, <1>6, <2>1, Progressing DEF WorkspaceTorn
  <1> QED BY <1>1, <1>3, <1>12, <1>13, <1>15, <1>16, <1>17, <1>18, CheckpointGoesOn DEF Known

LEMMA ProjectConverges ==
  ASSUME StoreInv, Inv', NEW q \in Projects, WriteProject(q) PROVE StoreInv'
  <1> USE DEF ghosts
  <1> DEFINE docs == DocsOf(persist.docs, q)
  <1>1. /\ persist # NoCall /\ persist.step = "project" /\ q \in persist.rest
        /\ checkpoint' = [checkpoint EXCEPT ![q] = docs]
        /\ persist' = [persist EXCEPT !.rest = @ \ {q}]
        /\ entries' = [entries EXCEPT ![q] = <<>>]
        /\ UNCHANGED <<journal, manifest, partitioned, model, phase, restored, cache,
                       append, edits, version, durable, unlogged, unread, integrity>>
    BY DEF WriteProject, At
  <1>2. /\ FileTypes /\ append = NoCall /\ version \in [Docs -> Nat]
        /\ persist.docs \in [Docs -> Nat] /\ Bounded(version, persist.docs)
    BY <1>1, Progressing
  <1>3. /\ persist' \in StoreCall /\ persist' # NoCall /\ persist'.step = "project"
        /\ persist'.docs = persist.docs /\ persist'.kind = persist.kind
        /\ persist'.rest = persist.rest \ {q}
    <2>1. persist \in StoreCall
      BY <1>1, <1>2, CallFacts
    <2>2. /\ persist' \in StoreCall /\ persist'.step = "project"
          /\ persist'.docs = persist.docs /\ persist'.kind = persist.kind
          /\ persist'.rest = persist.rest \ {q}
      BY <1>1, <2>1 DEF StoreCall
    <2> QED BY <2>2, CallsDiffer
  <1>4. /\ docs \in [Docs -> Nat] /\ Fits(version, docs, q)
        /\ Good => Current(durable, docs)
    BY <1>1, <1>2, DocsOfFacts, Progressing
  <1>5. Workspace \in Partitions /\ Workspace \notin Projects /\ Projects \subseteq Partitions
    BY StoreAssumption DEF Partitions
  <1>6. \A p \in Partitions : checkpoint'[p] = IF p = q THEN docs ELSE checkpoint[p]
    BY <1>1, <1>2, <1>5 DEF FileTypes
  <1>7. checkpoint' \in [Partitions -> [Docs -> Nat] \cup {NoFile, Torn}]
    BY <1>1, <1>2, <1>4 DEF FileTypes
  <1>8. entries \in [Partitions -> Seq(JournalEntry)]
    BY DEF StoreInv, Base, Inv, Types
  <1>9. \A p \in Partitions : entries'[p] \in {entries[p], <<>>}
    BY <1>1, <1>8
  <1>10. Progress /\ Placed /\ Apart /\ FilesTell
    BY DEF StoreInv, Base
  <1>11. journal[q] = NoFile
    BY <1>1, <1>10 DEF Progress
  <1>12. FileTypes'
    <2> HIDE DEF docs
    <2> QED BY <1>1, <1>2, <1>3, <1>7 DEF FileTypes
  <1>13. Placed'
    <2> HIDE DEF docs
    <2> QED BY <1>1, <1>2, <1>4, <1>6, <1>9, <1>10, EmptyBelongs DEF Placed, Writing, Partitions
  <1>14. Listed' = Listed /\ Listed \subseteq Projects
    BY <1>1, <1>2, Listing DEF Listed
  <1>15. Apart'
    BY <1>5, <1>6, <1>10, <1>14 DEF Apart
  <1>16. FilesTell'
    <2> SUFFICES ASSUME Good, NEW p \in Listed \cup {Workspace}
                 PROVE  Sound(durable, checkpoint'[p], journal[p])
      BY <1>1, <1>14 DEF FilesTell, Good
    <2>1. Sound(durable, checkpoint[p], journal[p])
      BY <1>10 DEF FilesTell
    <2> HIDE DEF docs
    <2>2. CASE p = q
      BY <1>4, <1>5, <1>6, <1>11, <2>2, SoundWithout
    <2>3. CASE p # q
      BY <1>5, <1>6, <1>14, <2>1, <2>3
    <2> QED BY <2>2, <2>3
  <1>17. Progress'
    <2>1. \A p \in Projects : entries'[p] = <<>> /\ journal[p] = NoFile
      BY <1>1, <1>5, <1>9, <1>10 DEF Progress
    <2>2. /\ model /\ partitioned = model /\ persist.kind # "clear"
          /\ checkpoint[Workspace] = DocsOf(persist.docs, Workspace)
          /\ \A p \in Projects :
               checkpoint[p] = IF p \in ProjectsOf(persist.docs) /\ p \notin persist.rest
                               THEN DocsOf(persist.docs, p) ELSE NoFile
      BY <1>1, <1>10 DEF Progress
    <2>3. /\ checkpoint'[Workspace] = DocsOf(persist.docs, Workspace)
          /\ \A p \in Projects :
               checkpoint'[p] = IF p \in ProjectsOf(persist.docs) /\ p \notin persist.rest \ {q}
                                THEN DocsOf(persist.docs, p) ELSE NoFile
      <3>1. q \in ProjectsOf(persist.docs)
        BY <1>1, <1>10 DEF Progress
      <3> QED BY <1>5, <1>6, <2>2, <3>1
    <2>4. \A p \in persist.rest \ {q} : checkpoint'[p] = NoFile
      <3>1. \A p \in persist.rest \ {q} : p \in Projects
        BY <1>1, <1>2, CallFacts
      <3> QED BY <2>3, <3>1
    <2>5. /\ Bounded(version', persist'.docs) /\ persist'.kind # "clear" /\ partitioned' = model'
          /\ persist'.rest \subseteq ProjectsOf(persist'.docs) /\ model' /\ journal' = journal
      BY <1>1, <1>2, <1>3, <1>10, <2>2 DEF Progress
    <2> HIDE DEF docs
    <2> QED BY <1>3, <2>1, <2>3, <2>4, <2>5 DEF Progress
  <1>18. Good /\ phase # "down" => ~WorkspaceTorn'
    BY <1>1, <1>5, <1>6, Progressing DEF WorkspaceTorn
  <1> QED BY <1>1, <1>3, <1>12, <1>13, <1>15, <1>16, <1>17, <1>18, CheckpointGoesOn DEF Known

LEMMA ListConverges == ASSUME StoreInv, Inv', WriteManifest PROVE StoreInv'
  <1> USE DEF ghosts
  <1> DEFINE made == ProjectsOf(persist.docs)
  <1>1. /\ persist # NoCall /\ persist.step = "project" /\ persist.rest = {}
        /\ manifest' = made
        /\ persist' = [persist EXCEPT !.step = "journal"]
        /\ entries' = [entries EXCEPT ![Workspace] = <<>>]
        /\ UNCHANGED <<checkpoint, journal, partitioned, model, phase, restored, cache,
                       append, edits, version, durable, unlogged, unread, integrity>>
    BY DEF WriteManifest, At, Goto, ResetJournal
  <1>2. /\ FileTypes /\ append = NoCall /\ version \in [Docs -> Nat]
        /\ persist.docs \in [Docs -> Nat] /\ Bounded(version, persist.docs)
        /\ made \subseteq Projects
    BY <1>1, Progressing, CallFacts
  <1>3. /\ persist' \in StoreCall /\ persist' # NoCall /\ persist'.step = "journal"
        /\ persist'.docs = persist.docs /\ persist'.kind = persist.kind
        /\ persist'.rest = persist.rest
    BY <1>1, <1>2, GoneOn
  <1>4. Workspace \in Partitions /\ Workspace \notin Projects /\ Projects \subseteq Partitions
    BY StoreAssumption DEF Partitions
  <1>5. entries \in [Partitions -> Seq(JournalEntry)]
    BY DEF StoreInv, Base, Inv, Types
  <1>6. \A p \in Partitions : entries'[p] \in {entries[p], <<>>}
    BY <1>1, <1>5
  <1>7. Progress /\ Placed /\ Apart /\ FilesTell
    BY DEF StoreInv, Base
  <1>8. /\ model /\ checkpoint[Workspace] = DocsOf(persist.docs, Workspace)
        /\ \A p \in made : checkpoint[p] = DocsOf(persist.docs, p) /\ journal[p] = NoFile
    BY <1>1, <1>2, <1>7 DEF Progress
  <1>9. Listed' = made /\ manifest' \notin {NoFile, Torn}
    BY <1>1, <1>2, StoreAssumption DEF Listed
  <1> HIDE DEF made
  <1>10. FileTypes'
    BY <1>1, <1>2, <1>3 DEF FileTypes
  <1>11. Placed'
    BY <1>1, <1>2, <1>6, <1>7, EmptyBelongs DEF Placed, Writing
  <1>12. Apart'
    BY <1>1, <1>2, <1>4, <1>8, <1>9, DocsOfFacts DEF Apart
  <1>13. FilesTell'
    <2> SUFFICES ASSUME Good, NEW p \in made \cup {Workspace}
                 PROVE  Sound(durable, checkpoint[p], journal[p])
      BY <1>1, <1>9 DEF FilesTell, Good
    <2>1. CASE p = Workspace
      BY <1>7, <2>1 DEF FilesTell
    <2>2. CASE p \in made
      BY <1>1, <1>2, <1>8, <2>2, DocsOfFacts, Progressing, SoundWithout
    <2> QED BY <2>1, <2>2
  <1>14. Progress'
    <2>1. \A p \in Partitions : entries'[p] = IF p = Workspace THEN <<>> ELSE entries[p]
      BY <1>1, <1>5
    <2> QED BY <1>1, <1>3, <1>4, <1>7, <2>1 DEF Progress, made
  <1>15. Good /\ phase # "down" => ~WorkspaceTorn'
    BY <1>1, <1>9, Progressing DEF WorkspaceTorn
  <1> QED BY <1>1, <1>3, <1>10, <1>11, <1>12, <1>13, <1>14, <1>15, CheckpointGoesOn DEF Known

-----------------------------------------------------------------------------
(* The end of a checkpoint and the load that validates.                    *)

\* Everything of docs is on file, and nothing else.
FilesAre(docs) ==
  /\ \A p \in Partitions : journal[p] = NoFile
  /\ manifest # Torn /\ Listed = (IF model THEN ProjectsOf(docs) ELSE {})
  /\ \A p \in Listed : checkpoint[p] = DocsOf(docs, p)
  /\ checkpoint[Workspace] = IF model THEN DocsOf(docs, Workspace) ELSE docs

FilesAreWhole == \A p \in Listed \cup {Workspace} : checkpoint[p] \in [Docs -> Nat]

WrittenWell ==
  \A docs \in [Docs -> Nat] :
    FilesAre(docs) => Load # Rebuild /\ \A d \in Docs : Load[d] = docs[d]

LEMMA WrittenIsLoaded ==
  ASSUME LoadsWell, RestoresWell, NEW docs \in [Docs -> Nat], FilesAre(docs), FilesAreWhole,
         Listed \subseteq Projects
  PROVE  Load # Rebuild /\ \A d \in Docs : Load[d] = docs[d]
  <1>1. Workspace \in Partitions /\ Workspace \notin Projects /\ Projects \subseteq Partitions
    BY StoreAssumption DEF Partitions
  <1>2. \A p \in Listed \cup {Workspace} :
           /\ p \in Partitions /\ JournalOf(p) = <<>> /\ journal[p] = NoFile
           /\ checkpoint[p] \notin {NoFile, Torn}
    BY <1>1, StoreAssumption DEF FilesAre, FilesAreWhole, JournalOf
  <1>3. \A p \in Listed \cup {Workspace} : Restorable(p)
    BY <1>2, StoreAssumption DEF Restorable, ValidJournal
  <1>4. \A p \in Listed \cup {Workspace} : \A d \in Docs : Restore(p)[d] = checkpoint[p][d]
    BY <1>2, ReplayEmpty DEF Restore
  <1>5. Loadable /\ Load # Rebuild
    BY <1>3 DEF Loadable, LoadsWell, FilesAre
  <1>6. ASSUME NEW d \in Docs PROVE Load[d] = docs[d]
    <2> DEFINE q == ProjectOf[d]
    <2>1. Load[d] = IF q \in Listed /\ Restore(q)[d] # 0 THEN Restore(q)[d] ELSE Restore(Workspace)[d]
      BY <1>5 DEF LoadsWell
    <2>2. \A p : DocsOf(docs, p)[d] = IF q = p THEN docs[d] ELSE 0
      BY DEF DocsOf
    <2>3. q \in Projects \cup {Workspace}
      BY StoreAssumption DEF Partitions
    <2> HIDE DEF q
    <2>4. CASE ~model
      BY <1>4, <2>1, <2>4 DEF FilesAre
    <2>5. CASE model /\ q \in Listed
      BY <1>1, <1>4, <2>1, <2>2, <2>5 DEF FilesAre
    <2>6. CASE model /\ q \notin Listed
      <3>1. Load[d] = DocsOf(docs, Workspace)[d]
        BY <1>4, <2>1, <2>6 DEF FilesAre
      <3>2. CASE q = Workspace
        BY <2>2, <3>1, <3>2
      <3>3. CASE q # Workspace
        <4>1. DocsOf(docs, q) = Nowhere
          BY <2>3, <2>6, <3>3 DEF FilesAre, ProjectsOf
        <4> QED BY <1>1, <2>2, <3>1, <3>3, <4>1 DEF Nowhere
      <3> QED BY <3>2, <3>3
    <2> QED BY <2>4, <2>5, <2>6 DEF FilesAre
  <1> QED BY <1>5, <1>6

LEMMA WritesWell == Base /\ FilesAreWhole => WrittenWell
  BY LoadedWell, Listing, WrittenIsLoaded DEF WrittenWell, Base

\* What the checkpoint has written before it deletes the journal, or validates.
LEMMA WrittenFiles ==
  ASSUME Base, persist # NoCall, persist.step \in {"journal", "validate"}
  PROVE  /\ \A p \in Projects : journal[p] = NoFile /\ entries[p] = <<>>
         /\ entries[Workspace] = <<>> /\ partitioned = model
         /\ Listed = (IF model THEN ProjectsOf(persist.docs) ELSE {})
         /\ manifest # Torn /\ Listed \subseteq Projects
         /\ \A p \in Listed : checkpoint[p] = DocsOf(persist.docs, p)
         /\ checkpoint[Workspace] = IF model THEN DocsOf(persist.docs, Workspace) ELSE persist.docs
         /\ FilesAreWhole
  <1> USE DEF Base
  <1>1. /\ \A p \in Projects : journal[p] = NoFile /\ entries[p] = <<>>
        /\ entries[Workspace] = <<>> /\ partitioned = model
        /\ manifest = (IF model THEN ProjectsOf(persist.docs) ELSE NoFile)
        /\ checkpoint[Workspace] = IF model THEN DocsOf(persist.docs, Workspace) ELSE persist.docs
        /\ model => \A p \in Projects : p \in ProjectsOf(persist.docs) =>
                      checkpoint[p] = DocsOf(persist.docs, p)
    BY DEF Progress, FileTypes
  <1>2. ProjectsOf(persist.docs) \in SUBSET Projects /\ persist.docs \in [Docs -> Nat]
    BY CallFacts
  <1>3. Listed = (IF model THEN ProjectsOf(persist.docs) ELSE {}) /\ manifest # Torn
    BY <1>1, <1>2, StoreAssumption DEF Listed
  <1>4. \A p : DocsOf(persist.docs, p) \in [Docs -> Nat]
    BY <1>2 DEF DocsOf
  <1> QED BY <1>1, <1>2, <1>3, <1>4 DEF FilesAreWhole

LEMMA JournalGone ==
  ASSUME StoreInv, Inv', DeleteJournal
  PROVE  /\ FileTypes' /\ Placed' /\ Apart' /\ Progress'
         /\ \A p \in Partitions : journal'[p] = NoFile /\ entries'[p] = <<>>
         /\ Listed' = Listed /\ manifest' # Torn /\ Load' # Rebuild
         /\ \A d \in Docs : Load'[d] = persist.docs[d]
  <1> USE DEF memory
  <1>1. /\ persist # NoCall /\ persist.step = "journal"
        /\ journal' = [journal EXCEPT ![Workspace] = NoFile]
        /\ UNCHANGED <<checkpoint, manifest, entries, partitioned, model, phase, restored, cache,
                       append, edits, version>>
        /\ EndCheckpoint
    BY DEF DeleteJournal, At
  <1>2. /\ FileTypes /\ append = NoCall /\ version \in [Docs -> Nat] /\ Base
        /\ persist.docs \in [Docs -> Nat] /\ Bounded(version, persist.docs)
    BY <1>1, Progressing DEF StoreInv
  <1>3. Workspace \in Partitions /\ Projects \subseteq Partitions
        /\ Partitions = Projects \cup {Workspace} /\ Workspace \notin Projects
    BY StoreAssumption DEF Partitions
  <1>4. \A p \in Partitions : journal'[p] = NoFile /\ entries'[p] = <<>>
    BY <1>1, <1>2, <1>3, WrittenFiles DEF Base, Inv, Types
  <1>5. ASSUME persist.kind = "compaction" PROVE FileTypes' /\ Placed' /\ Progress'
    <2>1. /\ persist' = [persist EXCEPT !.step = "validate"]
          /\ UNCHANGED <<durable, integrity>>
          /\ unlogged' \subseteq unlogged /\ unread' \subseteq unread
      BY <1>1, <1>5 DEF EndCheckpoint, Goto
    <2>2. /\ persist' \in StoreCall /\ persist' # NoCall /\ persist'.step = "validate"
          /\ persist'.docs = persist.docs /\ persist'.kind = persist.kind
          /\ persist'.rest = persist.rest
      BY <1>1, <1>2, <2>1, GoneOn
    <2>3. FileTypes'
      BY <1>1, <1>2, <2>1, <2>2 DEF FileTypes
    <2>4. Placed'
      BY <1>1, <1>2, <1>4, <2>1, EmptyBelongs DEF Base, Placed, Writing
    <2>5. Progress'
      BY <1>1, <1>2, <1>3, <1>4, <1>5, <2>2 DEF Base, Progress
    <2> QED BY <2>3, <2>4, <2>5
  <1>6. ASSUME persist.kind # "compaction" PROVE FileTypes' /\ Placed' /\ Progress'
    <2>1. /\ persist' = NoCall /\ integrity' = "intact"
          /\ durable' = [d \in Docs |-> IF persist.docs[d] = 0 THEN version[d] ELSE persist.docs[d]]
          /\ unlogged' \subseteq unlogged /\ unread' \subseteq unread
      BY <1>1, <1>6 DEF EndCheckpoint
    <2>2. durable' \in [Docs -> Nat] /\ Bounded(version, durable')
      <3>1. \A d \in Docs : persist.docs[d] <= version[d] /\ version[d] \in Nat /\ persist.docs[d] \in Nat
        BY <1>2 DEF Bounded
      <3> QED BY <2>1, <3>1 DEF Bounded
    <2>3. FileTypes'
      BY <1>1, <1>2, <2>1, <2>2 DEF FileTypes
    <2>4. Placed'
      BY <1>1, <1>2, <1>4, <2>1, <2>2, EmptyBelongs DEF Base, Placed, Writing
    <2>5. Progress'
      BY <2>1 DEF Progress
    <2> QED BY <2>3, <2>4, <2>5
  <1>7. Listed' = Listed /\ manifest' # Torn
    BY <1>1, <1>2, WrittenFiles DEF Listed
  <1>8. Apart'
    BY <1>1, <1>2, <1>7 DEF Base, Apart
  <1>9. Base'
    BY <1>5, <1>6, <1>8 DEF Base
  <1>10. FilesAreWhole' => WrittenWell'
    BY <1>9, WritesWell, PTL
  <1>11. PICK docs \in [Docs -> Nat] : docs = persist.docs
    BY <1>2
  <1>12. FilesAre(docs)' /\ FilesAreWhole'
    <2>1. /\ manifest # Torn /\ Listed \subseteq Projects
          /\ Listed = (IF model THEN ProjectsOf(persist.docs) ELSE {})
          /\ \A p \in Listed : checkpoint[p] = DocsOf(persist.docs, p)
          /\ checkpoint[Workspace] = IF model THEN DocsOf(persist.docs, Workspace) ELSE persist.docs
          /\ FilesAreWhole
      BY <1>1, <1>2, WrittenFiles
    <2>2. FilesAreWhole'
      BY <1>1, <1>7, <2>1 DEF FilesAreWhole
    <2>3. FilesAre(docs)'
      BY <1>1, <1>4, <1>7, <1>11, <2>1 DEF FilesAre
    <2> QED BY <2>2, <2>3
  <1>13. (Load # Rebuild /\ \A d \in Docs : Load[d] = docs[d])'
    BY <1>10, <1>11, <1>12 DEF WrittenWell
  <1> QED BY <1>4, <1>7, <1>9, <1>11, <1>13 DEF Base

\* The files hold what the checkpoint had of the server; so do they once it has ended.
LEMMA JournalConverges == ASSUME StoreInv, Inv', DeleteJournal PROVE StoreInv'
  <1> USE DEF memory
  <1> DEFINE docs == persist.docs
  <1>1. /\ persist # NoCall /\ persist.step = "journal" /\ persist.kind # "clear"
        /\ UNCHANGED <<checkpoint, manifest, partitioned, model, phase, cache, append, version>>
        /\ EndCheckpoint
    BY DEF DeleteJournal, At, StoreInv, Base, Progress
  <1>2. /\ append = NoCall /\ phase # "down" /\ version \in [Docs -> Nat] /\ Base
        /\ docs \in [Docs -> Nat] /\ Bounded(version, docs)
    BY <1>1, Progressing DEF StoreInv
  <1>3. /\ FileTypes' /\ Placed' /\ Apart' /\ Progress'
        /\ \A p \in Partitions : journal'[p] = NoFile /\ entries'[p] = <<>>
        /\ Listed' = Listed /\ manifest' # Torn /\ Load' # Rebuild
        /\ \A d \in Docs : Load'[d] = docs[d]
    BY JournalGone
  <1>4. /\ Listed = (IF model THEN ProjectsOf(docs) ELSE {}) /\ Listed \subseteq Projects
        /\ \A p \in Listed : checkpoint[p] = DocsOf(docs, p)
        /\ checkpoint[Workspace] = IF model THEN DocsOf(docs, Workspace) ELSE docs
        /\ FilesAreWhole /\ partitioned = model
    BY <1>1, <1>2, WrittenFiles
  <1>5. Workspace \in Partitions /\ Listed \cup {Workspace} \subseteq Partitions
    BY <1>4 DEF Partitions
  <1>6. ASSUME NEW dur, Current(dur, docs), NEW p \in Listed \cup {Workspace}
        PROVE  Sound(dur, checkpoint[p], NoFile)
    <2>1. \A q : Current(dur, DocsOf(docs, q))
      BY <1>2, <1>6, DocsOfFacts
    <2>2. Current(dur, checkpoint[p])
      BY <1>4, <1>6, <2>1
    <2> QED BY <2>2, SoundWithout
  <1>7. checkpoint[Workspace] # Torn /\ ~WorkspaceTorn'
    BY <1>1, <1>3, <1>4, <1>5, StoreAssumption DEF FilesAreWhole, WorkspaceTorn
  <1>8. CASE persist.kind = "compaction"
    <2>1. /\ persist' = [persist EXCEPT !.step = "validate"]
          /\ UNCHANGED <<durable, integrity>>
          /\ unlogged' = {d \in unlogged : cache[d] # docs[d]}
          /\ unread' = {d \in unread : cache[d] # docs[d]}
      BY <1>1, <1>8 DEF EndCheckpoint, Goto
    <2>2. persist' # NoCall /\ persist'.docs = docs /\ persist'.kind = persist.kind
      BY <1>1, <1>2, <2>1, GoneOn DEF Base
    <2>3. \A d \in Docs : d \in Known' => d \in Known \/ cache[d] = docs[d]
      BY <2>1 DEF Known
    <2>4. Good => Current(durable, docs)
      BY <1>1, Progressing
    <2>5. FilesTell'
      BY <1>1, <1>3, <1>5, <1>6, <2>1, <2>4 DEF FilesTell, Good
    <2> HIDE DEF docs
    <2>6. persist.kind # "checkpoint" /\ UNCHANGED <<append, phase, cache, version, durable, integrity>>
      BY <1>1, <1>8, <2>1
    <2> QED BY <1>1, <1>3, <1>7, <2>2, <2>3, <2>5, <2>6, CheckpointGoesOn DEF docs
  <1>9. CASE persist.kind # "compaction"
    <2>1. /\ persist' = NoCall /\ integrity' = "intact" /\ append' = NoCall
          /\ durable' = [d \in Docs |-> IF docs[d] = 0 THEN version[d] ELSE docs[d]]
          /\ unlogged' = {d \in unlogged : cache[d] # docs[d]}
          /\ unread' = {d \in unread : cache[d] # docs[d]}
      BY <1>1, <1>2, <1>9 DEF EndCheckpoint
    <2>2. persist.kind = "checkpoint"
      BY <1>1, <1>2, <1>9 DEF Base, FileTypes, StoreCall
    <2>3. \A d \in Docs : /\ cache[d] \in {docs[d], version[d]}
                          /\ d \notin unlogged => cache[d] = docs[d]
      BY <1>1, <2>2 DEF StoreInv, CheckpointTells
    <2>4. \A d \in Docs : docs[d] \in Nat /\ version[d] \in Nat /\ docs[d] <= version[d]
      BY <1>2 DEF Bounded
    <2>5. \A d \in Docs : durable'[d] = IF docs[d] = 0 THEN version[d] ELSE docs[d]
      BY <2>1
    <2>6. Current(durable', docs)
      BY <2>4, <2>5 DEF Current
    <2> HIDE DEF docs
    <2>7. FilesTell'
      BY <1>1, <1>3, <1>5, <1>6, <2>6 DEF FilesTell
    <2>8. CallsTell'
      <3>1. Current(durable', cache)
        BY <2>3, <2>4, <2>5 DEF Current
      <3> QED BY <1>1, <2>1, <3>1 DEF CallsTell
    <2>9. AppendTells' /\ WriteTells' /\ CheckpointTells'
      BY <2>1 DEF AppendTells, WriteTells, CheckpointTells, Writing
    <2>10. MemoryTells'
      BY <1>3, <1>5, <1>7, <2>1, TextOfNone, StoreAssumption DEF MemoryTells, Writing
    <2>11. UpTells'
      <3>1. \A p \in Listed \cup {Workspace} : Whole(checkpoint'[p])
        BY <1>1, <1>4, StoreAssumption DEF FilesAreWhole, Whole
      <3> QED BY <1>1, <1>3, <1>4, <1>5, <2>1, <3>1, TextOfNone DEF UpTells, Writing
    <2>12. IntactTells'
      <3>1. \A p \in Listed' \cup {Workspace} : Whole(checkpoint'[p]) /\ journal'[p] # Torn
        BY <1>1, <1>3, <1>4, <1>5, StoreAssumption DEF FilesAreWhole, Whole
      <3>2. \A d \in Known' : d \in Docs /\ cache[d] = docs[d]
        BY <2>1, <2>3 DEF Known
      <3> QED BY <1>1, <1>3, <2>1, <3>1, <3>2 DEF IntactTells
    <2> QED BY <1>3, <2>7, <2>8, <2>9, <2>10, <2>11, <2>12 DEF StoreInv, Base
  <1> QED BY <1>8, <1>9

-----------------------------------------------------------------------------
(* What load() leaves in the store.                                        *)

\* As long as no file of the workspace is torn, the journals it can use.
Loads(matches) ==
  /\ \A p \in Partitions :
       entries'[p] = <<>> \/ (journal[p] # Torn /\ entries'[p] = Text(journal[p]))
  /\ entries'[Workspace] = Text(journal[Workspace]) /\ journal[Workspace] # Torn
  /\ matches /\ (\A p \in Listed \cup {Workspace} : Restorable(p)) =>
       \A p \in Listed : entries'[p] = Text(journal[p])
  /\ partitioned' = (Listed # {})

LEMMA LoadedMemory ==
  ASSUME Base, ~WorkspaceTorn, NEW e, NEW n, NEW mode, NEW matches \in BOOLEAN,
         LoadMemory(e, n, mode, matches)
  PROVE  Loads(matches)
  <1>1. PICK taken \in TakenOver(matches) :
          LET kept(p) == IF p \in taken \cup {Workspace} THEN JournalOf(p) ELSE <<>>
          IN /\ entries' = [p \in Partitions |-> kept(p)]
             /\ partitioned' = (Listed # {})
    BY DEF LoadMemory
  <1>2. /\ Listed \subseteq Projects /\ Workspace \notin Listed
        /\ Workspace \in Partitions /\ Projects \subseteq Partitions
    BY Listing DEF Base, Partitions
  <1>3. journal[Workspace] # Torn
    BY DEF WorkspaceTorn
  <1>4. taken \subseteq Listed /\ \A p \in taken : journal[p] # Torn
    BY <1>1 DEF TakenOver, Restorable
  <1>5. matches /\ (\A p \in Listed \cup {Workspace} : Restorable(p)) => taken = Listed
    BY <1>1 DEF TakenOver
  <1>6. \A p \in Partitions :
           entries'[p] = IF p \in taken \cup {Workspace} THEN JournalOf(p) ELSE <<>>
    BY <1>1
  <1>7. \A p \in taken \cup {Workspace} : journal[p] # Torn /\ JournalOf(p) = Text(journal[p])
    BY <1>3, <1>4 DEF JournalOf, Text
  <1> QED BY <1>1, <1>2, <1>5, <1>6, <1>7 DEF Loads

\* Whole files can be restored.
FilesWhole ==
  manifest # Torn /\ \A p \in Listed \cup {Workspace} : Whole(checkpoint[p]) /\ journal[p] # Torn

LEMMA WholeIsLoadable ==
  ASSUME Base, FilesWhole
  PROVE  Loadable /\ Load # Rebuild /\ \A p \in Listed \cup {Workspace} : Restorable(p)
  <1>1. ASSUME NEW p \in Listed \cup {Workspace} PROVE Restorable(p)
    <2>1. p \in Partitions /\ Whole(checkpoint[p]) /\ journal[p] # Torn
      BY Listing DEF Base, FilesWhole
    <2>2. PICK j : j = JournalOf(p) /\ j \in Seq(JournalEntry) /\ Grows(j)
      BY <2>1, Texts DEF Base
    <2>3. ValidJournal(j)
      BY <2>2, GrowingIsValid
    <2> QED BY <2>1, <2>2, <2>3 DEF Restorable, Whole
  <1>2. Loadable
    BY <1>1 DEF Loadable, FilesWhole
  <1> QED BY <1>1, <1>2, LoadFacts

\* Every journal that load() may take over has its entries where they belong.
LEMMA LoadedPlaced ==
  ASSUME Placed, NEW matches, Loads(matches), NEW p \in Partitions
  PROVE  Belongs(version, entries'[p], p)
  <1>1. CASE entries'[p] = <<>>
    BY <1>1, EmptyBelongs
  <1>2. CASE journal[p] # Torn /\ entries'[p] = Text(journal[p])
    BY <1>2 DEF Placed
  <1> QED BY <1>1, <1>2 DEF Loads

\* What the server has up and running can be loaded.
LEMMA UpIsWhole ==
  ASSUME StoreInv, Good, phase = "up", persist = NoCall, Listed # {}
  PROVE  FilesWhole
  <1>1. ~WorkspaceTorn /\ \A p \in Listed : journal[p] # Torn
    BY DEF StoreInv, MemoryTells
  <1> QED BY <1>1 DEF StoreInv, UpTells, FilesWhole, WorkspaceTorn

LEMMA ValidateConverges == ASSUME ~Overlapping, StoreInv, Inv', Validate PROVE StoreInv'
  <1> USE DEF files, ghosts
  <1>1. /\ phase # "down" /\ append = NoCall /\ append' = NoCall /\ persist' = NoCall
        /\ persist = NoCall \/ (persist # NoCall /\ persist.step = "validate")
        /\ UNCHANGED <<checkpoint, journal, manifest, model, phase, restored, cache, edits,
                       version, durable, unlogged, unread, integrity>>
        /\ LoadMemory(entries, nextSequence, partitioned, TRUE)
    BY DEF Validate, MayCall, At, StoreInv, Base, Inv, Turns
  <1>2. Base /\ FileTypes /\ Placed /\ Listed' = Listed /\ Load' = Load
    BY <1>1, LoadUnchanged DEF StoreInv, Base
  <1>3. ~WorkspaceTorn => Loads(TRUE)
    BY <1>1, <1>2, LoadedMemory
  <1>4. WorkspaceTorn => entries' = entries /\ partitioned' = partitioned
    BY <1>1 DEF LoadMemory
  <1>5. ASSUME persist # NoCall
        PROVE  /\ FilesWhole /\ (Listed # {} => model)
               /\ \A p \in Partitions : journal[p] = NoFile
               /\ \A d \in Docs : Load[d] = persist.docs[d]
    <2>1. persist.step = "validate"
      BY <1>1, <1>5
    <2>2. /\ \A p \in Projects : journal[p] = NoFile
          /\ Listed = (IF model THEN ProjectsOf(persist.docs) ELSE {})
          /\ manifest # Torn /\ Listed \subseteq Projects
          /\ \A p \in Listed : checkpoint[p] = DocsOf(persist.docs, p)
          /\ checkpoint[Workspace] = IF model THEN DocsOf(persist.docs, Workspace) ELSE persist.docs
          /\ FilesAreWhole
      BY <1>2, <1>5, <2>1, WrittenFiles
    <2>3. journal[Workspace] = NoFile
      BY <1>2, <1>5, <2>1 DEF Base, Progress
    <2>4. \A p \in Partitions : journal[p] = NoFile
      BY <2>2, <2>3 DEF Partitions
    <2>5. FilesWhole
      BY <2>2, <2>4, StoreAssumption DEF FilesWhole, FilesAreWhole, Whole, Partitions
    <2>6. FilesAre(persist.docs) /\ persist.docs \in [Docs -> Nat]
      BY <1>2, <1>5, <2>2, <2>4, CallFacts DEF FilesAre
    <2>7. WrittenWell
      BY <1>2, <2>2, WritesWell
    <2> QED BY <2>2, <2>4, <2>5, <2>6, <2>7 DEF WrittenWell
  <1>6. Base'
    <2>1. partitioned' \in BOOLEAN
      BY <1>2, <1>3, <1>4 DEF Loads, FileTypes
    <2>2. FileTypes'
      BY <1>1, <1>2, <2>1 DEF FileTypes
    <2>3. \A p \in Partitions : Belongs(version, entries'[p], p)
      BY <1>2, <1>3, <1>4, LoadedPlaced DEF Placed
    <2>4. Placed'
      BY <1>1, <1>2, <2>3 DEF Placed, Writing
    <2>5. Apart' /\ Progress'
      BY <1>1, <1>2 DEF Base, Apart, Progress
    <2> QED BY <2>2, <2>4, <2>5 DEF Base
  <1>7. FilesTell' /\ CallsTell'
    BY <1>1, <1>2 DEF StoreInv, FilesTell, CallsTell, Good
  <1>8. AppendTells' /\ WriteTells' /\ CheckpointTells'
    BY <1>1 DEF AppendTells, WriteTells, CheckpointTells, Writing
  <1>9. ASSUME Good, phase = "up", Listed # {} PROVE FilesWhole
    BY <1>5, <1>9, UpIsWhole
  <1>10. MemoryTells'
    <2> SUFFICES ASSUME Good PROVE MemoryTells'
      BY <1>1 DEF MemoryTells, Good
    <2>1. ~WorkspaceTorn /\ Loads(TRUE)
      BY <1>1, <1>3 DEF StoreInv, MemoryTells
    <2>2. ASSUME phase = "up", NEW p \in Listed
          PROVE  entries'[p] = Text(journal[p]) /\ journal[p] # Torn
      BY <1>2, <1>9, <2>1, <2>2, WholeIsLoadable DEF Loads, FilesWhole
    <2>3. ~WorkspaceTorn'
      BY <1>1, <2>1 DEF WorkspaceTorn
    <2> QED BY <1>1, <1>2, <2>1, <2>2, <2>3 DEF MemoryTells, Loads, Writing
  <1>11. UpTells'
    <2> SUFFICES ASSUME Good, phase = "up" PROVE UpTells'
      BY <1>1 DEF UpTells, Good
    <2>1. partitioned' = (Listed # {})
      BY <1>1, <1>3 DEF StoreInv, MemoryTells, Loads
    <2>2. Listed # {} => model /\ \A p \in Listed \cup {Workspace} : Whole(checkpoint[p])
      BY <1>5, <1>9 DEF StoreInv, UpTells, FilesWhole
    <2>3. \A d \in Docs : ProjectOf[d] \in Listed => ~Mentions(Text(journal[Workspace]), d)
      BY <1>5, TextOfNone DEF StoreInv, UpTells, Partitions
    <2> QED BY <1>1, <1>2, <2>1, <2>2, <2>3 DEF UpTells, Writing
  <1>12. IntactTells'
    <2> SUFFICES ASSUME integrity = "intact" PROVE IntactTells'
      BY <1>1 DEF IntactTells
    <2>1. FilesWhole
      BY <1>5 DEF StoreInv, IntactTells, FilesWhole
    <2>2. \A d \in Known : Load[d] = cache[d]
      <3>1. CASE persist = NoCall
        BY <1>1, <3>1 DEF StoreInv, IntactTells
      <3>2. CASE persist # NoCall
        <4>1. persist.kind # "clear"
          BY <1>1, <3>2 DEF StoreInv, Base, Progress
        <4> QED BY <1>5, <3>2, <4>1 DEF StoreInv, IntactTells, Known
      <3> QED BY <3>1, <3>2
    <2>3. Known' = Known
      BY <1>1 DEF Known
    <2> QED BY <1>1, <1>2, <2>1, <2>2, <2>3 DEF IntactTells, FilesWhole
  <1> QED BY <1>6, <1>7, <1>8, <1>10, <1>11, <1>12 DEF StoreInv

-----------------------------------------------------------------------------
(* Calls that begin.                                                       *)

LEMMA Called ==
  ASSUME NEW kind \in {"checkpoint", "compaction", "clear"}, NEW docs \in [Docs -> Nat]
  PROVE  /\ Call(kind, docs) \in StoreCall /\ Call(kind, docs) # NoCall
         /\ Call(kind, docs).kind = kind /\ Call(kind, docs).docs = docs
         /\ Call(kind, docs).step = (IF kind = "clear" THEN "clear" ELSE "begin")
         /\ Call(kind, docs).rest = ProjectsOf(docs)
  <1>1. ProjectsOf(docs) \in SUBSET Projects
    BY DEF ProjectsOf
  <1>2. /\ Call(kind, docs) \in StoreCall
        /\ Call(kind, docs).kind = kind /\ Call(kind, docs).docs = docs
        /\ Call(kind, docs).step = (IF kind = "clear" THEN "clear" ELSE "begin")
        /\ Call(kind, docs).rest = ProjectsOf(docs)
    BY <1>1 DEF Call, StoreCall
  <1> QED BY <1>2, CallsDiffer

\* A call that begins leaves the files as they are.
LEMMA CallBegins ==
  ASSUME StoreInv, Inv', phase # "down", append = NoCall, append' = NoCall,
         NEW kind \in {"checkpoint", "compaction", "clear"}, NEW docs \in [Docs -> Nat],
         persist' = Call(kind, docs), Bounded(version, docs), Good => Current(durable, docs),
         UNCHANGED <<files, durable, version, integrity>>,
         FileTypes', \A p \in Partitions : Belongs(version, entries'[p], p),
         Bounded(version, cache'), Good => Current(durable, cache'),
         kind = "clear" => entries' = NoEntries /\ ~partitioned' /\ docs = Nowhere,
         kind = "checkpoint" => docs = cache',
         integrity = "intact" /\ kind # "clear" => \A d \in Known' : docs[d] = cache'[d]
  PROVE  StoreInv'
  <1> USE DEF files
  <1>1. /\ persist' # NoCall /\ persist'.kind = kind /\ persist'.docs = docs
        /\ persist'.step = (IF kind = "clear" THEN "clear" ELSE "begin")
        /\ persist'.rest = ProjectsOf(docs)
    BY Called
  <1>2. Listed' = Listed
    BY DEF Listed
  <1>3. Placed'
    BY DEF StoreInv, Base, Placed, Writing
  <1>4. Apart'
    BY <1>2 DEF StoreInv, Base, Apart
  <1>5. Progress'
    BY <1>1 DEF Progress
  <1>6. FilesTell' /\ CallsTell'
    BY <1>1, <1>2 DEF StoreInv, FilesTell, CallsTell, Good
  <1>7. AppendTells' /\ WriteTells' /\ UpTells'
    BY <1>1 DEF AppendTells, WriteTells, UpTells, Writing
  <1>8. MemoryTells'
    BY <1>1 DEF StoreInv, MemoryTells, Good, WorkspaceTorn
  <1>9. CheckpointTells'
    BY <1>1 DEF CheckpointTells
  <1>10. IntactTells'
    BY <1>1 DEF IntactTells
  <1> QED BY <1>3, <1>4, <1>5, <1>6, <1>7, <1>8, <1>9, <1>10 DEF StoreInv, Base

LEMMA SaveConverges == ASSUME ~Overlapping, StoreInv, Inv', SaveCheckpoint PROVE StoreInv'
  <1>1. /\ phase # "down" /\ append = NoCall /\ append' = NoCall
        /\ persist' = Call("checkpoint", cache)
        /\ UNCHANGED <<files, entries, partitioned, model, phase, restored, cache, durable,
                       version, integrity, unlogged, unread>>
    BY DEF SaveCheckpoint, MayCall, memory, ghosts
  <1>2. FileTypes /\ Placed /\ cache \in [Docs -> Nat]
    BY DEF StoreInv, Base, FileTypes
  <1>3. Call("checkpoint", cache) \in StoreCall
    BY <1>2, Called
  <1>4. FileTypes'
    BY <1>1, <1>2, <1>3 DEF FileTypes, files
  <1>5. (\A p \in Partitions : Belongs(version, entries[p], p)) /\ Bounded(version, cache)
    BY <1>2 DEF Placed
  <1>6. Good => Current(durable, cache)
    BY DEF StoreInv, CallsTell
  <1>7. UNCHANGED <<files, durable, version, integrity>> /\ cache' = cache
    BY <1>1
  <1>8. \A p \in Partitions : Belongs(version, entries'[p], p)
    BY <1>1, <1>5
  <1>9. "checkpoint" \in {"checkpoint", "compaction", "clear"} /\ "checkpoint" # "clear"
    OBVIOUS
  <1> QED BY ONLY StoreInv, Inv', <1>1, <1>2, <1>4, <1>5, <1>6, <1>7, <1>8, <1>9, CallBegins

LEMMA ClearConverges == ASSUME ~Overlapping, StoreInv, Inv', BeginClear PROVE StoreInv'
  <1>1. /\ phase # "down" /\ append = NoCall /\ append' = NoCall
        /\ persist' = Call("clear", Nowhere)
        /\ entries' = NoEntries /\ partitioned' = FALSE
        /\ UNCHANGED <<files, model, phase, restored, cache, durable, version, integrity,
                       unlogged, unread>>
    BY DEF BeginClear, MayCall, ghosts
  <1>2. FileTypes /\ Placed /\ version \in [Docs -> Nat]
    BY DEF StoreInv, Base, Inv, Types
  <1>3. Nowhere \in [Docs -> Nat] /\ Bounded(version, Nowhere) /\ Current(durable, Nowhere)
    BY <1>2 DEF Nowhere, Bounded, Current
  <1>4. Call("clear", Nowhere) \in StoreCall
    BY <1>3, Called
  <1>5. FileTypes'
    BY <1>1, <1>2, <1>4 DEF FileTypes, files
  <1>6. Bounded(version, cache)
    BY <1>2 DEF Placed
  <1>7. Good => Current(durable, cache)
    BY DEF StoreInv, CallsTell
  <1>8. UNCHANGED <<files, durable, version, integrity>> /\ cache' = cache
    BY <1>1
  <1>9. \A p \in Partitions : Belongs(version, entries'[p], p)
    BY <1>1, EmptyBelongs DEF NoEntries
  <1>10. "clear" \in {"checkpoint", "compaction", "clear"} /\ "clear" # "checkpoint"
    OBVIOUS
  <1> QED BY ONLY StoreInv, Inv', <1>1, <1>3, <1>5, <1>6, <1>7, <1>8, <1>9, <1>10, CallBegins

\* What load() finds between calls is what the server has.
LEMMA IntactIsLoaded ==
  ASSUME StoreInv, integrity = "intact", append = NoCall, persist = NoCall
  PROVE  /\ FilesWhole /\ Load # Rebuild
         /\ phase # "down" => \A d \in Known : Load[d] = cache[d]
  <1>1. FilesWhole
    BY DEF StoreInv, IntactTells, FilesWhole
  <1> QED BY <1>1, WholeIsLoadable DEF StoreInv, IntactTells

\* What a load changes of the store has the entries where they belong.
LEMMA LoadLeaves ==
  ASSUME StoreInv, NEW matches \in BOOLEAN,
         LoadMemory(entries, nextSequence, partitioned, matches) \/ OpenStore(matches)
  PROVE  /\ partitioned' \in BOOLEAN
         /\ \A p \in Partitions : Belongs(version, entries'[p], p)
         /\ ~WorkspaceTorn => Loads(matches)
  <1>1. Base /\ Placed
    BY DEF StoreInv, Base
  <1>2. CASE WorkspaceTorn
    <2>1. \/ entries' = entries /\ partitioned' = partitioned
          \/ entries' = NoEntries /\ partitioned' = FALSE
      BY <1>2 DEF LoadMemory, OpenStore
    <2> QED BY <1>1, <1>2, <2>1, EmptyBelongs DEF Base, FileTypes, Placed, NoEntries
  <1>3. CASE ~WorkspaceTorn
    <2>1. Loads(matches)
      BY <1>1, <1>3, LoadedMemory DEF OpenStore
    <2> QED BY <1>1, <2>1, LoadedPlaced DEF Loads
  <1> QED BY <1>2, <1>3

LEMMA CompactConverges == ASSUME ~Overlapping, StoreInv, Inv', Compact PROVE StoreInv'
  <1>1. /\ phase # "down" /\ append = NoCall /\ append' = NoCall /\ persist = NoCall
        /\ persist' = (IF Load = Rebuild THEN NoCall ELSE Call("compaction", Load))
        /\ UNCHANGED <<files, pending, model, phase, restored, cache, append, ghosts>>
        /\ LoadMemory(entries, nextSequence, partitioned, TRUE)
    BY DEF Compact, MayCall
  <1>2. CASE Load = Rebuild
    <2>1. Validate
      BY <1>1, <1>2 DEF Validate, MayCall
    <2> QED BY <2>1, ValidateConverges
  <1>3. CASE Load # Rebuild
    <2>1. Base /\ FileTypes /\ Placed
      BY DEF StoreInv, Base
    <2>2. Loadable /\ Load \in [Docs -> Nat] /\ Bounded(version, Load)
      BY <1>3, <2>1, LoadFacts
    <2>3. PICK docs \in [Docs -> Nat] : docs = Load
      BY <2>2
    <2>4. persist' = Call("compaction", docs) /\ Call("compaction", docs) \in StoreCall
      BY <1>1, <1>3, <2>3, Called
    <2>5. /\ partitioned' \in BOOLEAN
          /\ \A p \in Partitions : Belongs(version, entries'[p], p)
      BY <1>1, LoadLeaves
    <2>6. UNCHANGED <<files, durable, version, integrity>> /\ cache' = cache /\ Known' = Known
      BY <1>1 DEF ghosts, Known
    <2>7. FileTypes'
      BY <1>1, <2>1, <2>4, <2>5 DEF FileTypes, files, ghosts
    <2>8. Bounded(version, docs) /\ Bounded(version, cache')
      BY <2>1, <2>2, <2>3, <2>6 DEF Placed
    <2>9. Good => Current(durable, docs) /\ Current(durable, cache')
      BY <2>1, <2>2, <2>3, <2>6, LoadIsCurrent DEF StoreInv, CallsTell
    <2>10. integrity = "intact" => \A d \in Known' : docs[d] = cache'[d]
      BY <1>1, <2>3, <2>6, IntactIsLoaded
    <2>11. "compaction" \in {"checkpoint", "compaction", "clear"}
           /\ "compaction" # "checkpoint" /\ "compaction" # "clear"
      OBVIOUS
    <2> QED BY ONLY StoreInv, Inv', <1>1, <2>3, <2>4, <2>5, <2>6, <2>7, <2>8, <2>9, <2>10,
                    <2>11, CallBegins
  <1> QED BY <1>2, <1>3

LEMMA DiscoverConverges ==
  ASSUME StoreInv, Inv', NEW known \in BOOLEAN, NEW matches \in BOOLEAN,
         Discover(known, matches)
  PROVE  StoreInv'
  <1> DEFINE found == IF matches THEN Load ELSE Rebuild
             kept == IF found = Rebuild THEN IF restored THEN Nowhere ELSE cache
                     ELSE IF restored \/ found = Nowhere THEN cache ELSE found
  <1>1. /\ phase # "down" /\ append = NoCall /\ append' = NoCall
        /\ phase' = "up" /\ model' = known /\ OpenStore(matches) /\ cache' = kept
        /\ persist' = Call("checkpoint", kept)
        /\ UNCHANGED <<files, restored, version, durable, unread, integrity>>
        /\ unlogged' \subseteq unlogged \cup Docs
    BY DEF Discover
  <1>2. Base /\ FileTypes /\ Placed /\ version \in [Docs -> Nat]
    BY DEF StoreInv, Base, Inv, Types
  <1>3. found # Rebuild => Loadable /\ Load = found
    BY <1>2, LoadFacts
  <1>4. kept \in {Nowhere, cache} \/ (kept = Load /\ Loadable)
    BY <1>3
  <1> HIDE DEF found, kept
  <1>5. Nowhere \in [Docs -> Nat] /\ Bounded(version, Nowhere) /\ Current(durable, Nowhere)
    BY <1>2 DEF Nowhere, Bounded, Current
  <1>6. Loadable => Load \in [Docs -> Nat] /\ Bounded(version, Load)
    BY <1>2, LoadFacts
  <1>7. Good /\ Loadable => Current(durable, Load)
    BY <1>2, LoadIsCurrent DEF StoreInv
  <1>8. kept \in [Docs -> Nat] /\ Bounded(version, kept) /\ (Good => Current(durable, kept))
    BY <1>2, <1>4, <1>5, <1>6, <1>7 DEF FileTypes, Placed, StoreInv, CallsTell
  <1>9. PICK docs \in [Docs -> Nat] : docs = kept
    BY <1>8
  <1>10. persist' = Call("checkpoint", docs) /\ Call("checkpoint", docs) \in StoreCall /\ cache' = docs
    BY <1>1, <1>9, Called
  <1>11. /\ partitioned' \in BOOLEAN
         /\ \A p \in Partitions : Belongs(version, entries'[p], p)
    BY <1>1, LoadLeaves
  <1>12. FileTypes'
    BY <1>1, <1>2, <1>10, <1>11 DEF FileTypes, files
  <1>13. "checkpoint" \in {"checkpoint", "compaction", "clear"} /\ "checkpoint" # "clear"
    OBVIOUS
  <1>14. UNCHANGED <<files, durable, version, integrity>>
    BY <1>1
  <1> QED BY ONLY StoreInv, Inv', <1>1, <1>8, <1>9, <1>10, <1>11, <1>12, <1>13, <1>14, CallBegins

LEMMA StartConverges == ASSUME StoreInv, Inv', Start PROVE StoreInv'
  <1> USE DEF files
  <1>1. /\ phase = "down" /\ phase' = "early" /\ model' = FALSE /\ OpenStore(TRUE)
        /\ cache' = (IF Load = Rebuild THEN Nowhere ELSE Load)
        /\ restored' \in BOOLEAN /\ unlogged' = {} /\ unread' = {}
        /\ integrity' = (IF WorkspaceTorn /\ integrity # "failed" THEN "torn" ELSE integrity)
        /\ append = NoCall /\ persist = NoCall
        /\ UNCHANGED <<checkpoint, journal, manifest, append, persist, version, durable>>
    BY DEF Start, StoreInv, Base, Inv, Turns
  <1>2. Base /\ FileTypes /\ Placed /\ version \in [Docs -> Nat]
    BY DEF StoreInv, Base, Inv, Types
  <1>3. Nowhere \in [Docs -> Nat] /\ Bounded(version, Nowhere) /\ Current(durable, Nowhere)
    BY <1>2 DEF Nowhere, Bounded, Current
  <1>4. Load # Rebuild => Loadable /\ Load \in [Docs -> Nat] /\ Bounded(version, Load)
    BY <1>2, LoadFacts
  <1>5. cache' \in [Docs -> Nat] /\ Bounded(version, cache')
    BY <1>1, <1>3, <1>4
  <1>6. Good' => Good /\ ~WorkspaceTorn
    BY <1>1 DEF Good
  <1>7. /\ partitioned' \in BOOLEAN
        /\ \A p \in Partitions : Belongs(version, entries'[p], p)
        /\ ~WorkspaceTorn => Loads(TRUE)
    BY <1>1, LoadLeaves
  <1>8. Listed' = Listed /\ Load' = Load
    BY <1>1, LoadUnchanged
  <1>9. Base'
    <2>1. FileTypes'
      BY <1>1, <1>2, <1>5, <1>7 DEF FileTypes
    <2>2. Placed'
      BY <1>1, <1>2, <1>5, <1>7 DEF Placed, Writing
    <2>3. Apart' /\ Progress'
      BY <1>1, <1>2, <1>8 DEF Base, Apart, Progress
    <2> QED BY <2>1, <2>2, <2>3 DEF Base
  <1>10. FilesTell'
    BY <1>1, <1>6, <1>8 DEF StoreInv, FilesTell
  <1>11. CallsTell'
    <2>1. Good => Current(durable, cache')
      BY <1>1, <1>2, <1>3, <1>4, LoadIsCurrent DEF StoreInv
    <2> QED BY <1>1, <1>6, <2>1 DEF CallsTell
  <1>12. AppendTells' /\ WriteTells' /\ CheckpointTells' /\ UpTells'
    BY <1>1 DEF AppendTells, WriteTells, CheckpointTells, UpTells, Writing
  <1>13. MemoryTells'
    BY <1>1, <1>6, <1>7 DEF MemoryTells, Loads, Writing, WorkspaceTorn
  <1>14. IntactTells'
    <2> SUFFICES ASSUME integrity' = "intact" PROVE IntactTells'
      BY DEF IntactTells
    <2>1. integrity = "intact"
      BY <1>1
    <2>2. FilesWhole /\ Load # Rebuild
      BY <1>1, <2>1, IntactIsLoaded
    <2> QED BY <1>1, <1>8, <2>2 DEF IntactTells, FilesWhole
  <1> QED BY <1>9, <1>10, <1>11, <1>12, <1>13, <1>14 DEF StoreInv

-----------------------------------------------------------------------------
(* The end of a clear, and what is cut short.                              *)

LEMMA ClearEnds == ASSUME StoreInv, Inv', EndClear PROVE StoreInv'
  <1> USE DEF memory
  <1>1. /\ persist # NoCall /\ persist.step = "clear" /\ persist' = NoCall
        /\ checkpoint' = [p \in Partitions |-> NoFile]
        /\ journal' = [p \in Partitions |-> NoFile]
        /\ manifest' = NoFile
        /\ integrity' = (IF integrity = "intact" THEN "open" ELSE integrity)
        /\ UNCHANGED <<entries, partitioned, model, phase, restored, cache, append, version,
                       durable, unlogged, unread>>
    BY DEF EndClear, At
  <1>2. /\ FileTypes /\ Placed /\ append = NoCall /\ append' = NoCall
        /\ entries = NoEntries /\ ~partitioned
    BY <1>1, Progressing DEF StoreInv, Base, Progress
  <1>3. Listed' = {} /\ \A p \in Partitions : checkpoint'[p] = NoFile /\ journal'[p] = NoFile
    BY <1>1 DEF Listed
  <1>4. Workspace \in Partitions /\ ~Whole(NoFile)
    BY DEF Partitions, Whole
  <1>5. Base'
    <2>1. FileTypes'
      BY <1>1, <1>2 DEF FileTypes
    <2>2. Placed'
      BY <1>1, <1>2, <1>3, <1>4, EmptyBelongs DEF Placed, Writing
    <2>3. Apart' /\ Progress'
      BY <1>1, <1>3, <1>4 DEF Apart, Progress
    <2> QED BY <2>1, <2>2, <2>3 DEF Base
  <1>6. FilesTell'
    <2>1. Sound(durable, NoFile, NoFile)
      BY <1>4, SoundWithout
    <2> QED BY <1>1, <1>3, <1>4, <2>1 DEF FilesTell
  <1>7. Good' => Good
    BY <1>1 DEF Good
  <1>8. CallsTell'
    BY <1>1, <1>7 DEF StoreInv, CallsTell
  <1>9. AppendTells' /\ WriteTells' /\ CheckpointTells'
    BY <1>1, <1>2 DEF AppendTells, WriteTells, CheckpointTells, Writing
  <1>10. MemoryTells' /\ UpTells'
    <2>1. ~WorkspaceTorn'
      BY <1>1, <1>3, <1>4, StoreAssumption DEF WorkspaceTorn
    <2>2. entries'[Workspace] = Text(journal'[Workspace])
      BY <1>1, <1>2, <1>3, <1>4 DEF NoEntries, Text
    <2> QED BY <1>2, <1>3, <2>1, <2>2 DEF MemoryTells, UpTells, Writing
  <1>11. IntactTells'
    BY <1>1 DEF IntactTells
  <1> QED BY <1>5, <1>6, <1>8, <1>9, <1>10, <1>11 DEF StoreInv

\* Files may be gone or torn, but none has new contents; and what is deleted is deleted
\* by a call.
LEMMA CutShort ==
  ASSUME FileTypes, Interrupted
  PROVE  /\ checkpoint' \in [Partitions -> [Docs -> Nat] \cup {NoFile, Torn}]
         /\ \A p \in Partitions : /\ checkpoint'[p] \in {checkpoint[p], NoFile, Torn}
                                  /\ journal'[p] \in {journal[p], NoFile, Torn}
         /\ manifest' \in {manifest, NoFile, Torn}
         /\ ~Deleting => /\ \A p \in Partitions : /\ checkpoint'[p] \in {checkpoint[p], Torn}
                                                  /\ journal'[p] \in {journal[p], Torn}
                         /\ manifest' \in {manifest, Torn}
         /\ append = NoCall /\ persist = NoCall => UNCHANGED files
  <1>1. checkpoint \in [Partitions -> [Docs -> Nat] \cup {NoFile, Torn}]
    BY DEF FileTypes
  <1>2. CASE UNCHANGED files
    BY <1>1, <1>2 DEF files
  <1>3. CASE /\ append # NoCall
             /\ journal' = [journal EXCEPT ![append.part] = Torn]
             /\ UNCHANGED <<checkpoint, manifest>>
    <2>1. ASSUME NEW p \in Partitions PROVE journal'[p] \in {journal[p], Torn}
      <3>1. CASE p \in DOMAIN journal
        BY <1>3, <3>1
      <3>2. CASE p \notin DOMAIN journal
        BY <1>3, <3>2
      <3> QED BY <3>1, <3>2
    <2> QED BY <1>1, <1>3, <2>1
  <1>4. CASE /\ At("checkpoint") \/ At("project")
             /\ \E p \in Partitions : checkpoint' = [checkpoint EXCEPT ![p] = Torn]
             /\ UNCHANGED <<journal, manifest>>
    BY <1>1, <1>4 DEF At
  <1>5. CASE At("project") /\ manifest' = Torn /\ UNCHANGED <<checkpoint, journal>>
    BY <1>1, <1>5 DEF At
  <1>6. CASE /\ Deleting
             /\ \E c, j :
                  /\ checkpoint' = [p \in Partitions |-> IF p \in c THEN NoFile ELSE checkpoint[p]]
                  /\ journal' = [p \in Partitions |-> IF p \in j THEN NoFile ELSE journal[p]]
             /\ manifest' \in {manifest, NoFile}
    <2>1. persist # NoCall
      BY <1>6 DEF Deleting, At
    <2>2. PICK c, j : /\ checkpoint' = [p \in Partitions |-> IF p \in c THEN NoFile ELSE checkpoint[p]]
                      /\ journal' = [p \in Partitions |-> IF p \in j THEN NoFile ELSE journal[p]]
      BY <1>6
    <2> QED BY <1>1, <1>6, <2>1, <2>2
  <1>7. persist # NoCall => persist.rest \subseteq Projects /\ Projects \subseteq Partitions
    BY CallFacts DEF Partitions
  <1>8. Workspace \in Partitions
    BY DEF Partitions
  <1>9. \/ UNCHANGED files
        \/ /\ append # NoCall
           /\ journal' = [journal EXCEPT ![append.part] = Torn]
           /\ UNCHANGED <<checkpoint, manifest>>
        \/ /\ At("checkpoint") \/ At("project")
           /\ \E p \in Partitions : checkpoint' = [checkpoint EXCEPT ![p] = Torn]
           /\ UNCHANGED <<journal, manifest>>
        \/ At("project") /\ manifest' = Torn /\ UNCHANGED <<checkpoint, journal>>
        \/ /\ Deleting
           /\ \E c, j :
                /\ checkpoint' = [p \in Partitions |-> IF p \in c THEN NoFile ELSE checkpoint[p]]
                /\ journal' = [p \in Partitions |-> IF p \in j THEN NoFile ELSE journal[p]]
           /\ manifest' \in {manifest, NoFile}
    BY <1>7, <1>8 DEF Interrupted, At
  <1> QED BY <1>2, <1>3, <1>4, <1>5, <1>6, <1>9

\* What is left keeps its place, and stays sound but for what was being deleted.
LEMMA CutPlaced ==
  ASSUME StoreInv, Interrupted, version' = version, durable' = durable
  PROVE  /\ manifest' \in (SUBSET Projects) \cup {NoFile, Torn} /\ Apart'
         /\ \A p \in Partitions :
              /\ Whole(checkpoint'[p]) => Fits(version, checkpoint'[p], p)
              /\ journal'[p] # Torn => Belongs(version, Text(journal'[p]), p)
         /\ Good /\ ~Deleting => \A p \in Listed' \cup {Workspace} :
                                   Sound(durable, checkpoint'[p], journal'[p])
  <1>1. FileTypes /\ Placed /\ Apart
    BY DEF StoreInv, Base
  <1>2. /\ \A p \in Partitions : /\ checkpoint'[p] \in {checkpoint[p], NoFile, Torn}
                                 /\ journal'[p] \in {journal[p], NoFile, Torn}
        /\ manifest' \in {manifest, NoFile, Torn}
    BY <1>1, CutShort
  <1>3. ~Whole(NoFile) /\ ~Whole(Torn)
    BY DEF Whole
  <1>4. Listed' \in {Listed, {}}
    BY <1>2 DEF Listed
  <1>5. Workspace \in Partitions /\ Listed \cup {Workspace} \subseteq Partitions
    BY <1>1, Listing DEF Partitions
  <1>6. manifest' \in (SUBSET Projects) \cup {NoFile, Torn}
    BY <1>1, <1>2 DEF FileTypes
  <1>7. Apart'
    BY <1>1, <1>2, <1>3, <1>4, <1>5 DEF Apart
  <1>8. ASSUME NEW p \in Partitions
        PROVE  /\ Whole(checkpoint'[p]) => Fits(version, checkpoint'[p], p)
               /\ journal'[p] # Torn => Belongs(version, Text(journal'[p]), p)
    BY <1>1, <1>2, <1>3, EmptyBelongs DEF Placed
  <1>9. ASSUME Good, ~Deleting, NEW p \in Listed' \cup {Workspace}
        PROVE  Sound(durable, checkpoint'[p], journal'[p])
    <2>1. p \in Partitions /\ p \in Listed \cup {Workspace}
      BY <1>4, <1>5
    <2>2. checkpoint'[p] \in {checkpoint[p], Torn} /\ journal'[p] \in {journal[p], Torn}
      BY <1>1, <1>9, <2>1, CutShort
    <2>3. Sound(durable, checkpoint[p], journal[p])
      BY <1>9, <2>1 DEF StoreInv, FilesTell
    <2> QED BY <1>3, <2>2, <2>3 DEF Sound
  <1> QED BY <1>6, <1>7, <1>8, <1>9

LEMMA FailConverges == ASSUME StoreInv, Inv', FailCheckpoint PROVE StoreInv'
  <1> USE DEF memory
  <1>1. /\ persist # NoCall /\ Interrupted /\ persist' = NoCall /\ integrity' = "failed"
        /\ UNCHANGED <<entries, partitioned, model, phase, restored, cache, append, version,
                       durable, unlogged, unread>>
    BY DEF FailCheckpoint
  <1>2. FileTypes /\ Placed /\ append = NoCall /\ append' = NoCall
    BY <1>1, Progressing DEF StoreInv, Base
  <1>3. checkpoint' \in [Partitions -> [Docs -> Nat] \cup {NoFile, Torn}]
    BY <1>1, <1>2, CutShort
  <1>4. /\ manifest' \in (SUBSET Projects) \cup {NoFile, Torn} /\ Apart'
        /\ \A p \in Partitions :
             /\ Whole(checkpoint'[p]) => Fits(version, checkpoint'[p], p)
             /\ journal'[p] # Torn => Belongs(version, Text(journal'[p]), p)
    BY <1>1, CutPlaced
  <1>5. FileTypes'
    BY <1>1, <1>2, <1>3, <1>4 DEF FileTypes
  <1>6. Placed'
    BY <1>1, <1>2, <1>4 DEF Placed, Writing
  <1>7. Base'
    BY <1>1, <1>4, <1>5, <1>6 DEF Base, Progress
  <1>8. ~Good'
    BY <1>1 DEF Good
  <1>9. FilesTell' /\ CallsTell' /\ MemoryTells' /\ UpTells'
    BY <1>8 DEF FilesTell, CallsTell, MemoryTells, UpTells
  <1>10. AppendTells' /\ WriteTells' /\ CheckpointTells' /\ IntactTells'
    BY <1>1, <1>2 DEF AppendTells, WriteTells, CheckpointTells, IntactTells, Writing
  <1> QED BY <1>7, <1>9, <1>10 DEF StoreInv

LEMMA CrashConverges == ASSUME StoreInv, Inv', Crash PROVE StoreInv'
  <1>1. /\ Interrupted /\ phase' = "down" /\ model' = FALSE /\ restored' = FALSE
        /\ entries' = NoEntries /\ partitioned' = FALSE /\ cache' = Nowhere
        /\ append' = NoCall /\ persist' = NoCall /\ integrity' = IntegrityAfter
        /\ unlogged' = {} /\ unread' = {} /\ UNCHANGED <<version, durable>>
    BY DEF Crash
  <1>2. FileTypes /\ Placed /\ version \in [Docs -> Nat]
    BY DEF StoreInv, Base, Inv, Types
  <1>3. checkpoint' \in [Partitions -> [Docs -> Nat] \cup {NoFile, Torn}]
    BY <1>1, <1>2, CutShort
  <1>4. /\ manifest' \in (SUBSET Projects) \cup {NoFile, Torn} /\ Apart'
        /\ \A p \in Partitions :
             /\ Whole(checkpoint'[p]) => Fits(version, checkpoint'[p], p)
             /\ journal'[p] # Torn => Belongs(version, Text(journal'[p]), p)
    BY <1>1, CutPlaced
  <1>5. Nowhere \in [Docs -> Nat] /\ Bounded(version, Nowhere) /\ \A dur : Current(dur, Nowhere)
    BY <1>2 DEF Nowhere, Bounded, Current
  <1>6. /\ integrity' \in {"intact", "open", "torn", "failed"}
        /\ Good' => Good /\ ~Deleting
        /\ integrity' = "intact" => integrity = "intact" /\ append = NoCall /\ persist = NoCall
    BY <1>1, <1>2 DEF FileTypes, IntegrityAfter, Good
  <1>7. FileTypes'
    BY <1>1, <1>2, <1>3, <1>4, <1>5, <1>6 DEF FileTypes
  <1>8. Placed'
    BY <1>1, <1>2, <1>4, <1>5, EmptyBelongs DEF Placed, Writing, NoEntries
  <1>9. Base'
    BY <1>1, <1>4, <1>7, <1>8 DEF Base, Progress
  <1>10. FilesTell' /\ CallsTell'
    BY <1>1, <1>5, <1>6, CutPlaced DEF FilesTell, CallsTell
  <1>11. MemoryTells' /\ UpTells' /\ AppendTells' /\ WriteTells' /\ CheckpointTells'
    BY <1>1 DEF MemoryTells, UpTells, AppendTells, WriteTells, CheckpointTells, Writing
  <1>12. IntactTells'
    <2> SUFFICES ASSUME integrity' = "intact" PROVE IntactTells'
      BY DEF IntactTells
    <2>1. FilesWhole
      BY <1>6, IntactIsLoaded
    <2>2. UNCHANGED files
      BY <1>1, <1>2, <1>6, CutShort
    <2>3. Listed' = Listed
      BY <2>2, LoadUnchanged
    <2> QED BY <1>1, <2>1, <2>2, <2>3 DEF IntactTells, FilesWhole, files
  <1> QED BY <1>9, <1>10, <1>11, <1>12 DEF StoreInv

-----------------------------------------------------------------------------
(* New versions.                                                           *)

\* A new version of a document takes nothing back.
LEMMA NewVersion ==
  ASSUME version \in [Docs -> Nat], NEW d \in Docs, version' = [version EXCEPT ![d] = @ + 1]
  PROVE  /\ version' \in [Docs -> Nat] /\ version'[d] = version[d] + 1
         /\ \A x \in Docs : version[x] <= version'[x]
         /\ \A x \in Docs : x # d => version'[x] = version[x]
         /\ \A docs \in [Docs -> Nat] : Bounded(version, docs) => Bounded(version', docs)
         /\ \A p : \A c \in [Docs -> Nat] : Fits(version, c, p) => Fits(version', c, p)
         /\ \A p : \A j \in Seq(JournalEntry) : Belongs(version, j, p) => Belongs(version', j, p)
  <1>1. \A x \in Docs : version[x] \in Nat /\ version'[x] \in Nat /\ version[x] <= version'[x]
    OBVIOUS
  <1>2. \A n, v, w \in Nat : n <= v /\ v <= w => n <= w
    OBVIOUS
  <1>3. ASSUME NEW docs \in [Docs -> Nat], Bounded(version, docs) PROVE Bounded(version', docs)
    BY <1>1, <1>2, <1>3 DEF Bounded
  <1>4. ASSUME NEW c \in [Docs -> Nat], NEW p, Fits(version, c, p) PROVE Fits(version', c, p)
    BY <1>1, <1>2, <1>4 DEF Fits
  <1>5. ASSUME NEW j \in Seq(JournalEntry), NEW p, Belongs(version, j, p)
        PROVE  Belongs(version', j, p)
    <2> SUFFICES ASSUME NEW i \in DOMAIN j PROVE j[i].record <= version'[j[i].doc]
      BY <1>5 DEF Belongs
    <2>1. j[i] \in JournalEntry
      OBVIOUS
    <2>2. j[i].record \in Nat /\ j[i].doc \in Docs
      BY <2>1 DEF JournalEntry
    <2> QED BY <1>1, <1>2, <1>5, <2>2 DEF Belongs
  <1>6. version' \in [Docs -> Nat] /\ version'[d] = version[d] + 1
        /\ \A x \in Docs : x # d => version'[x] = version[x]
    OBVIOUS
  <1> QED BY <1>1, <1>3, <1>4, <1>5, <1>6

LEMMA NewPlaced ==
  ASSUME Base, NEW d \in Docs, version' = [version EXCEPT ![d] = @ + 1],
         UNCHANGED <<checkpoint, journal, entries, durable>>,
         Writing' => Writing /\ append' = append,
         cache' = [cache EXCEPT ![d] = version[d] + 1] \/ cache' = [cache EXCEPT ![d] = 0]
  PROVE  Placed' /\ cache' \in [Docs -> Nat]
  <1>1. /\ Placed /\ FileTypes /\ version \in [Docs -> Nat] /\ cache \in [Docs -> Nat]
        /\ durable \in [Docs -> Nat]
    BY DEF Base, Inv, Types, FileTypes
  <1>2. cache' \in [Docs -> Nat] /\ Bounded(version', cache') /\ Bounded(version', durable)
    <2>1. \A x \in Docs : cache[x] <= version[x] /\ cache[x] \in Nat /\ version[x] \in Nat
      BY <1>1 DEF Placed, Bounded
    <2>2. Bounded(version', durable)
      BY <1>1, NewVersion DEF Placed
    <2>3. cache' \in [Docs -> Nat]
      BY <1>1
    <2>4. ASSUME NEW x \in Docs PROVE cache'[x] <= version'[x]
      BY <1>1, <2>1
    <2> QED BY <2>2, <2>3, <2>4 DEF Bounded
  <1>3. ASSUME NEW p \in Partitions
        PROVE  /\ Whole(checkpoint[p]) => Fits(version', checkpoint[p], p)
               /\ journal[p] # Torn => Belongs(version', Text(journal[p]), p)
               /\ Belongs(version', entries[p], p)
    <2>1. Whole(checkpoint[p]) => checkpoint[p] \in [Docs -> Nat]
      BY <1>1, WholeFacts
    <2>2. entries[p] \in Seq(JournalEntry)
      BY DEF Base, Inv, Types
    <2>3. journal[p] # Torn => Text(journal[p]) \in Seq(JournalEntry)
      BY Texts DEF Base
    <2> QED BY <1>1, <2>1, <2>2, <2>3, NewVersion DEF Placed
  <1>4. Writing => append.payload \in Seq(JournalEntry)
    BY DEF Base, Inv, Types, Writing, AppendCall
  <1>5. Writing' => Belongs(version', append'.payload, append'.part)
    <2> SUFFICES ASSUME Writing' PROVE Belongs(version', append'.payload, append'.part)
      OBVIOUS
    <2>1. append' = append /\ Belongs(version, append.payload, append.part)
      BY <1>1 DEF Placed
    <2> QED BY <1>1, <1>4, <2>1, NewVersion
  <1> QED BY <1>2, <1>3, <1>5 DEF Placed

\* The server indexes a document: whatever is restored of it, the version is newer.
LEMMA IndexConverges == ASSUME StoreInv, Inv', NEW d \in Docs, IndexUnlogged(d) PROVE StoreInv'
  <1> USE DEF files, memory
  <1>1. /\ phase # "down" /\ version' = [version EXCEPT ![d] = @ + 1]
        /\ cache' = [cache EXCEPT ![d] = version[d] + 1]
        /\ unlogged' = unlogged \cup {d}
        /\ UNCHANGED <<checkpoint, journal, manifest, entries, partitioned, model, phase,
                       restored, append, persist, durable, unread, integrity>>
    BY DEF IndexUnlogged
  <1>2. /\ Base /\ FileTypes /\ version \in [Docs -> Nat] /\ cache \in [Docs -> Nat]
        /\ durable \in [Docs -> Nat] /\ Bounded(version, durable)
    BY DEF StoreInv, Base, Inv, Types, FileTypes, Placed
  <1>3. Placed' /\ cache' \in [Docs -> Nat]
    BY <1>1, <1>2, NewPlaced DEF Writing
  <1>4. Listed' = Listed /\ Load' = Load
    BY <1>1, LoadUnchanged
  <1>5. /\ version'[d] = version[d] + 1 /\ version[d] \in Nat
        /\ cache'[d] = version'[d] /\ durable[d] \in Nat /\ durable[d] <= version[d]
        /\ \A x \in Docs : x # d => version'[x] = version[x] /\ cache'[x] = cache[x]
    BY <1>1, <1>2 DEF Bounded
  <1>6. Base'
    <2>1. FileTypes'
      BY <1>1, <1>2, <1>3 DEF FileTypes
    <2>2. persist # NoCall => Bounded(version', persist.docs)
      BY <1>1, <1>2, CallFacts, NewVersion DEF Base, Progress
    <2>3. Progress'
      BY <1>1, <1>2, <2>2 DEF Base, Progress
    <2>4. Apart'
      BY <1>1, <1>2, <1>4 DEF Base, Apart
    <2> QED BY <1>3, <2>1, <2>3, <2>4 DEF Base
  <1>7. FilesTell'
    BY <1>1, <1>4 DEF StoreInv, FilesTell, Good
  <1>8. CallsTell'
    <2>1. Current(durable, cache) => Current(durable, cache')
      BY <1>5 DEF Current
    <2> QED BY <1>1, <2>1 DEF StoreInv, CallsTell, Good
  <1>9. AppendTells'
    <2> SUFFICES ASSUME append # NoCall PROVE AppendTells'
      BY <1>1 DEF AppendTells
    <2>1. append.entry.doc \in Docs /\ append.version \in Nat
      <3>1. append \in AppendCall
        BY <1>2 DEF Base, Inv, Types
      <3>2. append.entry \in JournalEntry /\ append.version \in Nat
        BY <3>1 DEF AppendCall
      <3> QED BY <3>2 DEF JournalEntry
    <2>2. PICK x \in Docs : x = append.entry.doc
      BY <2>1
    <2>3. /\ append.entry.record \in {0, append.version}
          /\ durable[x] <= append.version /\ append.version <= version[x]
          /\ IF append.version = version[x] THEN cache[x] = append.entry.record
             ELSE cache[x] = version[x] /\ x \in unlogged
      BY <2>2 DEF StoreInv, AppendTells
    <2>4. CASE x = d
      <3>1. append.version <= version'[x] /\ append.version # version'[x]
        BY <1>5, <2>1, <2>3, <2>4
      <3> QED BY <1>1, <1>5, <2>2, <2>3, <2>4, <3>1 DEF AppendTells
    <2>5. CASE x # d
      BY <1>1, <1>5, <2>2, <2>3, <2>5 DEF AppendTells
    <2> QED BY <2>4, <2>5
  <1>10. MemoryTells' /\ WriteTells' /\ UpTells'
    BY <1>1, <1>4 DEF StoreInv, MemoryTells, WriteTells, UpTells, Writing, Good, WorkspaceTorn
  <1>11. CheckpointTells'
    BY <1>1, <1>5 DEF StoreInv, CheckpointTells
  <1>12. IntactTells'
    <2>1. \A x \in Known' : x \in Known /\ x \in Docs /\ x # d
      BY <1>1 DEF Known
    <2> QED BY <1>1, <1>4, <1>5, <2>1 DEF StoreInv, IntactTells
  <1> QED BY <1>6, <1>7, <1>8, <1>9, <1>10, <1>11, <1>12 DEF StoreInv

-----------------------------------------------------------------------------
(* The steps of an append.                                                 *)

LEMMA MutateConverges ==
  ASSUME ~Overlapping, StoreInv, Inv', NEW d \in Docs, NEW kept \in BOOLEAN, Mutate(d, kept)
  PROVE  StoreInv'
  <1> USE DEF files
  <1> DEFINE record == IF kept THEN version[d] + 1 ELSE 0
  <1>1. /\ phase # "down" /\ append = NoCall /\ persist = NoCall
        /\ version' = [version EXCEPT ![d] = @ + 1]
        /\ cache' = [cache EXCEPT ![d] = record]
        /\ append' = [step |-> "called", entry |-> Entry(0, d, record), part |-> Workspace,
                      payload |-> <<>>, version |-> version'[d]]
        /\ UNCHANGED <<checkpoint, journal, manifest, entries, partitioned, model, phase,
                       restored, persist, durable, unlogged, unread, integrity>>
    BY DEF Mutate, MayAppend
  <1>2. /\ Base /\ FileTypes /\ version \in [Docs -> Nat] /\ cache \in [Docs -> Nat]
        /\ durable \in [Docs -> Nat] /\ Bounded(version, durable)
    BY DEF StoreInv, Base, Inv, Types, FileTypes, Placed
  <1>3. /\ append'.step = "called" /\ append'.entry.doc = d /\ append'.entry.record = record
        /\ append'.version = version'[d] /\ ~Writing'
    BY <1>1 DEF Entry, Writing
  <1>4. record \in {0, version[d] + 1}
    OBVIOUS
  <1> HIDE DEF record
  <1>5. Placed' /\ cache' \in [Docs -> Nat]
    <2>1. cache' = [cache EXCEPT ![d] = version[d] + 1] \/ cache' = [cache EXCEPT ![d] = 0]
      BY <1>1, <1>4
    <2> QED BY <1>1, <1>2, <1>3, <2>1, NewPlaced
  <1>6. Listed' = Listed /\ Load' = Load
    BY <1>1, LoadUnchanged
  <1>7. /\ version'[d] = version[d] + 1 /\ version[d] \in Nat /\ cache'[d] = record
        /\ durable[d] \in Nat /\ durable[d] <= version[d]
        /\ \A x \in Docs : x # d => version'[x] = version[x] /\ cache'[x] = cache[x]
    BY <1>1, <1>2 DEF Bounded
  <1>8. Base'
    BY <1>1, <1>2, <1>5, <1>6 DEF Base, FileTypes, Apart, Progress
  <1>9. FilesTell'
    BY <1>1, <1>6 DEF StoreInv, FilesTell, Good
  <1>10. CallsTell'
    <2>1. Current(durable, cache) => Current(durable, cache')
      BY <1>4, <1>7 DEF Current
    <2> QED BY <1>1, <2>1 DEF StoreInv, CallsTell, Good
  <1>11. AppendTells'
    BY <1>1, <1>3, <1>4, <1>7 DEF AppendTells
  <1>12. MemoryTells' /\ WriteTells' /\ UpTells'
    BY <1>1, <1>3, <1>6 DEF StoreInv, MemoryTells, WriteTells, UpTells, Writing, Good, WorkspaceTorn
  <1>13. CheckpointTells'
    BY <1>1 DEF CheckpointTells
  <1>14. IntactTells'
    <2>1. \A x \in Known' : x \in Known /\ x \in Docs
      BY <1>1 DEF Known
    <2>2. append' # NoCall
      <3>1. Entry(0, d, record) \in JournalEntry
        BY <1>4, <1>7 DEF Entry, JournalEntry
      <3>2. append' \in AppendCall
        BY <1>1, <1>7, <3>1, EmptyJournal DEF AppendCall, Partitions
      <3> QED BY <3>2, CallsDiffer
    <2> QED BY <1>1, <1>3, <1>6, <1>7, <2>1, <2>2 DEF StoreInv, IntactTells
  <1> QED BY <1>8, <1>9, <1>10, <1>11, <1>12, <1>13, <1>14 DEF StoreInv

\* What an append in flight has to do with the store.
LEMMA AppendFacts ==
  ASSUME Base, append # NoCall
  PROVE  /\ append \in AppendCall /\ append.entry \in JournalEntry /\ append.entry.doc \in Docs
         /\ append.entry.sequence \in Nat /\ append.entry.record \in Nat
         /\ append.version \in Nat /\ append.part \in Partitions
         /\ append.payload \in Seq(JournalEntry) /\ persist = NoCall /\ phase # "down"
  <1>1. append \in AppendCall /\ persist = NoCall /\ phase # "down"
    BY DEF Base, Inv, Types, Turns
  <1>2. /\ append.entry \in JournalEntry /\ append.version \in Nat
        /\ append.part \in Partitions /\ append.payload \in Seq(JournalEntry)
    BY <1>1 DEF AppendCall
  <1>3. append.entry.doc \in Docs /\ append.entry.sequence \in Nat /\ append.entry.record \in Nat
    BY <1>2 DEF JournalEntry
  <1> QED BY <1>1, <1>2, <1>3

LEMMA AppendedBelongs ==
  ASSUME NEW j \in Seq(JournalEntry), NEW p, NEW e \in JournalEntry, Belongs(version, j, p),
         p \in {Workspace, ProjectOf[e.doc]}, e.record <= version[e.doc]
  PROVE  Belongs(version, Append(j, e), p)
  <1>1. PICK n \in Nat : n = Len(j) /\ DOMAIN j = 1 .. n
    OBVIOUS
  <1>2. PICK a : a = Append(j, e)
    OBVIOUS
  <1>3. DOMAIN a = 1 .. (n + 1) /\ a[n + 1] = e /\ \A i \in 1 .. n : a[i] = j[i]
    BY <1>1, <1>2
  <1>4. \A i \in 1 .. (n + 1) : i \in 1 .. n \/ i = n + 1
    BY <1>1
  <1>5. Belongs(version, a, p)
    BY <1>1, <1>3, <1>4 DEF Belongs
  <1> QED BY <1>2, <1>5

LEMMA PushConverges == ASSUME StoreInv, Inv', PushEntry PROVE StoreInv'
  <1> USE DEF files, ghosts
  <1> DEFINE d == append.entry.doc
             p == PartitionFor(d)
             e == [append.entry EXCEPT !.sequence = NextNumber(p)]
             payload == Append(entries[p], e)
  <1>1. /\ append # NoCall /\ append.step = "called"
        /\ append' = [append EXCEPT !.step = "writing", !.entry = e, !.part = p,
                                    !.payload = payload]
        /\ entries' = IF p = Workspace THEN [entries EXCEPT ![p] = payload] ELSE entries
        /\ UNCHANGED <<checkpoint, journal, manifest, partitioned, model, phase, restored,
                       cache, persist, version, durable, unlogged, unread, integrity>>
    BY DEF PushEntry
  <1>2. Base /\ Placed /\ FileTypes /\ ~Writing /\ version \in [Docs -> Nat]
    BY <1>1 DEF StoreInv, Base, Writing, Inv, Types
  <1>3. /\ append \in AppendCall /\ append.entry \in JournalEntry /\ d \in Docs
        /\ append.entry.record \in Nat /\ append.version \in Nat
        /\ persist = NoCall /\ phase # "down"
    BY <1>1, <1>2, AppendFacts
  <1>4. /\ append'.step = "writing" /\ append'.entry = e /\ append'.part = p
        /\ append'.payload = payload /\ append'.version = append.version
    BY <1>1, <1>3 DEF AppendCall
  <1>5. e.doc = d /\ e.record = append.entry.record
    BY <1>3 DEF JournalEntry
  <1>6. p \in Partitions /\ p \in {Workspace, ProjectOf[d]}
        /\ (partitioned /\ model => p = ProjectOf[d]) /\ (p # Workspace => partitioned /\ model)
    BY <1>3, StoreAssumption DEF PartitionFor, Partitions
  <1>7. append' # NoCall /\ Writing'
    <2>1. entries[p] \in Seq(JournalEntry) /\ NextNumber(p) \in Nat
      BY <1>2, <1>6 DEF Base, Inv, Types, NextNumber
    <2>2. e \in JournalEntry
      BY <1>3, <2>1 DEF JournalEntry
    <2>3. append' \in AppendCall
      <3>1. payload \in Seq(JournalEntry)
        BY <2>1, <2>2
      <3> HIDE DEF e, p, payload
      <3> QED BY <1>1, <1>3, <1>6, <2>2, <3>1 DEF AppendCall
    <2> QED BY <1>4, <2>3, CallsDiffer DEF Writing
  <1>8. e \in JournalEntry
    <2>1. append' \in AppendCall
      BY <1>7 DEF Inv, Types
    <2> QED BY <1>4, <2>1 DEF AppendCall
  <1>9. /\ append.entry.record \in {0, append.version}
        /\ durable[d] <= append.version /\ append.version <= version[d]
        /\ IF append.version = version[d] THEN cache[d] = append.entry.record
           ELSE cache[d] = version[d] /\ d \in unlogged
    BY <1>1 DEF StoreInv, AppendTells
  <1>10. Workspace \in Partitions /\ Workspace \notin Listed
    BY <1>2, Listing DEF Partitions
  <1>11. /\ entries \in [Partitions -> Seq(JournalEntry)]
         /\ \A q \in Partitions : Belongs(version, entries[q], q)
    BY <1>2 DEF Base, Inv, Types, Placed
  <1> HIDE DEF d, p, e, payload
  <1>12. Belongs(version, payload, p)
    <2>1. version[d] \in Nat /\ e.record <= version[d]
      BY <1>2, <1>3, <1>5, <1>9
    <2> QED BY <1>5, <1>6, <1>8, <1>11, <2>1, AppendedBelongs DEF payload
  <1>13. \A q \in Partitions :
           entries'[q] = IF q = p /\ p = Workspace THEN payload ELSE entries[q]
    BY <1>1, <1>6, <1>11
  <1>14. Listed' = Listed /\ Load' = Load
    BY <1>1, LoadUnchanged
  <1>15. Base'
    <2>1. Placed'
      BY <1>1, <1>2, <1>4, <1>11, <1>12, <1>13 DEF Placed, Writing
    <2> QED BY <1>1, <1>2, <1>3, <1>14, <2>1 DEF Base, FileTypes, Apart, Progress
  <1>16. FilesTell' /\ CallsTell'
    BY <1>1, <1>14 DEF StoreInv, FilesTell, CallsTell, Good
  <1>17. AppendTells'
    BY <1>1, <1>4, <1>5, <1>9 DEF AppendTells, d
  <1>18. p # Workspace => phase = "up" /\ p = ProjectOf[d]
    BY <1>2, <1>3, <1>6 DEF FileTypes
  <1>19. WriteTells'
    BY <1>1, <1>4, <1>5, <1>18 DEF WriteTells
  <1>20. MemoryTells'
    <2> SUFFICES ASSUME Good PROVE MemoryTells'
      BY <1>1 DEF MemoryTells, Good
    <2>1. /\ ~WorkspaceTorn
          /\ phase = "up" => \A q \in Listed : entries[q] = Text(journal[q]) /\ journal[q] # Torn
          /\ entries[Workspace] = Text(journal[Workspace])
      BY <1>2, <1>3 DEF StoreInv, MemoryTells
    <2>2. ~WorkspaceTorn'
      BY <1>1, <2>1 DEF WorkspaceTorn
    <2>3. \A q \in Listed : q \in Partitions /\ q # Workspace
      BY <1>2, <1>10, Listing
    <2>4. phase = "up" => \A q \in Listed : entries'[q] = Text(journal[q]) /\ journal[q] # Torn
      BY <1>13, <2>1, <2>3
    <2>5. entries'[Workspace] = IF p = Workspace THEN payload ELSE Text(journal[Workspace])
      BY <1>10, <1>13, <2>1
    <2>6. p \in Listed \cup {Workspace} => payload = Append(Text(journal[p]), e)
      BY <1>18, <2>1, <2>3 DEF payload
    <2> QED BY <1>1, <1>4, <1>7, <1>14, <2>2, <2>4, <2>5, <2>6 DEF MemoryTells
  <1>21. UpTells'
    <2> SUFFICES ASSUME Good, phase = "up" PROVE UpTells'
      BY <1>1 DEF UpTells, Good
    <2>1. /\ Listed # {} => /\ model /\ partitioned
                            /\ \A q \in Listed \cup {Workspace} : Whole(checkpoint[q])
          /\ \A x \in Docs : ProjectOf[x] \in Listed => ~Mentions(Text(journal[Workspace]), x)
      BY <1>3 DEF StoreInv, UpTells
    <2>2. ProjectOf[d] \in Listed => p # Workspace
      BY <1>6, <1>10, <2>1
    <2> QED BY <1>1, <1>4, <1>5, <1>14, <2>1, <2>2 DEF UpTells
  <1>22. CheckpointTells'
    BY <1>1, <1>3 DEF CheckpointTells
  <1>23. IntactTells'
    <2>1. Known' = Known
      BY <1>1 DEF Known
    <2> QED BY <1>1, <1>3, <1>4, <1>5, <1>7, <1>14, <2>1 DEF StoreInv, IntactTells, d, Writing
  <1> QED BY <1>15, <1>16, <1>17, <1>19, <1>20, <1>21, <1>22, <1>23 DEF StoreInv

\* What is sound for a newer version is for an older.
LEMMA SoundForLess ==
  ASSUME NEW dur \in [Docs -> Nat], NEW c, NEW j, NEW d \in Docs, NEW v \in Nat, dur[d] <= v,
         Sound([dur EXCEPT ![d] = v], c, j),
         \A docs \in {c, Nowhere} : \A x \in Docs : Whole(docs) => Replay(docs, Text(j))[x] \in Nat
  PROVE  Sound(dur, c, j)
  <1> DEFINE new == [dur EXCEPT ![d] = v]
  <1>1. \A x \in Docs : dur[x] \in Nat /\ new[x] \in Nat /\ dur[x] <= new[x]
    OBVIOUS
  <1> HIDE DEF new
  <1>2. ASSUME NEW docs, Current(new, docs), \A x \in Docs : docs[x] \in Nat
        PROVE  Current(dur, docs)
    <2> SUFFICES ASSUME NEW x \in Docs, docs[x] # 0 PROVE dur[x] <= docs[x]
      BY DEF Current
    <2>1. new[x] <= docs[x] /\ docs[x] \in Nat
      BY <1>2 DEF Current
    <2> QED BY <1>1, <2>1
  <1>3. Whole(Nowhere)
    <2>1. Nowhere \in [Docs -> Nat]
      BY DEF Nowhere
    <2> QED BY <2>1, StoreAssumption DEF Whole
  <1>4. Sound(new, c, j)
    BY DEF new
  <1> QED BY <1>2, <1>3, <1>4 DEF Sound

LEMMA ReplayedIsNat ==
  ASSUME NEW j \in Seq(JournalEntry), Grows(j), NEW docs \in [Docs -> Nat], NEW d \in Docs
  PROVE  Replay(docs, j)[d] \in Nat
  <1>1. CASE Mentions(j, d)
    <2>1. LastOf(j, d, Replay(docs, j)[d])
      BY <1>1, ReplayLast
    <2>2. PICK i \in DOMAIN j : j[i].record = Replay(docs, j)[d]
      BY <2>1 DEF LastOf
    <2>3. j[i] \in JournalEntry
      OBVIOUS
    <2> QED BY <2>2, <2>3 DEF JournalEntry
  <1>2. CASE ~Mentions(j, d)
    BY <1>2, ReplayWithout
  <1> QED BY <1>1, <1>2

LEMMA AppendedMentions ==
  ASSUME NEW j \in Seq(JournalEntry), NEW e \in JournalEntry, NEW d, Mentions(Append(j, e), d)
  PROVE  d = e.doc \/ Mentions(j, d)
  <1>1. PICK n \in Nat : n = Len(j) /\ DOMAIN j = 1 .. n
    OBVIOUS
  <1>2. PICK a : a = Append(j, e)
    OBVIOUS
  <1>3. DOMAIN a = 1 .. (n + 1) /\ a[n + 1] = e /\ \A i \in 1 .. n : a[i] = j[i]
    BY <1>1, <1>2
  <1>4. PICK i \in 1 .. (n + 1) : a[i].doc = d
    BY <1>2, <1>3 DEF Mentions
  <1>5. i \in 1 .. n \/ i = n + 1
    BY <1>1
  <1> QED BY <1>1, <1>3, <1>4, <1>5 DEF Mentions

\* What the write in flight finds on file, and what it makes of it.
LEMMA WriteFacts ==
  ASSUME StoreInv, Writing, NEW p, p = append.part, NEW d, d = append.entry.doc
  PROVE  /\ p # Workspace => phase = "up" /\ p = ProjectOf[d]
         /\ append.payload \in Seq(JournalEntry) /\ append.payload \notin {NoFile, Torn}
         /\ Grows(append.payload) /\ Belongs(version, append.payload, p)
         /\ Good /\ p \in Listed \cup {Workspace} =>
              /\ journal[p] # Torn /\ append.payload = Append(Text(journal[p]), append.entry)
  <1>1. Base /\ Placed /\ append # NoCall
    BY DEF StoreInv, Base, Writing
  <1>2. append.payload \in Seq(JournalEntry) /\ persist = NoCall /\ phase # "down"
    BY <1>1, AppendFacts
  <1>3. append.payload \notin {NoFile, Torn}
    BY <1>2, StoreAssumption
  <1>4. Grows(append.payload) /\ Belongs(version, append.payload, p)
    BY <1>1 DEF Base, Inv, JournalsGrow, Placed, Writing
  <1>5. p # Workspace => phase = "up" /\ p = ProjectOf[d]
    BY DEF StoreInv, WriteTells
  <1>6. ASSUME Good, p \in Listed \cup {Workspace}
        PROVE  journal[p] # Torn /\ append.payload = Append(Text(journal[p]), append.entry)
    BY <1>2, <1>5, <1>6 DEF StoreInv, MemoryTells, WorkspaceTorn
  <1> QED BY <1>2, <1>3, <1>4, <1>5, <1>6

\* A partition that load() reads, other than that of the entry, has nothing of its document,
\* if it looks for the document where the entry is.
LEMMA NothingElsewhere ==
  ASSUME StoreInv, Good, Writing, NEW p, p = append.part, NEW d, d = append.entry.doc,
         LooksAt(p, d), NEW q \in Listed \cup {Workspace}, q # p
  PROVE  /\ journal[q] # Torn => ~Mentions(Text(journal[q]), d)
         /\ Whole(checkpoint[q]) => checkpoint[q][d] = 0
  <1>1. Base /\ Placed /\ Apart /\ FileTypes /\ append # NoCall
    BY DEF StoreInv, Base, Writing
  <1>2. d \in Docs /\ persist = NoCall
    BY <1>1, AppendFacts
  <1>3. q \in Partitions /\ Workspace \notin Listed
    BY <1>1, Listing
  <1>4. p # Workspace => phase = "up" /\ p = ProjectOf[d]
    BY WriteFacts
  <1>5. CASE q = Workspace
    <2>1. ProjectOf[d] \in Listed /\ phase = "up"
      BY <1>4, <1>5 DEF LooksAt
    <2> QED BY <1>1, <1>2, <1>5, <2>1 DEF StoreInv, UpTells, Apart
  <1>6. CASE q # Workspace
    <2>1. q # ProjectOf[d]
      BY <1>3, <1>4, <1>6 DEF LooksAt
    <2>2. Whole(checkpoint[q]) => checkpoint[q][d] = 0
      BY <1>1, <1>2, <1>3, <1>6, <2>1 DEF Placed, Fits
    <2>3. journal[q] # Torn => ~Mentions(Text(journal[q]), d)
      BY <1>1, <1>3, <1>6, <2>1 DEF Placed, Belongs, Mentions
    <2> QED BY <2>2, <2>3
  <1> QED BY <1>5, <1>6

\* The files stay sound.
LEMMA AppendedFiles ==
  ASSUME StoreInv, EndAppend, Good, NEW q \in Listed \cup {Workspace}
  PROVE  Sound(durable', checkpoint[q], journal'[q])
  <1>1. PICK p, d, e, v : p = append.part /\ e = append.entry /\ d = e.doc /\ v = append.version
    OBVIOUS
  <1>2. /\ Writing /\ append # NoCall
        /\ journal' = [journal EXCEPT ![p] = append.payload]
        /\ durable' = (IF LooksAt(p, d) THEN [durable EXCEPT ![d] = v] ELSE durable)
    BY <1>1 DEF EndAppend, Writing
  <1>3. Base /\ FileTypes /\ durable \in [Docs -> Nat]
    BY DEF StoreInv, Base, FileTypes
  <1>4. q \in Partitions /\ JournalFile(journal[q]) /\ Sound(durable, checkpoint[q], journal[q])
    BY <1>3, Listing, JournalFiles DEF StoreInv, FilesTell, Base
  <1>5. /\ e \in JournalEntry /\ d \in Docs /\ v \in Nat /\ p \in Partitions
        /\ e.record \in {0, v} /\ durable[d] <= v
    BY <1>1, <1>2, <1>3, AppendFacts DEF StoreInv, AppendTells
  <1>6. /\ append.payload \in Seq(JournalEntry) /\ append.payload \notin {NoFile, Torn}
        /\ Grows(append.payload)
    BY <1>1, <1>2, WriteFacts
  <1>7. \A r \in Partitions : journal'[r] = IF r = p THEN append.payload ELSE journal[r]
    BY <1>2, <1>3, <1>5 DEF Base, Inv, Types
  <1>8. CASE q = p
    <2>1. PICK j : j = journal[q]
      OBVIOUS
    <2>2. j # Torn /\ append.payload = Append(Text(j), e)
      BY <1>1, <1>2, <1>8, <2>1, WriteFacts
    <2>3. PICK c : c = checkpoint[q]
      OBVIOUS
    <2>4. Sound([durable EXCEPT ![e.doc] = v], c, Append(Text(j), e))
      BY <1>3, <1>4, <1>5, <1>6, <2>1, <2>2, <2>3, SoundAppended
    <2>5. Sound([durable EXCEPT ![d] = v], c, append.payload)
      BY <1>1, <2>2, <2>4
    <2>6. CASE LooksAt(p, d)
      BY <1>2, <1>4, <1>7, <1>8, <2>3, <2>5, <2>6
    <2>7. CASE ~LooksAt(p, d)
      <3>1. Text(append.payload) = append.payload
        BY <1>6 DEF Text
      <3>2. Nowhere \in [Docs -> Nat] /\ (Whole(c) => c \in [Docs -> Nat])
        BY <1>3, <1>4, <2>3, WholeFacts DEF Nowhere
      <3>3. \A docs \in {c, Nowhere} : \A x \in Docs :
              Whole(docs) => Replay(docs, Text(append.payload))[x] \in Nat
        BY <1>6, <3>1, <3>2, ReplayedIsNat
      <3>4. Sound(durable, c, append.payload)
        BY <1>3, <1>5, <2>5, <3>3, SoundForLess
      <3> QED BY <1>2, <1>4, <1>7, <1>8, <2>3, <2>7, <3>4
    <2> QED BY <2>6, <2>7
  <1>9. CASE q # p /\ LooksAt(p, d)
    <2>1. /\ journal[q] # Torn => ~Mentions(Text(journal[q]), d)
          /\ Whole(checkpoint[q]) => checkpoint[q][d] = 0
      BY <1>1, <1>2, <1>9, NothingElsewhere
    <2>2. Sound([durable EXCEPT ![d] = v], checkpoint[q], journal[q])
      BY <1>3, <1>4, <1>5, <2>1, SoundElsewhere
    <2> QED BY <1>2, <1>4, <1>7, <1>9, <2>2
  <1>10. CASE q # p /\ ~LooksAt(p, d)
    BY <1>2, <1>4, <1>7, <1>10
  <1> QED BY <1>8, <1>9, <1>10

\* Of whole files, load() reads for a document the partition of its project, if it is listed
\* and has a record, and that of the workspace.
Read(p, d) == Replay(checkpoint[p], Text(journal[p]))[d]

LoadReads ==
  /\ Load # Rebuild
  /\ \A d \in Docs : Load[d] = LET q == ProjectOf[d]
                               IN IF q \in Listed /\ Read(q, d) # 0
                                  THEN Read(q, d) ELSE Read(Workspace, d)

LEMMA WholeReads == Base /\ FilesWhole => LoadReads
  <1> SUFFICES ASSUME Base, FilesWhole PROVE LoadReads
    OBVIOUS
  <1>1. /\ Loadable /\ Load # Rebuild /\ RestoresWell /\ LoadsWell
        /\ \A p \in Listed \cup {Workspace} : Restorable(p) /\ p \in Partitions
    BY WholeIsLoadable, LoadedWell, Listing DEF Base
  <1>2. \A p \in Listed \cup {Workspace} : \A d \in Docs : Restore(p)[d] = Read(p, d)
    BY <1>1 DEF RestoresWell, Read
  <1> QED BY <1>1, <1>2 DEF LoadReads, LoadsWell

\* The last word on the document of the entry is the entry; on others it stays.
LEMMA AppendedReads ==
  ASSUME StoreInv, EndAppend, integrity = "intact", Base', FilesWhole', Listed' = Listed,
         NEW x \in Docs, x \in Known'
  PROVE  Load'[x] = cache[x]
  <1>1. PICK p, d, e, v : p = append.part /\ e = append.entry /\ d = e.doc /\ v = append.version
    OBVIOUS
  <1>2. /\ Writing /\ append # NoCall /\ UNCHANGED checkpoint
        /\ journal' = [journal EXCEPT ![p] = append.payload]
        /\ unread' = (IF LooksAt(p, d) THEN unread \ {d} ELSE unread \cup {d})
        /\ unlogged' = (IF version[d] = v THEN unlogged \ {d} ELSE unlogged)
    BY <1>1 DEF EndAppend, Writing
  <1>3. Base /\ FileTypes /\ Apart /\ Good
    BY DEF StoreInv, Base, Good
  <1>4. /\ e \in JournalEntry /\ d \in Docs /\ v \in Nat /\ p \in Partitions
        /\ persist = NoCall /\ phase # "down"
        /\ IF v = version[d] THEN cache[d] = e.record ELSE d \in unlogged
    BY <1>1, <1>2, <1>3, AppendFacts DEF StoreInv, AppendTells
  <1>5. /\ Listed \cup {Workspace} \subseteq Partitions /\ Workspace \notin Listed
        /\ ProjectOf[x] \in Partitions
    BY <1>3, Listing, StoreAssumption
  <1>6. FilesWhole
    BY <1>4 DEF StoreInv, IntactTells, FilesWhole
  <1>7. LoadReads
    BY <1>3, <1>6, WholeReads
  <1>8. LoadReads'
    BY WholeReads, PTL
  <1>9. \A r \in Partitions : journal'[r] = IF r = p THEN append.payload ELSE journal[r]
    BY <1>2, <1>3, <1>4 DEF Base, Inv, Types
  <1>10. \A r \in Partitions : r # p => Read(r, x)' = Read(r, x)
    BY <1>2, <1>9 DEF Read
  <1>11. p \in Listed \cup {Workspace} => Read(p, x)' = IF x = d THEN e.record ELSE Read(p, x)
    <2> SUFFICES ASSUME p \in Listed \cup {Workspace}
                 PROVE  Read(p, x)' = IF x = d THEN e.record ELSE Read(p, x)
      OBVIOUS
    <2>1. PICK j : j = Text(journal[p])
      OBVIOUS
    <2>2. /\ journal[p] # Torn /\ append.payload = Append(j, e) /\ Grows(append.payload)
          /\ append.payload \notin {NoFile, Torn}
      BY <1>1, <1>2, <1>3, <2>1, WriteFacts
    <2>3. j \in Seq(JournalEntry) /\ Grows(j)
      BY <1>3, <1>4, <2>1, <2>2, Texts DEF Base
    <2>4. PICK c : c = checkpoint[p]
      OBVIOUS
    <2>5. Replay(c, Append(j, e))[x] = IF x = e.doc THEN e.record ELSE Replay(c, j)[x]
      BY <1>4, <2>2, <2>3, ReplayAppended
    <2>6. Text(append.payload) = Append(j, e)
      BY <2>2 DEF Text
    <2>7. Read(p, x)' = Replay(c, Append(j, e))[x] /\ Read(p, x) = Replay(c, j)[x]
      BY <1>2, <1>4, <1>9, <2>1, <2>4, <2>6 DEF Read
    <2> QED BY <1>1, <2>5, <2>7
  <1>12. /\ Load[x] = IF ProjectOf[x] \in Listed /\ Read(ProjectOf[x], x) # 0
                      THEN Read(ProjectOf[x], x) ELSE Read(Workspace, x)
         /\ Load'[x] = IF ProjectOf[x] \in Listed /\ Read(ProjectOf[x], x)' # 0
                       THEN Read(ProjectOf[x], x)' ELSE Read(Workspace, x)'
    BY <1>7, <1>8 DEF LoadReads
  <1>13. CASE x # d
    <2>1. x \in Known
      BY <1>2, <1>13 DEF Known
    <2>2. Load[x] = cache[x]
      BY <1>1, <1>4, <1>13, <2>1 DEF StoreInv, IntactTells
    <2>3. \A r \in Listed \cup {Workspace} : Read(r, x)' = Read(r, x)
      BY <1>5, <1>10, <1>11, <1>13
    <2> QED BY <1>5, <1>12, <2>2, <2>3
  <1>14. CASE x = d
    <2>1. LooksAt(p, d) /\ cache[d] = e.record
      BY <1>2, <1>4, <1>14 DEF Known
    <2>2. p \in Listed \cup {Workspace} /\ Read(p, x)' = e.record
      BY <1>11, <1>14, <2>1 DEF LooksAt
    <2>3. CASE p = Workspace
      BY <1>5, <1>12, <1>14, <2>1, <2>2, <2>3 DEF LooksAt
    <2>4. CASE p # Workspace
      <3>1. p = ProjectOf[x] /\ p \in Listed
        BY <1>1, <1>2, <1>14, <2>2, <2>4, WriteFacts
      <3>2. Read(Workspace, x)' = 0
        <4>1. ~Mentions(Text(journal[Workspace]), x) /\ checkpoint[Workspace][x] = 0
          BY <1>1, <1>2, <1>3, <1>6, <1>14, <2>1, <2>4, NothingElsewhere DEF FilesWhole
        <4>2. Read(Workspace, x) = 0
          BY <4>1, ReplayWithout DEF Read
        <4> QED BY <1>5, <1>10, <2>4, <4>2
      <3> QED BY <1>12, <1>14, <2>1, <2>2, <3>1, <3>2
    <2> QED BY <2>3, <2>4
  <1> QED BY <1>13, <1>14

LEMMA AppendConverges == ASSUME StoreInv, Inv', EndAppend PROVE StoreInv'
  <1>1. PICK p, d, e, v : p = append.part /\ e = append.entry /\ d = e.doc /\ v = append.version
    OBVIOUS
  <1>2. /\ Writing /\ append # NoCall /\ append' = NoCall
        /\ journal' = [journal EXCEPT ![p] = append.payload]
        /\ entries' = (IF p = Workspace THEN entries ELSE [entries EXCEPT ![p] = append.payload])
        /\ durable' = (IF LooksAt(p, d) THEN [durable EXCEPT ![d] = v] ELSE durable)
        /\ unread' \subseteq unread \cup {d} /\ unlogged' \subseteq unlogged
        /\ UNCHANGED <<checkpoint, manifest, partitioned, model, phase, restored, cache,
                       persist, version, integrity>>
    BY <1>1 DEF EndAppend, Writing
  <1>3. Base /\ FileTypes /\ Placed /\ version \in [Docs -> Nat] /\ durable \in [Docs -> Nat]
    BY DEF StoreInv, Base, FileTypes, Inv, Types
  <1>4. /\ e \in JournalEntry /\ d \in Docs /\ v \in Nat /\ p \in Partitions
        /\ persist = NoCall /\ phase # "down"
        /\ e.record \in {0, v} /\ durable[d] <= v /\ v <= version[d]
        /\ IF v = version[d] THEN cache[d] = e.record ELSE cache[d] = version[d]
    BY <1>1, <1>2, <1>3, AppendFacts DEF StoreInv, AppendTells
  <1>5. /\ p # Workspace => phase = "up" /\ p = ProjectOf[d]
        /\ append.payload \in Seq(JournalEntry) /\ append.payload \notin {NoFile, Torn}
        /\ Grows(append.payload) /\ Belongs(version, append.payload, p)
        /\ Good /\ p \in Listed \cup {Workspace} =>
             /\ journal[p] # Torn /\ append.payload = Append(Text(journal[p]), e)
    BY <1>1, <1>2, WriteFacts
  <1>6. /\ \A r \in Partitions : journal'[r] = IF r = p THEN append.payload ELSE journal[r]
        /\ \A r \in Partitions :
             entries'[r] = IF r = p /\ p # Workspace THEN append.payload ELSE entries[r]
    BY <1>2, <1>3, <1>4 DEF Base, Inv, Types
  <1>7. Text(append.payload) = append.payload
    BY <1>5 DEF Text
  <1>8. /\ Listed' = Listed /\ Workspace \notin Listed
        /\ Listed \cup {Workspace} \subseteq Partitions
    BY <1>2, <1>3, Listing DEF Listed
  <1>9. \A x \in Docs : durable'[x] = IF x = d /\ LooksAt(p, d) THEN v ELSE durable[x]
    BY <1>2, <1>3
  <1>10. durable' \in [Docs -> Nat] /\ Bounded(version, durable')
    <2>1. durable' \in [Docs -> Nat]
      BY <1>2, <1>3, <1>4
    <2> QED BY <1>3, <1>4, <1>9, <2>1 DEF Placed, Bounded
  <1>11. Base'
    <2>1. FileTypes'
      BY <1>2, <1>3, <1>4, <1>10 DEF FileTypes
    <2>2. Placed'
      BY <1>2, <1>3, <1>5, <1>6, <1>7, <1>10 DEF Placed, Writing
    <2>3. Apart' /\ Progress'
      BY <1>2, <1>3, <1>4, <1>8 DEF Base, Apart, Progress
    <2> QED BY <2>1, <2>2, <2>3 DEF Base
  <1>12. FilesTell'
    <2>1. ASSUME Good, NEW q \in Listed \cup {Workspace}
          PROVE  Sound(durable', checkpoint[q], journal'[q])
      BY <2>1, AppendedFiles
    <2> QED BY <1>2, <1>8, <2>1 DEF FilesTell, Good
  <1>13. CallsTell'
    <2>1. Current(durable, cache) => Current(durable', cache)
      BY <1>3, <1>4, <1>9 DEF Current
    <2> QED BY <1>2, <1>4, <2>1 DEF StoreInv, CallsTell, Good
  <1>14. AppendTells' /\ WriteTells' /\ CheckpointTells'
    BY <1>2, <1>4 DEF AppendTells, WriteTells, CheckpointTells, Writing
  <1>15. MemoryTells'
    <2> SUFFICES ASSUME Good PROVE MemoryTells'
      BY <1>2 DEF MemoryTells, Good
    <2>1. /\ ~WorkspaceTorn
          /\ phase = "up" => \A q \in Listed : entries[q] = Text(journal[q]) /\ journal[q] # Torn
          /\ entries[Workspace] = IF p = Workspace THEN append.payload ELSE Text(journal[Workspace])
      BY <1>1, <1>2, <1>4 DEF StoreInv, MemoryTells
    <2>2. ~WorkspaceTorn'
      BY <1>2, <1>5, <1>6, <1>8, <2>1 DEF WorkspaceTorn
    <2>3. phase = "up" => \A q \in Listed : entries'[q] = Text(journal'[q]) /\ journal'[q] # Torn
      BY <1>5, <1>6, <1>7, <1>8, <2>1
    <2>4. entries'[Workspace] = Text(journal'[Workspace])
      BY <1>5, <1>6, <1>7, <1>8, <2>1
    <2> QED BY <1>2, <1>8, <2>2, <2>3, <2>4 DEF MemoryTells, Writing
  <1>16. UpTells'
    <2> SUFFICES ASSUME Good, phase = "up" PROVE UpTells'
      BY <1>2 DEF UpTells, Good
    <2>1. /\ Listed # {} => /\ model /\ partitioned
                            /\ \A q \in Listed \cup {Workspace} : Whole(checkpoint[q])
          /\ \A x \in Docs : ProjectOf[x] \in Listed => ~Mentions(Text(journal[Workspace]), x)
          /\ ProjectOf[d] \in Listed => p # Workspace
      BY <1>1, <1>2, <1>4 DEF StoreInv, UpTells
    <2>2. ASSUME NEW x \in Docs, ProjectOf[x] \in Listed
          PROVE  ~Mentions(Text(journal'[Workspace]), x)
      <3>1. CASE p # Workspace
        BY <1>6, <1>8, <2>1, <2>2, <3>1
      <3>2. CASE p = Workspace
        <4>1. PICK j : j = Text(journal[Workspace])
          OBVIOUS
        <4>2. journal[Workspace] # Torn /\ append.payload = Append(j, e)
          BY <1>5, <3>2, <4>1
        <4>3. j \in Seq(JournalEntry)
          BY <1>3, <1>8, <4>1, <4>2, Texts DEF Base
        <4>4. ~Mentions(j, x) /\ x # d
          BY <2>1, <2>2, <3>2, <4>1
        <4>5. ~Mentions(Append(j, e), x)
          BY <1>1, <1>4, <4>3, <4>4, AppendedMentions
        <4> QED BY <1>6, <1>7, <1>8, <3>2, <4>2, <4>5
      <3> QED BY <3>1, <3>2
    <2> QED BY <1>2, <1>8, <2>1, <2>2 DEF UpTells, Writing
  <1>17. IntactTells'
    <2> SUFFICES ASSUME integrity = "intact" PROVE IntactTells'
      BY <1>2 DEF IntactTells
    <2>1. FilesWhole
      BY <1>4 DEF StoreInv, IntactTells, FilesWhole
    <2>2. FilesWhole'
      BY <1>2, <1>5, <1>6, <1>8, <2>1 DEF FilesWhole
    <2>3. \A x \in Docs : x \in Known' => Load'[x] = cache[x]
      BY <1>8, <1>11, <2>2, AppendedReads
    <2>4. \A x \in Known' : x \in Docs
      BY DEF Known
    <2> QED BY <1>2, <1>4, <2>2, <2>3, <2>4 DEF IntactTells, FilesWhole
  <1> QED BY <1>11, <1>12, <1>13, <1>14, <1>15, <1>16, <1>17 DEF StoreInv

-----------------------------------------------------------------------------
(* How many numbers are given out.                                         *)

\* A mutation takes at most one number of a journal, and an edit makes at most one mutation.
Counts ==
  /\ edits \in Nat /\ edits <= MaxEdits /\ pending \in Nat /\ pending <= edits
  /\ \A d \in Docs : version[d] <= edits
  /\ \A p \in Partitions : /\ nextSequence[p] <= edits
                           /\ journal[p] \notin {NoFile, Torn} => UpTo(journal[p], edits)
  /\ append # NoCall => IF append.step = "called"
                        THEN \A p \in Partitions : nextSequence[p] < edits
                        ELSE append.entry.sequence <= edits

LEMMA UpToMore ==
  ASSUME NEW j \in Seq(JournalEntry), NEW n \in Nat, NEW m \in Nat, n <= m, UpTo(j, n)
  PROVE  UpTo(j, m)
  BY JournalNumbers DEF UpTo

\* A step that gives out no number and no version.
LEMMA CountsKept ==
  ASSUME Inv, Counts, UNCHANGED <<edits, version>>, pending' \in {pending, 0},
         \A p \in Partitions : /\ nextSequence'[p] \in {nextSequence[p], 0}
                               /\ journal'[p] \in {journal[p], NoFile, Torn},
         append' \in {append, NoCall}
  PROVE  Counts'
  <1>1. \A p \in Partitions : nextSequence[p] \in Nat
    BY DEF Inv, Types
  <1>2. Workspace \in Partitions
    BY DEF Partitions
  <1>3. \A p \in Partitions : /\ nextSequence'[p] <= edits
                              /\ nextSequence[p] < edits => nextSequence'[p] < edits
    BY <1>1 DEF Counts
  <1> QED BY <1>3 DEF Counts

\* A load takes its numbers from the files.
LEMMA CountsLoaded ==
  ASSUME Inv, Counts, NEW matches, UNCHANGED <<edits, version, journal>>, pending' \in {pending, 0},
         append' = NoCall,
         LoadMemory(entries, nextSequence, partitioned, matches) \/ OpenStore(matches)
  PROVE  Counts'
  <1>1. ASSUME NEW p \in Partitions PROVE nextSequence'[p] <= edits
    <2>1. nextSequence[p] <= edits /\ 0 <= edits
      BY DEF Counts
    <2>2. CASE WorkspaceTorn
      BY <2>1, <2>2 DEF LoadMemory, OpenStore, NoSequences
    <2>3. CASE ~WorkspaceTorn
      <3>1. PICK taken \in TakenOver(matches) :
              nextSequence' = [q \in Partitions |->
                LastSequence(IF q \in taken \cup {Workspace} THEN JournalOf(q) ELSE <<>>)]
        BY <2>3 DEF LoadMemory, OpenStore
      <3>2. nextSequence'[p] \in {LastSequence(JournalOf(p)), 0}
        BY <3>1 DEF LastSequence
      <3>3. p \in taken \cup {Workspace} => journal[p] # Torn
        BY <2>3, <3>1 DEF TakenOver, Restorable, WorkspaceTorn
      <3>4. p \notin taken \cup {Workspace} => nextSequence'[p] = 0
        BY <3>1 DEF LastSequence
      <3>5. ASSUME journal[p] # Torn PROVE LastSequence(JournalOf(p)) <= edits
        <4>1. PICK j : j = JournalOf(p) /\ j \in Seq(JournalEntry)
          BY <3>5, Texts
        <4>2. CASE j = <<>>
          BY <2>1, <4>1, <4>2 DEF LastSequence
        <4>3. CASE j # <<>>
          <5>1. journal[p] # NoFile /\ j = journal[p]
            BY <4>1, <4>3 DEF JournalOf
          <5>2. UpTo(j, edits)
            BY <3>5, <5>1 DEF Counts
          <5>3. Len(j) \in DOMAIN j
            BY <4>1, <4>3
          <5> QED BY <4>1, <4>3, <5>2, <5>3 DEF LastSequence, UpTo
        <4> QED BY <4>2, <4>3
      <3> QED BY <2>1, <3>2, <3>3, <3>4, <3>5
    <2> QED BY <2>2, <2>3
  <1> QED BY <1>1 DEF Counts

LEMMA NextCounts == ASSUME ~Overlapping, Inv, Inv', Counts, FileTypes, [Next]_vars PROVE Counts'
  <1>1. ASSUME NEW d \in Docs, NEW kept \in BOOLEAN, Mutate(d, kept) PROVE Counts'
    <2>1. /\ edits < MaxEdits /\ edits' = edits + 1 /\ pending' = pending + 1
          /\ version' = [version EXCEPT ![d] = @ + 1]
          /\ append'.step = "called"
          /\ UNCHANGED <<nextSequence, journal>>
      BY <1>1 DEF Mutate, files
    <2>2. /\ edits \in Nat /\ edits' \in Nat /\ edits' <= MaxEdits /\ pending' \in Nat
          /\ pending' <= edits' /\ edits <= edits'
      BY <2>1, StoreAssumption DEF Counts
    <2>3. \A x \in Docs : version'[x] <= edits'
      BY <2>1 DEF Counts, Inv, Types
    <2>4. \A p \in Partitions : nextSequence[p] \in Nat /\ nextSequence[p] < edits'
      BY <2>1 DEF Counts, Inv, Types
    <2>5. \A p \in Partitions : journal[p] \notin {NoFile, Torn} => UpTo(journal[p], edits')
      BY <2>2, UpToMore DEF Counts, Inv, Types
    <2> QED BY <2>1, <2>2, <2>3, <2>4, <2>5 DEF Counts
  <1>2. ASSUME NEW d \in Docs, IndexUnlogged(d) PROVE Counts'
    <2>1. /\ edits < MaxEdits /\ edits' = edits + 1
          /\ version' = [version EXCEPT ![d] = @ + 1]
          /\ UNCHANGED <<nextSequence, journal, pending, append>>
      BY <1>2 DEF IndexUnlogged, files, memory
    <2>2. /\ edits \in Nat /\ edits' \in Nat /\ edits' <= MaxEdits /\ pending \in Nat
          /\ pending <= edits' /\ edits <= edits'
      BY <2>1, StoreAssumption DEF Counts
    <2>3. \A x \in Docs : version'[x] <= edits'
      BY <2>1 DEF Counts, Inv, Types
    <2>4. \A p \in Partitions : nextSequence[p] \in Nat /\ nextSequence[p] < edits'
      BY <2>1 DEF Counts, Inv, Types
    <2>5. \A p \in Partitions : journal[p] \notin {NoFile, Torn} => UpTo(journal[p], edits')
      BY <2>2, UpToMore DEF Counts, Inv, Types
    <2>6. append # NoCall => append.entry.sequence \in Nat
      BY DEF Inv, Types, AppendCall, JournalEntry
    <2> QED BY <2>1, <2>2, <2>3, <2>4, <2>5, <2>6 DEF Counts
  <1>3. CASE PushEntry
    <2>1. PICK p : p = PartitionFor(append.entry.doc)
      OBVIOUS
    <2>2. /\ append # NoCall /\ append.step = "called"
          /\ append' = [append EXCEPT !.step = "writing",
                          !.entry = [append.entry EXCEPT !.sequence = NextNumber(p)],
                          !.part = p,
                          !.payload = Append(entries[p],
                                             [append.entry EXCEPT !.sequence = NextNumber(p)])]
          /\ nextSequence' = (IF p = Workspace THEN [nextSequence EXCEPT ![p] = NextNumber(p)]
                              ELSE nextSequence)
          /\ UNCHANGED <<journal, edits, version, pending>>
      <3>1. append # NoCall
        BY <1>3 DEF PushEntry
      <3>2. append.entry \in JournalEntry
        BY <3>1 DEF Inv, Types, AppendCall
      <3>3. [append.entry EXCEPT !.sequence = NextNumber(p)].sequence = NextNumber(p)
        BY <3>2 DEF JournalEntry
      <3> QED BY <1>3, <2>1, <3>3 DEF PushEntry, files, ghosts
    <2>3. append \in AppendCall /\ append.entry \in JournalEntry /\ append.entry.doc \in Docs
      <3>1. append \in AppendCall
        BY <2>2 DEF Inv, Types
      <3>2. append.entry \in JournalEntry
        BY <3>1 DEF AppendCall
      <3> QED BY <3>1, <3>2 DEF JournalEntry
    <2>4. p \in Partitions
      BY <2>1, <2>3, StoreAssumption DEF PartitionFor, Partitions
    <2>5. /\ \A q \in Partitions : nextSequence[q] \in Nat /\ nextSequence[q] < edits
          /\ edits \in Nat /\ NextNumber(p) \in Nat /\ NextNumber(p) <= edits
      BY <2>2, <2>4 DEF Inv, Types, Counts, NextNumber
    <2>6. append'.step = "writing" /\ append'.entry.sequence = NextNumber(p)
      BY <2>2, <2>3 DEF AppendCall, JournalEntry
    <2>7. \A q \in Partitions : nextSequence'[q] <= edits
      BY <2>2, <2>4, <2>5 DEF Inv, Types
    <2> QED BY <2>2, <2>5, <2>6, <2>7 DEF Counts
  <1>4. CASE EndAppend
    <2>1. PICK p : p = append.part
      OBVIOUS
    <2>2. /\ append # NoCall /\ append.step = "writing" /\ append' = NoCall
          /\ journal' = [journal EXCEPT ![p] = append.payload]
          /\ nextSequence' = [nextSequence EXCEPT ![p] = append.entry.sequence]
          /\ UNCHANGED <<edits, version, pending>>
      BY <1>4, <2>1 DEF EndAppend
    <2>3. append \in AppendCall /\ append.entry \in JournalEntry /\ p \in Partitions
          /\ append.payload \in Seq(JournalEntry) /\ UpTo(append.payload, append.entry.sequence)
      BY <2>1, <2>2 DEF Inv, Types, AppendCall, JournalsGrow
    <2>4. append.entry.sequence \in Nat /\ append.entry.sequence <= edits /\ edits \in Nat
      BY <2>2, <2>3 DEF Counts, JournalEntry
    <2>5. UpTo(append.payload, edits)
      BY <2>3, <2>4, UpToMore
    <2> QED BY <2>2, <2>3, <2>4, <2>5 DEF Counts, Inv, Types
  <1>5. CASE Compact \/ Validate \/ Start \/ \E known, matches \in BOOLEAN : Discover(known, matches)
    <2>1. /\ append' = NoCall /\ pending' \in {pending, 0}
          /\ UNCHANGED <<edits, version, journal>>
      BY <1>5 DEF Compact, Validate, Start, Discover, OpenStore, MayCall, At, Inv, Turns, files, ghosts
    <2>2. \E matches : \/ LoadMemory(entries, nextSequence, partitioned, matches)
                       \/ OpenStore(matches)
      BY <1>5 DEF Compact, Validate, Start, Discover
    <2> QED BY <2>1, <2>2, CountsLoaded
  <1>6. CASE \/ BeginCheckpoint \/ DeleteManifest \/ DeleteProjects \/ WriteWorkspace
             \/ (\E p \in Projects : WriteProject(p)) \/ WriteManifest \/ DeleteJournal
             \/ BeginClear \/ EndClear \/ SaveCheckpoint \/ FailCheckpoint \/ Crash
             \/ UNCHANGED vars
    <2>1. UNCHANGED <<edits, version>> /\ append' \in {append, NoCall} /\ pending' \in {pending, 0}
      BY <1>6 DEF BeginCheckpoint, DeleteManifest, DeleteProjects, WriteWorkspace, WriteProject,
                  WriteManifest, DeleteJournal, EndCheckpoint, BeginClear, EndClear, SaveCheckpoint,
                  FailCheckpoint, Crash, ResetJournal, vars, memory, ghosts
    <2>2. nextSequence \in [Partitions -> Nat]
      BY DEF Inv, Types
    <2>3. \A p \in Partitions : nextSequence'[p] \in {nextSequence[p], 0}
      BY <1>6, <2>2 DEF BeginCheckpoint, DeleteManifest, DeleteProjects, WriteWorkspace, WriteProject,
                  WriteManifest, DeleteJournal, EndCheckpoint, BeginClear, EndClear, SaveCheckpoint,
                  FailCheckpoint, Crash, ResetJournal, OnlyWorkspace, NoSequences, vars, memory
    <2>4. \A p \in Partitions : journal'[p] \in {journal[p], NoFile, Torn}
      <3>1. CASE FailCheckpoint \/ Crash
        BY <3>1, CutShort DEF FailCheckpoint, Crash
      <3>2. journal \in [Partitions -> Seq(JournalEntry) \cup {NoFile, Torn}]
        BY DEF Inv, Types
      <3>3. CASE ~FailCheckpoint /\ ~Crash
        BY <1>6, <3>2, <3>3 DEF BeginCheckpoint, DeleteManifest, DeleteProjects, WriteWorkspace,
                  WriteProject, WriteManifest, DeleteJournal, BeginClear, EndClear, SaveCheckpoint,
                  OnlyWorkspace, vars, files
      <3> QED BY <3>1, <3>3
    <2> QED BY <2>1, <2>3, <2>4, CountsKept
  <1> QED BY <1>1, <1>2, <1>3, <1>4, <1>5, <1>6 DEF Next

-----------------------------------------------------------------------------
(* The theorems.                                                           *)

LEMMA InitConverges == Init => StoreInv /\ Counts
  <1> SUFFICES ASSUME Init PROVE StoreInv /\ Counts
    OBVIOUS
  <1>1. /\ checkpoint = [p \in Partitions |-> NoFile] /\ journal = [p \in Partitions |-> NoFile]
        /\ manifest = NoFile /\ entries = NoEntries /\ nextSequence = NoSequences
        /\ partitioned = FALSE /\ pending = 0 /\ model = FALSE /\ phase = "down"
        /\ restored = FALSE /\ cache = Nowhere /\ append = NoCall /\ persist = NoCall
        /\ edits = 0 /\ version = Nowhere /\ durable = Nowhere
        /\ unlogged = {} /\ unread = {} /\ integrity = "open"
    BY DEF Init
  <1>2. Nowhere \in [Docs -> Nat] /\ Bounded(Nowhere, Nowhere) /\ Current(Nowhere, Nowhere)
    BY DEF Nowhere, Bounded, Current
  <1>3. Listed = {} /\ Workspace \in Partitions /\ ~Whole(NoFile)
    BY <1>1 DEF Listed, Partitions, Whole
  <1>4. Base
    <2>1. Inv
      BY InitEstablishes
    <2>2. FileTypes
      BY <1>1, <1>2 DEF FileTypes
    <2>3. Placed
      BY <1>1, <1>2, <1>3, EmptyBelongs DEF Placed, Writing, NoEntries
    <2>4. Apart /\ Progress
      BY <1>1, <1>3 DEF Apart, Progress
    <2> QED BY <2>1, <2>2, <2>3, <2>4 DEF Base
  <1>5. FilesTell
    <2>1. Sound(durable, NoFile, NoFile)
      BY <1>3, SoundWithout
    <2> QED BY <1>1, <1>3, <2>1 DEF FilesTell
  <1>6. CallsTell /\ AppendTells /\ MemoryTells /\ WriteTells /\ UpTells /\ CheckpointTells /\ IntactTells
    BY <1>1, <1>2 DEF CallsTell, AppendTells, MemoryTells, WriteTells, UpTells, CheckpointTells,
                      IntactTells, Writing
  <1>7. Counts
    BY <1>1, StoreAssumption DEF Counts, Nowhere, NoSequences
  <1> QED BY <1>4, <1>5, <1>6, <1>7 DEF StoreInv

LEMMA StutterConverges == ASSUME StoreInv, Inv', UNCHANGED vars PROVE StoreInv'
  <1> USE DEF vars, files, memory, ghosts
  <1>1. Listed' = Listed /\ Load' = Load
    BY LoadUnchanged
  <1>2. Base'
    BY <1>1 DEF StoreInv, Base, FileTypes, Placed, Apart, Progress, Writing
  <1>3. FilesTell' /\ CallsTell' /\ AppendTells'
    BY <1>1 DEF StoreInv, FilesTell, CallsTell, AppendTells, Good
  <1>4. MemoryTells' /\ WriteTells' /\ UpTells'
    BY <1>1 DEF StoreInv, MemoryTells, WriteTells, UpTells, Writing, Good, WorkspaceTorn
  <1>5. CheckpointTells' /\ IntactTells'
    BY <1>1 DEF StoreInv, CheckpointTells, IntactTells, Known
  <1> QED BY <1>2, <1>3, <1>4, <1>5 DEF StoreInv

LEMMA NextConverges ==
  ASSUME ~Overlapping PROVE StoreInv /\ Counts /\ [Next]_vars => (StoreInv /\ Counts)'
  <1> SUFFICES ASSUME StoreInv, Counts, [Next]_vars PROVE (StoreInv /\ Counts)'
    OBVIOUS
  <1>1. Inv /\ FileTypes
    BY DEF StoreInv, Base
  <1>2. Inv'
    BY <1>1, NextPreserves
  <1>3. Counts'
    BY <1>1, <1>2, NextCounts
  <1>4. ASSUME NEW d \in Docs, NEW kept \in BOOLEAN, Mutate(d, kept) PROVE StoreInv'
    BY <1>2, <1>4, MutateConverges
  <1>5. ASSUME NEW d \in Docs, IndexUnlogged(d) PROVE StoreInv'
    BY <1>2, <1>5, IndexConverges
  <1>6. ASSUME PushEntry \/ EndAppend PROVE StoreInv'
    BY <1>2, <1>6, PushConverges, AppendConverges
  <1>7. ASSUME SaveCheckpoint \/ Compact \/ Validate \/ BeginClear \/ EndClear PROVE StoreInv'
    BY <1>2, <1>7, SaveConverges, CompactConverges, ValidateConverges, ClearConverges, ClearEnds
  <1>8. ASSUME BeginCheckpoint \/ DeleteManifest \/ DeleteProjects PROVE StoreInv'
    BY <1>2, <1>8, BeginConverges, ManifestConverges, ProjectsConverges
  <1>9. ASSUME NEW p \in Projects, WriteProject(p) PROVE StoreInv'
    BY <1>2, <1>9, ProjectConverges
  <1>10. ASSUME WriteWorkspace \/ WriteManifest \/ DeleteJournal PROVE StoreInv'
    BY <1>2, <1>10, WorkspaceConverges, ListConverges, JournalConverges
  <1>11. ASSUME NEW known \in BOOLEAN, NEW matches \in BOOLEAN, Discover(known, matches)
         PROVE  StoreInv'
    BY <1>2, <1>11, DiscoverConverges
  <1>12. ASSUME Start \/ FailCheckpoint \/ Crash \/ UNCHANGED vars PROVE StoreInv'
    BY <1>2, <1>12, StartConverges, FailConverges, CrashConverges, StutterConverges
  <1> QED BY <1>3, <1>4, <1>5, <1>6, <1>7, <1>8, <1>9, <1>10, <1>11, <1>12 DEF Next

LEMMA NothingStale == StoreInv => NoStaleRecord
  <1> SUFFICES ASSUME StoreInv, Good, Load # Rebuild, NEW d \in Docs
               PROVE  Load[d] = 0 \/ Load[d] >= durable[d]
    BY DEF NoStaleRecord, Fresh, Good
  <1>1. Base /\ FilesTell /\ FileTypes
    BY DEF StoreInv, Base
  <1>2. Current(durable, Load) /\ Load[d] \in Nat /\ durable[d] \in Nat
    BY <1>1, LoadFacts, LoadIsCurrent DEF FileTypes
  <1> QED BY <1>2 DEF Current

LEMMA NothingLost == StoreInv => IdleRestoreIsExact
  BY IntactIsLoaded DEF IdleRestoreIsExact, Idle, Known

\* The numbers and the records of a journal are as many as the edits allow.
LEMMA JournalTypes ==
  ASSUME NEW j \in Seq(JournalEntry), UpTo(j, edits), NEW p, Belongs(version, j, p), Counts,
         version \in [Docs -> Nat]
  PROVE  j \in Seq([sequence : 0..MaxEdits, doc : Docs, record : 0..MaxEdits])
  <1> DEFINE S == [sequence : 0..MaxEdits, doc : Docs, record : 0..MaxEdits]
  <1>1. ASSUME NEW i \in DOMAIN j PROVE j[i] \in S
    <2>1. /\ j[i] \in JournalEntry /\ j[i].sequence <= edits
          /\ j[i].record <= version[j[i].doc]
      BY DEF UpTo, Belongs
    <2>2. j[i].sequence \in Nat /\ j[i].doc \in Docs /\ j[i].record \in Nat
      BY <2>1 DEF JournalEntry
    <2>3. edits \in Nat /\ edits <= MaxEdits /\ version[j[i].doc] \in Nat /\ version[j[i].doc] <= edits
      BY <2>2 DEF Counts
    <2>4. j[i].sequence \in 0..MaxEdits /\ j[i].record \in 0..MaxEdits
      BY <2>1, <2>2, <2>3, StoreAssumption
    <2> QED BY <2>1, <2>2, <2>4 DEF JournalEntry
  <1>2. PICK n \in Nat : n = Len(j) /\ j \in [1 .. n -> JournalEntry]
    OBVIOUS
  <1>3. j \in [1 .. n -> S]
    <2> HIDE DEF S
    <2> QED BY <1>1, <1>2
  <1> HIDE DEF S
  <1>4. j \in Seq(S)
    BY <1>3
  <1> QED BY <1>4 DEF S

LEMMA StoreIsTyped == StoreInv /\ Counts => TypeOK
  <1> SUFFICES ASSUME StoreInv, Counts PROVE TypeOK
    OBVIOUS
  <1>1. Inv /\ Types /\ FileTypes /\ Placed /\ version \in [Docs -> Nat]
    BY DEF StoreInv, Base, Inv, Types
  <1>2. edits \in 0..MaxEdits /\ pending \in 0..MaxEdits
    BY StoreAssumption DEF Counts
  <1>3. ASSUME NEW docs \in [Docs -> Nat], Bounded(version, docs) PROVE docs \in Records
    <2>1. \A d \in Docs : docs[d] \in Nat /\ version[d] \in Nat /\ docs[d] <= version[d] /\ version[d] <= edits
      BY <1>1, <1>3 DEF Counts, Bounded
    <2>2. edits \in Nat /\ MaxEdits \in Nat /\ edits <= MaxEdits
      BY StoreAssumption DEF Counts
    <2>3. \A d \in Docs : docs[d] \in 0..MaxEdits
      BY <2>1, <2>2
    <2> QED BY <2>3 DEF Records
  <1>4. cache \in Records /\ durable \in Records /\ version \in Records
    <2>1. Bounded(version, version)
      BY <1>1 DEF Bounded
    <2> QED BY <1>1, <1>3, <2>1 DEF FileTypes, Placed
  <1>5. checkpoint \in [Partitions -> Records \cup {NoFile, Torn}]
    <2>1. ASSUME NEW p \in Partitions PROVE checkpoint[p] \in Records \cup {NoFile, Torn}
      <3>1. CASE Whole(checkpoint[p])
        <4>1. checkpoint[p] \in [Docs -> Nat] /\ Fits(version, checkpoint[p], p)
          BY <1>1, <3>1, WholeFacts DEF Placed
        <4>2. Bounded(version, checkpoint[p])
          BY <4>1 DEF Fits, Bounded
        <4> QED BY <1>3, <4>1, <4>2
      <3>2. CASE ~Whole(checkpoint[p])
        BY <3>2 DEF Whole
      <3> QED BY <3>1, <3>2
    <2> QED BY <1>1, <2>1 DEF FileTypes
  <1>6. ASSUME NEW p \in Partitions
        PROVE  /\ nextSequence[p] \in 0..MaxEdits
               /\ entries[p] \in Seq([sequence : 0..MaxEdits, doc : Docs, record : 0..MaxEdits])
               /\ \/ journal[p] \in {NoFile, Torn}
                  \/ journal[p] \in Seq([sequence : 0..MaxEdits, doc : Docs, record : 0..MaxEdits])
    <2>1. /\ nextSequence[p] \in Nat /\ nextSequence[p] <= edits /\ edits \in Nat
          /\ edits <= MaxEdits /\ MaxEdits \in Nat
      BY <1>1, StoreAssumption DEF Types, Counts
    <2>2. entries[p] \in Seq(JournalEntry) /\ UpTo(entries[p], nextSequence[p])
          /\ Belongs(version, entries[p], p)
      BY <1>1 DEF Inv, Types, JournalsGrow, Placed
    <2>3. UpTo(entries[p], edits)
      BY <2>1, <2>2, UpToMore
    <2>4. entries[p] \in Seq([sequence : 0..MaxEdits, doc : Docs, record : 0..MaxEdits])
      BY <1>1, <2>2, <2>3, JournalTypes
    <2>5. CASE journal[p] \notin {NoFile, Torn}
      <3>1. journal[p] \in Seq(JournalEntry) /\ UpTo(journal[p], edits)
        BY <1>1, <2>5 DEF Types, Counts
      <3>2. Belongs(version, journal[p], p)
        BY <1>1, <2>5 DEF Placed, Text
      <3>3. journal[p] \in Seq([sequence : 0..MaxEdits, doc : Docs, record : 0..MaxEdits])
        BY <1>1, <3>1, <3>2, JournalTypes
      <3> QED BY <2>1, <2>4, <3>3
    <2>6. CASE journal[p] \in {NoFile, Torn}
      BY <2>1, <2>4, <2>6
    <2> QED BY <2>5, <2>6
  <1>7. nextSequence \in [Partitions -> 0..MaxEdits]
    BY <1>1, <1>6 DEF Types
  <1> QED BY <1>1, <1>2, <1>4, <1>5, <1>6, <1>7 DEF TypeOK, FileTypes

\* As long as the calls take turns, the files, the store and the calls in flight keep their
\* types, whatever crashes or fails: no number exceeds the edits and no record the versions.
THEOREM StoreTyped == ASSUME ~Overlapping PROVE Spec => []TypeOK
  BY InitConverges, NextConverges, StoreIsTyped, PTL DEF Spec

\* As long as the calls take turns, load() never returns a record older than the last one
\* acknowledged, nor a removed document, whatever file a crash has cut short.
THEOREM NoRecordIsStale == ASSUME ~Overlapping PROVE Spec => []NoStaleRecord
  BY InitConverges, NextConverges, NothingStale, PTL DEF Spec

\* Once a checkpoint is whole and between the calls of the store, load() would return what the
\* server has, but for documents indexed without a mutation and mutations written where
\* load() does not look.
THEOREM RestoreIsExact == ASSUME ~Overlapping PROVE Spec => []IdleRestoreIsExact
  BY InitConverges, NextConverges, NothingLost, PTL DEF Spec
=============================================================================
