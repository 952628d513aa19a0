---------------------- MODULE InteractiveServingProofs ----------------------
(***************************************************************************)
(* Proofs about the caches behind the interactive features, for any        *)
(* documents, contents, answers and sizes of the cache: an answer bound to *)
(* an epoch is right for what the epoch has named, in memory and on file,  *)
(* and the flushes of the coordinator leave no change behind.              *)
(***************************************************************************)
EXTENDS InteractiveServingProperties, QueueLemmas

\* No key has two entries.
Keyed(q) == \A x, y \in Entries(q) : x.doc = y.doc /\ x.epoch = y.epoch => x = y

\* The entries name epochs that mean something, and, unless an epoch was used twice,
\* have the answers of its content.
Right(q, m, r) ==
  \A x \in Entries(q) :
    m[x.epoch] # None /\ (x.epoch \notin r => x.value = Computed(x.doc, m[x.epoch]))

Sound(q, m, r) == q \in Caches /\ Keyed(q) /\ Right(q, m, r)

\* The same of the answers of the graph and of the hot context.
GraphRight(g, m, r) ==
  \A d \in Docs : g.answers[d] # None =>
    /\ g.version \in Epochs /\ m[g.version] # None
    /\ g.version \notin r => g.answers[d] = Computed(d, m[g.version])

HotRight(h, m, r) ==
  h.members # None =>
    /\ h.active \in Docs /\ h.epoch \in Epochs /\ m[h.epoch] # None
    /\ h.epoch \notin r => h.members = Computed(h.active, m[h.epoch])

\* What a write brings to the file, if one is under way.
FlightSound(p, m, r) == p = NoFlight \/ Sound(p, m, r)

CachesSound ==
  /\ Sound(serving, meaning, reused) /\ Sound(file, meaning, reused)
  /\ FlightSound(inFlight, meaning, reused) /\ FlightSound(direct, meaning, reused)
  /\ GraphRight(graph, meaning, reused) /\ HotRight(hot, meaning, reused)

\* The current epoch means the current content; the first one that of an empty index.
EpochsMean ==
  /\ meaning[epoch] = content /\ meaning[0] = Blank
  /\ saved # None /\ saved.epoch = 0 => saved.content = Blank

\* The entries of q that are current at epoch e.
Current(q, e) == {x \in Entries(q) : x.epoch = e}

\* The write that ends last brings the current entries to the file, or is known to be
\* overtaken or followed by another.
FlushesCatchUp ==
  phase = "running" =>
    /\ inFlight = NoFlight /\ direct = NoFlight /\ ~failed /\ ~raced =>
         Current(file, epoch) = Current(serving, epoch)
    /\ inFlight # NoFlight /\ ~dirty /\ ~raced =>
         Current(inFlight, epoch) = Current(serving, epoch)
    /\ direct # NoFlight /\ inFlight = NoFlight /\ ~raced =>
         Current(direct, epoch) = Current(serving, epoch)
    /\ direct # NoFlight /\ inFlight # NoFlight => raced

StoreIsOpen == phase \notin {"starting", "stopping"} => hasStore

\* The type of what is not a list of entries.
FlagsTyped ==
  dirty \in BOOLEAN /\ hasStore \in BOOLEAN /\ failed \in BOOLEAN /\ raced \in BOOLEAN

IndexTyped ==
  /\ phase \in {"starting", "loading", "fresh", "restoring", "restored", "indexing",
                "running", "stopping"}
  /\ session \in 1 .. MaxSessions
  /\ content \in Contents /\ epoch \in Epochs
  /\ graph \in [version : Epochs \cup {NoVersion},
                answers : [Docs -> Values \cup {None}]]
  /\ hot \in [active : Docs \cup {None}, epoch : Epochs \cup {NoVersion},
              members : Values \cup {None}]
  /\ saved = None \/ saved \in [content : Contents, epoch : Epochs]
  /\ meaning \in [Epochs -> Contents \cup {None}]
  /\ reused \subseteq Epochs

IInv ==
  /\ FlagsTyped /\ IndexTyped /\ CachesSound
  /\ EpochsMean /\ FlushesCatchUp /\ StoreIsOpen

LEMMA Typed == IInv => TypeOK
  BY DEF IInv, FlagsTyped, IndexTyped, CachesSound, FlightSound, Sound, TypeOK

-----------------------------------------------------------------------------
(* The operations on a list of entries.                                    *)

\* A list of entries is not the mark of a write that is not under way.
LEMMA CacheIsNoMark == ASSUME NEW q \in Caches PROVE q # NoFlight
  <1>1. Len(q) \in 0 .. Capacity /\ q \in [1 .. Len(q) -> Entry]
    BY CapacityAssumption DEF Caches
  <1> QED BY <1>1, ServingAssumption DEF Entry

\* What is left of a list of entries when some are dropped.
LEMMA KeptEntries ==
  ASSUME NEW q \in Caches, NEW I \in SUBSET DOMAIN q
  PROVE  LET p == Subsequence(q, I)
         IN  /\ p \in Caches /\ Entries(p) = {q[i] : i \in I}
             /\ I # DOMAIN q => Len(p) < Len(q)
  <1> DEFINE p == Subsequence(q, I)
  <1>1. q \in Seq(Entry) /\ Len(q) \in Nat /\ Len(q) <= Capacity /\ Capacity \in Nat
    BY CapacityAssumption DEF Caches
  <1>2. /\ p \in Seq(Entry) /\ Len(p) <= Len(q)
        /\ I # DOMAIN q => Len(p) < Len(q)
        /\ \A n \in DOMAIN p : \E i \in I : p[n] = q[i]
        /\ \A i \in I : \E n \in DOMAIN p : p[n] = q[i]
    BY <1>1, SubsequenceFacts
  <1> HIDE DEF p
  <1>3. p \in Caches
    BY <1>1, <1>2 DEF Caches
  <1>4. ASSUME NEW x PROVE x \in Entries(p) <=> \E i \in I : x = q[i]
    BY <1>2 DEF Entries
  <1> QED BY <1>2, <1>3, <1>4 DEF p

LEMMA WithoutFacts ==
  ASSUME NEW q \in Caches, NEW d, NEW e
  PROVE  /\ Without(q, d, e) \in Caches
         /\ Entries(Without(q, d, e)) = {x \in Entries(q) : ~(x.doc = d /\ x.epoch = e)}
         /\ HasKey(q, d, e) => Len(Without(q, d, e)) < Len(q)
  <1> DEFINE I == {i \in DOMAIN q : ~(q[i].doc = d /\ q[i].epoch = e)}
  <1>1. I \in SUBSET DOMAIN q /\ Without(q, d, e) = Subsequence(q, I)
    BY DEF Without
  <1>2. {q[i] : i \in I} = {x \in Entries(q) : ~(x.doc = d /\ x.epoch = e)}
    BY DEF Entries
  <1>3. HasKey(q, d, e) => I # DOMAIN q
    BY DEF HasKey, Entries
  <1> HIDE DEF I
  <1> QED BY <1>1, <1>2, <1>3, KeptEntries

LEMMA InvalidateFacts ==
  ASSUME NEW q \in Caches, NEW D
  PROVE  Invalidate(q, D) \in Caches /\ Entries(Invalidate(q, D)) \subseteq Entries(q)
  <1> DEFINE I == {i \in DOMAIN q : q[i].doc \notin D}
  <1>1. I \in SUBSET DOMAIN q /\ Invalidate(q, D) = Subsequence(q, I)
    BY DEF Invalidate
  <1>2. {q[i] : i \in I} \subseteq Entries(q)
    BY <1>1 DEF Entries
  <1> HIDE DEF I
  <1> QED BY <1>1, <1>2, KeptEntries

LEMMA SnapshotFacts ==
  ASSUME NEW q \in Caches, NEW e
  PROVE  /\ Snapshot(q, e) \in Caches /\ Snapshot(q, e) # NoFlight
         /\ Entries(Snapshot(q, e)) = Current(q, e)
  <1> DEFINE I == {i \in DOMAIN q : q[i].epoch = e}
  <1>1. I \in SUBSET DOMAIN q /\ Snapshot(q, e) = Subsequence(q, I)
    BY DEF Snapshot
  <1>2. {q[i] : i \in I} = Current(q, e)
    BY DEF Entries, Current
  <1> HIDE DEF I
  <1> QED BY <1>1, <1>2, KeptEntries, CacheIsNoMark

\* Append of an entry, where there is room.
LEMMA AppendEntry ==
  ASSUME NEW q \in Caches, Len(q) < Capacity, NEW x \in Entry
  PROVE  Append(q, x) \in Caches /\ Entries(Append(q, x)) = Entries(q) \cup {x}
  <1> DEFINE p == Append(q, x)
  <1>1. q \in Seq(Entry) /\ Capacity \in Nat
    BY CapacityAssumption DEF Caches
  <1>2. /\ p \in Seq(Entry) /\ Len(p) = Len(q) + 1 /\ Len(q) \in Nat
        /\ DOMAIN q = 1 .. Len(q) /\ DOMAIN p = 1 .. (Len(q) + 1)
        /\ \A i \in DOMAIN q : i \in DOMAIN p /\ p[i] = q[i]
        /\ Len(q) + 1 \in DOMAIN p /\ p[Len(q) + 1] = x
        /\ \A i \in DOMAIN p : i \in DOMAIN q \/ i = Len(q) + 1
    BY <1>1
  <1> HIDE DEF p
  <1>3. p \in Caches
    BY <1>1, <1>2 DEF Caches
  <1>4. Entries(p) = Entries(q) \cup {x}
    BY <1>2, Zenon DEF Entries
  <1> QED BY <1>3, <1>4 DEF p

\* A hit changes the order of the entries only.
LEMMA WarmFacts ==
  ASSUME NEW q \in Caches, Keyed(q), NEW d, NEW e, HasKey(q, d, e)
  PROVE  Warm(q, d, e) \in Caches /\ Entries(Warm(q, d, e)) = Entries(q)
  <1> DEFINE rest == Without(q, d, e)
             x == [doc |-> d, epoch |-> e, value |-> ValueAt(q, d, e)]
  <1>1. PICK y \in Entries(q) : y.doc = d /\ y.epoch = e
    BY DEF HasKey
  <1>2. y \in Entry /\ \A z \in Entries(q) : z.doc = d /\ z.epoch = e => z = y
    BY <1>1 DEF Keyed, Caches, Entries
  <1>3. (CHOOSE z \in Entries(q) : z.doc = d /\ z.epoch = e) = y
    BY <1>1, <1>2
  <1>4. x = y
    BY <1>1, <1>2, <1>3 DEF ValueAt, Entry
  <1>5. /\ rest \in Caches /\ Len(rest) < Len(q)
        /\ Entries(rest) = {z \in Entries(q) : ~(z.doc = d /\ z.epoch = e)}
    BY WithoutFacts
  <1>6. Len(rest) < Capacity
    BY <1>5, CapacityAssumption DEF Caches
  <1>7. Warm(q, d, e) = Append(rest, x)
    BY DEF Warm
  <1> HIDE DEF rest, x
  <1>8. /\ Append(rest, x) \in Caches
        /\ Entries(Append(rest, x)) = Entries(rest) \cup {x}
    BY <1>2, <1>4, <1>5, <1>6, AppendEntry
  <1> QED BY <1>1, <1>2, <1>4, <1>5, <1>7, <1>8

LEMMA TailFacts ==
  ASSUME NEW q \in Caches, q # <<>>
  PROVE  Tail(q) \in Caches /\ Len(Tail(q)) < Capacity /\ Entries(Tail(q)) \subseteq Entries(q)
  <1>1. q \in Seq(Entry) /\ Capacity \in Nat /\ Len(q) <= Capacity
    BY CapacityAssumption DEF Caches
  <1>2. Tail(q) \in Seq(Entry) /\ Len(Tail(q)) = Len(q) - 1 /\ Len(q) \in Nat
    BY <1>1
  <1>3. \A i \in DOMAIN Tail(q) : i + 1 \in DOMAIN q /\ Tail(q)[i] = q[i + 1]
    BY <1>1
  <1> QED BY <1>1, <1>2, <1>3 DEF Caches, Entries

\* set() evicts at most, and adds the one entry of its key.
LEMMA PutFacts ==
  ASSUME NEW q \in Caches, Keyed(q), NEW d \in Docs, NEW e \in Epochs, NEW v \in Values
  PROVE  /\ Put(q, d, e, v) \in Caches /\ Keyed(Put(q, d, e, v))
         /\ Entries(Put(q, d, e, v))
              \subseteq Entries(q) \cup {[doc |-> d, epoch |-> e, value |-> v]}
  <1> DEFINE rest == IF HasKey(q, d, e) THEN Without(q, d, e)
                     ELSE IF Len(q) >= Capacity THEN Tail(q) ELSE q
             x == [doc |-> d, epoch |-> e, value |-> v]
  <1>1. /\ rest \in Caches /\ Len(rest) < Capacity /\ Entries(rest) \subseteq Entries(q)
        /\ \A y \in Entries(rest) : ~(y.doc = d /\ y.epoch = e)
    <2>1. CASE HasKey(q, d, e)
      <3>1. Len(q) <= Capacity /\ Len(q) \in Nat /\ Capacity \in Nat
        BY CapacityAssumption DEF Caches
      <3>2. /\ Without(q, d, e) \in Caches /\ Len(Without(q, d, e)) < Len(q)
            /\ Entries(Without(q, d, e)) = {y \in Entries(q) : ~(y.doc = d /\ y.epoch = e)}
        BY <2>1, WithoutFacts
      <3>3. Len(Without(q, d, e)) \in Nat
        BY <3>2 DEF Caches
      <3> QED BY <2>1, <3>1, <3>2, <3>3
    <2>2. CASE ~HasKey(q, d, e) /\ Len(q) >= Capacity
      <3>1. q # <<>>
        BY <2>2, CapacityAssumption
      <3> QED BY <2>2, <3>1, TailFacts DEF HasKey
    <2>3. CASE ~HasKey(q, d, e) /\ ~(Len(q) >= Capacity)
      <3>1. Len(q) < Capacity
        BY <2>3, CapacityAssumption DEF Caches
      <3> QED BY <2>3, <3>1 DEF HasKey
    <2> QED BY <2>1, <2>2, <2>3
  <1>2. x \in Entry
    BY DEF Entry
  <1>3. Put(q, d, e, v) = Append(rest, x)
    BY DEF Put
  <1>4. x.doc = d /\ x.epoch = e
    OBVIOUS
  <1> HIDE DEF rest, x
  <1>5. /\ Append(rest, x) \in Caches
        /\ Entries(Append(rest, x)) = Entries(rest) \cup {x}
    BY <1>1, <1>2, AppendEntry
  <1>6. Keyed(Append(rest, x))
    BY <1>1, <1>4, <1>5 DEF Keyed
  <1> QED BY <1>1, <1>3, <1>5, <1>6 DEF x

LEMMA YoungestFacts == ASSUME NEW q \in Caches PROVE Youngest(q) = q
  BY CapacityAssumption DEF Youngest, Caches

LEMMA EmptyCache == <<>> \in Caches /\ Entries(<<>>) = {} /\ Keyed(<<>>)
  BY CapacityAssumption DEF Caches, Entries, Keyed

-----------------------------------------------------------------------------
(* Sound lists of entries.                                                 *)

LEMMA SoundPart ==
  ASSUME NEW q, NEW m, NEW r, Sound(q, m, r),
         NEW p \in Caches, Entries(p) \subseteq Entries(q)
  PROVE  Sound(p, m, r)
  BY DEF Sound, Keyed, Right

LEMMA SoundEmpty == ASSUME NEW m, NEW r PROVE Sound(<<>>, m, r)
  BY EmptyCache DEF Sound, Right

LEMMA SoundSnapshot ==
  ASSUME NEW q, NEW m, NEW r, Sound(q, m, r), NEW e
  PROVE  Sound(Snapshot(q, e), m, r)
  <1>1. q \in Caches
    BY DEF Sound
  <1>2. Snapshot(q, e) \in Caches /\ Entries(Snapshot(q, e)) \subseteq Entries(q)
    BY <1>1, SnapshotFacts DEF Current
  <1> QED BY <1>2, SoundPart

\* An answer may be cached under an epoch whose content gives it.
LEMMA SoundPut ==
  ASSUME NEW q, NEW m, NEW r, Sound(q, m, r),
         NEW d \in Docs, NEW e \in Epochs, NEW v \in Values,
         m[e] # None, e \notin r => v = Computed(d, m[e])
  PROVE  Sound(Put(q, d, e, v), m, r)
  <1> DEFINE p == Put(q, d, e, v)
             x == [doc |-> d, epoch |-> e, value |-> v]
  <1>1. q \in Caches /\ Keyed(q) /\ Right(q, m, r)
    BY DEF Sound
  <1>2. p \in Caches /\ Keyed(p) /\ Entries(p) \subseteq Entries(q) \cup {x}
    BY <1>1, PutFacts
  <1>3. x.doc = d /\ x.epoch = e /\ x.value = v
    OBVIOUS
  <1> HIDE DEF p, x
  <1>4. Right(p, m, r)
    BY <1>1, <1>2, <1>3 DEF Right
  <1> QED BY <1>2, <1>4 DEF Sound, p

\* What a publication of c under e makes of the meanings m and of the epochs r used twice.
Published(m, r, e, c, m2, r2) ==
  /\ m2 = [m EXCEPT ![e] = c]
  /\ r2 = IF m[e] \in {None, c} THEN r ELSE r \cup {e}

\* A publication keeps what was right: it either leaves the meaning of the epochs in
\* use, or marks the epoch as used twice.
LEMMA PublishedRight ==
  ASSUME NEW m \in [Epochs -> Contents \cup {None}], NEW r \in SUBSET Epochs,
         NEW e \in Epochs, NEW c \in Contents, NEW m2, NEW r2, Published(m, r, e, c, m2, r2)
  PROVE  /\ m2 \in [Epochs -> Contents \cup {None}] /\ r2 \in SUBSET Epochs /\ m2[e] = c
         /\ \A q : Sound(q, m, r) => Sound(q, m2, r2)
         /\ \A p : FlightSound(p, m, r) => FlightSound(p, m2, r2)
         /\ \A g : GraphRight(g, m, r) => GraphRight(g, m2, r2)
         /\ \A h : HotRight(h, m, r) => HotRight(h, m2, r2)
  <1>1. m2 \in [Epochs -> Contents \cup {None}] /\ r2 \in SUBSET Epochs /\ m2[e] = c
    BY DEF Published
  <1>2. ASSUME NEW k \in Epochs, m[k] # None
        PROVE  /\ m2[k] # None
               /\ k \notin r2 => k \notin r /\ m2[k] = m[k]
    <2>1. CASE k = e
      BY <1>1, <1>2, <2>1, ServingAssumption DEF Published
    <2>2. CASE k # e
      BY <1>2, <2>2 DEF Published
    <2> QED BY <2>1, <2>2
  <1>3. ASSUME NEW q, Sound(q, m, r) PROVE Sound(q, m2, r2)
    <2>1. q \in Caches /\ Keyed(q) /\ Right(q, m, r)
      BY <1>3 DEF Sound
    <2>2. \A x \in Entries(q) : x \in Entry
      BY <2>1 DEF Caches, Entries
    <2>3. \A x \in Entries(q) : x.epoch \in Epochs
      BY <2>2 DEF Entry
    <2>4. Right(q, m2, r2)
      BY <1>2, <2>1, <2>3 DEF Right
    <2> QED BY <2>1, <2>4 DEF Sound
  <1>4. ASSUME NEW g, GraphRight(g, m, r) PROVE GraphRight(g, m2, r2)
    BY <1>2, <1>4 DEF GraphRight
  <1>5. ASSUME NEW h, HotRight(h, m, r) PROVE HotRight(h, m2, r2)
    BY <1>2, <1>5 DEF HotRight
  <1> QED BY <1>1, <1>3, <1>4, <1>5 DEF FlightSound

-----------------------------------------------------------------------------
(* The steps of the coordinator.                                           *)

\* What is written is a part of the cache, so it is as sound.
LEMMA BeginFlushSound ==
  ASSUME NEW q, NEW m, NEW r, NEW e, Sound(q, m, r), FlagsTyped, BeginFlush(q, e)
  PROVE  FlightSound(inFlight', m, r) /\ raced' \in BOOLEAN
  <1>1. Sound(Snapshot(q, e), m, r)
    BY SoundSnapshot
  <1> QED BY <1>1 DEF BeginFlush, FlightSound, FlagsTyped

LEMMA ChangedSound ==
  ASSUME NEW q, NEW m, NEW r, NEW e, FlagsTyped, Sound(q, m, r), Sound(file, m, r),
         FlightSound(inFlight, m, r), FlightSound(direct, m, r), Changed(q, e)
  PROVE  /\ Sound(serving', m, r) /\ Sound(file', m, r)
         /\ FlightSound(inFlight', m, r) /\ FlightSound(direct', m, r) /\ FlagsTyped'
  BY BeginFlushSound DEF Changed, FlagsTyped

LEMMA EmptiedAndChangedSound ==
  ASSUME NEW q, NEW m, NEW r, NEW e, FlagsTyped, Sound(q, m, r), Sound(file, m, r),
         FlightSound(inFlight, m, r), FlightSound(direct, m, r), EmptiedAndChanged(q, e)
  PROVE  /\ Sound(serving', m, r) /\ Sound(file', m, r)
         /\ FlightSound(inFlight', m, r) /\ FlightSound(direct', m, r) /\ FlagsTyped'
  BY BeginFlushSound, SoundEmpty DEF EmptiedAndChanged, FlagsTyped

LEMMA WriteSound ==
  ASSUME NEW m, NEW r, NEW e, FlagsTyped, Sound(serving, m, r), Sound(file, m, r),
         FlightSound(inFlight, m, r), FlightSound(direct, m, r),
         FlushEnds(e) \/ FlushFails \/ DirectEnds \/ DirectFails
  PROVE  /\ Sound(serving', m, r) /\ Sound(file', m, r)
         /\ FlightSound(inFlight', m, r) /\ FlightSound(direct', m, r) /\ FlagsTyped'
  <1>1. CASE FlushEnds(e)
    BY <1>1, BeginFlushSound DEF FlushEnds, FlagsTyped, FlightSound
  <1>2. CASE FlushFails
    BY <1>2, SoundEmpty DEF FlushFails, FlagsTyped, FlightSound
  <1>3. CASE DirectEnds
    BY <1>3 DEF DirectEnds, FlagsTyped, FlightSound
  <1>4. CASE DirectFails
    BY <1>4, SoundEmpty DEF DirectFails, FlagsTyped, FlightSound
  <1> QED BY <1>1, <1>2, <1>3, <1>4

\* A change is written at once, or leaves the flush under way to start over.
LEMMA ChangedCatchesUp ==
  ASSUME NEW q \in Caches, FlagsTyped, hasStore, Changed(q, epoch'),
         direct # NoFlight /\ inFlight # NoFlight => raced
  PROVE  FlushesCatchUp'
  <1>1. Snapshot(q, epoch') # NoFlight /\ Entries(Snapshot(q, epoch')) = Current(q, epoch')
    BY SnapshotFacts
  <1>2. Current(Snapshot(q, epoch'), epoch') = Current(q, epoch')
    BY <1>1 DEF Current
  <1>3. CASE inFlight = NoFlight
    <2>1. /\ inFlight' = Snapshot(q, epoch') /\ raced' = (direct # NoFlight)
          /\ direct' = direct /\ serving' = q
      BY <1>3 DEF Changed, BeginFlush
    <2> QED BY <1>1, <1>2, <2>1 DEF FlushesCatchUp
  <1>4. CASE inFlight # NoFlight
    <2>1. inFlight' = inFlight /\ raced' = raced /\ direct' = direct /\ dirty'
      BY <1>4 DEF Changed
    <2> QED BY <1>4, <2>1 DEF FlushesCatchUp
  <1> QED BY <1>3, <1>4

LEMMA EmptiedAndChangedCatchesUp ==
  ASSUME NEW q, FlagsTyped, hasStore, EmptiedAndChanged(q, epoch'),
         direct # NoFlight /\ inFlight # NoFlight => raced
  PROVE  FlushesCatchUp'
  <1>1. Snapshot(<<>>, epoch') # NoFlight
    BY EmptyCache, SnapshotFacts
  <1>2. CASE inFlight = NoFlight
    <2>1. /\ inFlight' = Snapshot(<<>>, epoch') /\ raced' = (direct # NoFlight)
          /\ direct' = direct /\ dirty'
      BY <1>2 DEF EmptiedAndChanged, BeginFlush
    <2> QED BY <1>1, <2>1 DEF FlushesCatchUp
  <1>3. CASE inFlight # NoFlight
    <2>1. inFlight' = inFlight /\ raced' = raced /\ direct' = direct /\ dirty'
      BY <1>3 DEF EmptiedAndChanged
    <2> QED BY <1>3, <2>1 DEF FlushesCatchUp
  <1> QED BY <1>2, <1>3

\* A write that ends leaves the current entries on file, or another write under way, or
\* the mark of a failure.
LEMMA WriteCatchesUp ==
  ASSUME TypeOK, FlushesCatchUp, phase = "running", hasStore, UNCHANGED <<epoch, phase>>,
         FlushEnds(epoch) \/ FlushFails \/ DirectEnds \/ DirectFails
  PROVE  FlushesCatchUp'
  <1>1. serving \in Caches /\ raced \in BOOLEAN
    BY DEF TypeOK
  <1>2. /\ Snapshot(serving, epoch) # NoFlight
        /\ Current(Snapshot(serving, epoch), epoch) = Current(serving, epoch)
    BY <1>1, SnapshotFacts DEF Current
  <1>3. CASE FlushEnds(epoch)
    <2>1. CASE dirty
      <3>1. /\ inFlight' = Snapshot(serving, epoch) /\ raced' = (direct # NoFlight)
            /\ direct' = direct /\ serving' = serving
        BY <1>3, <2>1 DEF FlushEnds, BeginFlush
      <3> QED BY <1>2, <3>1 DEF FlushesCatchUp
    <2>2. CASE ~dirty
      BY <1>3, <2>2 DEF FlushEnds, FlushesCatchUp
    <2> QED BY <2>1, <2>2
  <1>4. CASE FlushFails
    BY <1>4 DEF FlushFails, FlushesCatchUp
  <1>5. CASE DirectEnds
    BY <1>5 DEF DirectEnds, FlushesCatchUp
  <1>6. CASE DirectFails
    BY <1>6 DEF DirectFails, FlushesCatchUp
  <1> QED BY <1>3, <1>4, <1>5, <1>6

-----------------------------------------------------------------------------
(* The answers of the graph and of the hot context.                        *)

LEMMA GraphFacts ==
  ASSUME TypeOK, GraphRight(graph, meaning, reused), EpochsMean, NEW d \in Docs
  PROVE  /\ GraphAfter(d) \in [version : Epochs \cup {NoVersion},
                               answers : [Docs -> Values \cup {None}]]
         /\ GraphRight(GraphAfter(d), meaning, reused)
         /\ GraphAnswer(d) \in Values
         /\ epoch \notin reused => GraphAnswer(d) = Computed(d, content)
  <1>1. /\ graph \in [version : Epochs \cup {NoVersion},
                      answers : [Docs -> Values \cup {None}]]
        /\ epoch \in Epochs /\ content \in Contents
        /\ meaning[epoch] = content /\ content # None
    BY ServingAssumption DEF TypeOK, EpochsMean
  <1>2. CheckedAnswers \in [Docs -> Values \cup {None}]
    BY <1>1 DEF CheckedAnswers
  <1>3. ASSUME NEW k \in Docs, CheckedAnswers[k] # None, epoch \notin reused
        PROVE  CheckedAnswers[k] = Computed(k, content)
    BY <1>1, <1>3 DEF CheckedAnswers, GraphRight
  <1>4. GraphAnswer(d) \in Values
    BY <1>1, <1>2 DEF GraphAnswer, Values
  <1>5. epoch \notin reused => GraphAnswer(d) = Computed(d, content)
    BY <1>3 DEF GraphAnswer
  <1> DEFINE answers == [CheckedAnswers EXCEPT ![d] = GraphAnswer(d)]
  <1>6. /\ answers \in [Docs -> Values \cup {None}]
        /\ \A k \in Docs : answers[k] = IF k = d THEN GraphAnswer(d) ELSE CheckedAnswers[k]
    BY <1>2, <1>4
  <1>7. GraphAfter(d) = [version |-> epoch, answers |-> answers]
    BY DEF GraphAfter
  <1> HIDE DEF answers
  <1>8. GraphRight(GraphAfter(d), meaning, reused)
    BY <1>1, <1>3, <1>5, <1>6, <1>7 DEF GraphRight
  <1> QED BY <1>1, <1>4, <1>5, <1>6, <1>7, <1>8

LEMMA ActiveFacts ==
  ASSUME TypeOK, HotRight(hot, meaning, reused), EpochsMean, NEW d \in Docs
  PROVE  /\ ActiveAt(d) \in [active : Docs \cup {None}, epoch : Epochs \cup {NoVersion},
                             members : Values \cup {None}]
         /\ ActiveAt(d).active = d /\ ActiveAt(d).epoch = epoch
         /\ HotRight(ActiveAt(d), meaning, reused)
         /\ ActiveAt(d).members # None /\ epoch \notin reused =>
              ActiveAt(d).members = Computed(d, content)
  <1>1. /\ hot \in [active : Docs \cup {None}, epoch : Epochs \cup {NoVersion},
                    members : Values \cup {None}]
        /\ epoch \in Epochs /\ meaning[epoch] = content
    BY DEF TypeOK, EpochsMean
  <1>2. CASE hot.active = d /\ hot.epoch = epoch
    BY <1>1, <1>2 DEF ActiveAt, HotRight
  <1>3. CASE ~(hot.active = d /\ hot.epoch = epoch)
    BY <1>1, <1>3 DEF ActiveAt, HotRight
  <1> QED BY <1>2, <1>3

-----------------------------------------------------------------------------
(* The actions.                                                            *)

LEMMA InitHolds == Init => IInv
  <1> SUFFICES ASSUME Init PROVE IInv
    OBVIOUS
  <1>1. 0 \in Epochs /\ NoVersion \in Epochs \cup {NoVersion} /\ 1 \in 1 .. MaxSessions
    BY ServingAssumption DEF Epochs
  <1>2. FlagsTyped /\ StoreIsOpen /\ FlushesCatchUp
    BY DEF Init, FlagsTyped, StoreIsOpen, FlushesCatchUp
  <1>3. IndexTyped
    BY <1>1, ServingAssumption DEF Init, IndexTyped, NoGraph, NoContext
  <1>4. EpochsMean
    BY <1>1 DEF Init, EpochsMean
  <1>5. CachesSound
    BY SoundEmpty DEF Init, CachesSound, FlightSound, GraphRight, HotRight, NoGraph, NoContext
  <1> QED BY <1>2, <1>3, <1>4, <1>5 DEF IInv

\* A publication under an epoch of the bound; epoch 0 is only used by the empty index.
LEMMA PublishAtHolds ==
  ASSUME IndexTyped, CachesSound, EpochsMean, NEW c \in Contents, NEW e \in Epochs,
         PublishAt(c, e), e = 0 => c = Blank
  PROVE  /\ content' \in Contents /\ epoch' \in Epochs
         /\ meaning' \in [Epochs -> Contents \cup {None}] /\ reused' \subseteq Epochs
         /\ meaning'[epoch'] = content' /\ meaning'[0] = Blank
         /\ \A q : Sound(q, meaning, reused) => Sound(q, meaning', reused')
         /\ \A p : FlightSound(p, meaning, reused) => FlightSound(p, meaning', reused')
         /\ \A g : GraphRight(g, meaning, reused) => GraphRight(g, meaning', reused')
         /\ \A h : HotRight(h, meaning, reused) => HotRight(h, meaning', reused')
  <1>1. /\ meaning \in [Epochs -> Contents \cup {None}] /\ reused \in SUBSET Epochs
        /\ Published(meaning, reused, e, c, meaning', reused')
        /\ content' = c /\ epoch' = e
    BY DEF IndexTyped, PublishAt, Published
  <1>2. meaning' \in [Epochs -> Contents \cup {None}] /\ reused' \in SUBSET Epochs
    BY <1>1, PublishedRight
  <1>3. meaning'[e] = c
    BY <1>1, PublishedRight
  <1>4. \A q : Sound(q, meaning, reused) => Sound(q, meaning', reused')
    BY <1>1, PublishedRight
  <1>5. \A p : FlightSound(p, meaning, reused) => FlightSound(p, meaning', reused')
    BY <1>1, PublishedRight
  <1>6. \A g : GraphRight(g, meaning, reused) => GraphRight(g, meaning', reused')
    BY <1>1, PublishedRight
  <1>7. \A h : HotRight(h, meaning, reused) => HotRight(h, meaning', reused')
    BY <1>1, PublishedRight
  <1>8. meaning'[0] = Blank
    <2>1. 0 \in Epochs /\ meaning[0] = Blank
      BY ServingAssumption DEF EpochsMean, Epochs
    <2> QED BY <1>1, <2>1 DEF Published
  <1> QED BY <1>1, <1>2, <1>3, <1>4, <1>5, <1>6, <1>7, <1>8

LEMMA NextEpoch ==
  ASSUME IndexTyped, epoch < MaxEpoch PROVE epoch + 1 \in Epochs /\ epoch + 1 # 0
  BY ServingAssumption DEF IndexTyped, Epochs

LEMMA PublishHolds ==
  ASSUME IInv, NEW c \in Contents, NEW plan \in SUBSET Docs, Publish(c, plan)
  PROVE  IInv'
  <1> USE DEF IInv
  <1> DEFINE q == Invalidate(serving, plan)
  <1>1. epoch + 1 \in Epochs /\ epoch + 1 # 0
    BY NextEpoch DEF Publish
  <1>2. /\ content' \in Contents /\ epoch' \in Epochs /\ epoch' = epoch + 1
        /\ meaning' \in [Epochs -> Contents \cup {None}] /\ reused' \subseteq Epochs
        /\ meaning'[epoch'] = content' /\ meaning'[0] = Blank
        /\ \A p : Sound(p, meaning, reused) => Sound(p, meaning', reused')
        /\ \A p : FlightSound(p, meaning, reused) => FlightSound(p, meaning', reused')
        /\ \A g : GraphRight(g, meaning, reused) => GraphRight(g, meaning', reused')
        /\ \A h : HotRight(h, meaning, reused) => HotRight(h, meaning', reused')
    <2>1. PublishAt(c, epoch + 1) /\ epoch' = epoch + 1
      BY DEF Publish, PublishAt
    <2> QED BY <1>1, <2>1, PublishAtHolds
  <1>3. Sound(q, meaning, reused)
    <2>1. Sound(serving, meaning, reused) /\ serving \in Caches
      BY DEF CachesSound, Sound
    <2>2. q \in Caches /\ Entries(q) \subseteq Entries(serving)
      BY <2>1, InvalidateFacts
    <2> QED BY <2>1, <2>2, SoundPart
  <1>4. /\ Changed(q, epoch') /\ hot' = [hot EXCEPT !.members = None]
        /\ UNCHANGED <<phase, session, graph, saved>>
    BY <1>2 DEF Publish
  <1> HIDE DEF q
  <1>5. /\ Sound(serving', meaning', reused') /\ Sound(file', meaning', reused')
        /\ FlightSound(inFlight', meaning', reused') /\ FlightSound(direct', meaning', reused')
        /\ FlagsTyped'
    <2>1. /\ Sound(q, meaning', reused') /\ Sound(file, meaning', reused')
          /\ FlightSound(inFlight, meaning', reused') /\ FlightSound(direct, meaning', reused')
      BY <1>2, <1>3 DEF CachesSound
    <2> QED BY <1>4, <2>1, ChangedSound
  <1>6. CachesSound'
    <2>1. GraphRight(graph', meaning', reused')
      BY <1>2, <1>4 DEF CachesSound
    <2>2. HotRight(hot', meaning', reused')
      BY <1>4 DEF HotRight, IndexTyped
    <2> QED BY <1>5, <2>1, <2>2 DEF CachesSound
  <1>7. IndexTyped'
    BY <1>2, <1>4 DEF IndexTyped
  <1>8. EpochsMean'
    BY <1>2, <1>4 DEF EpochsMean
  <1>9. StoreIsOpen'
    BY <1>4 DEF StoreIsOpen, Changed
  <1>10. FlushesCatchUp'
    <2>1. CASE phase # "running"
      BY <1>4, <2>1 DEF FlushesCatchUp
    <2>2. CASE phase = "running"
      <3>1. /\ hasStore /\ q \in Caches
            /\ direct # NoFlight /\ inFlight # NoFlight => raced
        BY <1>3, <2>2 DEF StoreIsOpen, Sound, FlushesCatchUp
      <3> QED BY <1>4, <3>1, ChangedCatchesUp
    <2> QED BY <2>1, <2>2
  <1> QED BY <1>5, <1>6, <1>7, <1>8, <1>9, <1>10

\* The changes of the cache in an epoch that goes on.
LEMMA InvalidatedSound ==
  ASSUME NEW q, NEW m, NEW r, Sound(q, m, r), NEW D
  PROVE  Sound(Invalidate(q, D), m, r)
  <1>1. q \in Caches
    BY DEF Sound
  <1>2. Invalidate(q, D) \in Caches /\ Entries(Invalidate(q, D)) \subseteq Entries(q)
    BY <1>1, InvalidateFacts
  <1> QED BY <1>2, SoundPart

LEMMA CloseHolds ==
  ASSUME IInv, NEW plan \in SUBSET Docs, Close(plan) PROVE IInv'
  <1> USE DEF IInv
  <1> DEFINE q == Invalidate(serving, plan)
  <1>1. Sound(q, meaning, reused)
    BY InvalidatedSound DEF CachesSound
  <1>2. /\ Changed(q, epoch') /\ hot' = [hot EXCEPT !.members = None]
        /\ UNCHANGED <<indexVars, phase, session, graph, saved>>
    BY DEF Close, indexVars
  <1> HIDE DEF q
  <1>3. /\ Sound(serving', meaning, reused) /\ Sound(file', meaning, reused)
        /\ FlightSound(inFlight', meaning, reused) /\ FlightSound(direct', meaning, reused)
        /\ FlagsTyped'
    BY <1>1, <1>2, ChangedSound DEF CachesSound
  <1>4. CachesSound'
    BY <1>2, <1>3 DEF CachesSound, HotRight, IndexTyped, indexVars
  <1>5. IndexTyped' /\ EpochsMean'
    BY <1>2 DEF IndexTyped, EpochsMean, indexVars
  <1>6. StoreIsOpen'
    BY <1>2 DEF StoreIsOpen, Changed
  <1>7. FlushesCatchUp'
    <2>1. CASE phase # "running"
      BY <1>2, <2>1 DEF FlushesCatchUp
    <2>2. CASE phase = "running"
      <3>1. /\ hasStore /\ q \in Caches
            /\ direct # NoFlight /\ inFlight # NoFlight => raced
        BY <1>1, <2>2 DEF StoreIsOpen, Sound, FlushesCatchUp
      <3> QED BY <1>2, <3>1, ChangedCatchesUp
    <2> QED BY <2>1, <2>2
  <1> QED BY <1>3, <1>4, <1>5, <1>6, <1>7

LEMMA CommitHolds ==
  ASSUME IInv, NEW c \in Contents, Commit(c) PROVE IInv'
  <1> USE DEF IInv
  <1>1. epoch + 1 \in Epochs /\ epoch + 1 # 0
    BY NextEpoch DEF Commit
  <1>2. /\ content' \in Contents /\ epoch' \in Epochs
        /\ meaning' \in [Epochs -> Contents \cup {None}] /\ reused' \subseteq Epochs
        /\ meaning'[epoch'] = content' /\ meaning'[0] = Blank
        /\ \A p : Sound(p, meaning, reused) => Sound(p, meaning', reused')
        /\ \A p : FlightSound(p, meaning, reused) => FlightSound(p, meaning', reused')
        /\ \A g : GraphRight(g, meaning, reused) => GraphRight(g, meaning', reused')
        /\ \A h : HotRight(h, meaning, reused) => HotRight(h, meaning', reused')
    <2>1. PublishAt(c, epoch + 1)
      BY DEF Commit
    <2> QED BY <1>1, <2>1, PublishAtHolds
  <1>3. UNCHANGED <<cacheVars, phase, session, graph, hot, saved>> /\ phase # "running"
    BY DEF Commit
  <1>4. CachesSound'
    BY <1>2, <1>3 DEF CachesSound, cacheVars
  <1>5. FlagsTyped' /\ StoreIsOpen' /\ FlushesCatchUp'
    BY <1>3 DEF FlagsTyped, StoreIsOpen, FlushesCatchUp, cacheVars
  <1>6. IndexTyped' /\ EpochsMean'
    BY <1>2, <1>3 DEF IndexTyped, EpochsMean
  <1> QED BY <1>4, <1>5, <1>6

LEMMA HitHolds ==
  ASSUME IInv, NEW d \in Docs, Hit(d) PROVE IInv'
  <1> USE DEF IInv
  <1>1. /\ ActiveAt(d) \in [active : Docs \cup {None}, epoch : Epochs \cup {NoVersion},
                            members : Values \cup {None}]
        /\ HotRight(ActiveAt(d), meaning, reused)
    BY Typed, ActiveFacts DEF CachesSound
  <1>2. /\ hot' = ActiveAt(d) /\ serving' = Warm(serving, d, epoch)
        /\ UNCHANGED <<dirty, inFlight, hasStore, direct, file, failed, raced, indexVars,
                       phase, session, graph, saved>>
    BY DEF Hit
  <1>3. serving' \in Caches /\ Entries(serving') = Entries(serving)
    <2>1. serving \in Caches /\ Keyed(serving) /\ HasKey(serving, d, epoch)
      BY DEF CachesSound, Sound, Hit
    <2> QED BY <1>2, <2>1, WarmFacts
  <1>4. Sound(serving', meaning, reused)
    BY <1>3, SoundPart DEF CachesSound
  <1>5. CachesSound'
    BY <1>1, <1>2, <1>4 DEF CachesSound, indexVars
  <1>6. IndexTyped' /\ EpochsMean' /\ FlagsTyped' /\ StoreIsOpen'
    BY <1>1, <1>2 DEF IndexTyped, EpochsMean, FlagsTyped, StoreIsOpen, indexVars
  <1>7. FlushesCatchUp'
    BY <1>2, <1>3 DEF FlushesCatchUp, Current, indexVars
  <1> QED BY <1>5, <1>6, <1>7

LEMMA MissHolds ==
  ASSUME IInv, NEW d \in Docs, NEW pressure \in BOOLEAN, NEW writes \in BOOLEAN,
         Miss(d, pressure, writes)
  PROVE  IInv'
  <1> USE DEF IInv
  <1> DEFINE known == ActiveAt(d).members
             answer == IF known = None THEN GraphAnswer(d) ELSE known
  <1>1. /\ GraphAfter(d) \in [version : Epochs \cup {NoVersion},
                              answers : [Docs -> Values \cup {None}]]
        /\ GraphRight(GraphAfter(d), meaning, reused)
        /\ GraphAnswer(d) \in Values
        /\ epoch \notin reused => GraphAnswer(d) = Computed(d, content)
    BY Typed, GraphFacts DEF CachesSound
  <1>2. /\ ActiveAt(d) \in [active : Docs \cup {None}, epoch : Epochs \cup {NoVersion},
                            members : Values \cup {None}]
        /\ ActiveAt(d).active = d /\ ActiveAt(d).epoch = epoch
        /\ known # None /\ epoch \notin reused => known = Computed(d, content)
    BY Typed, ActiveFacts DEF CachesSound
  <1>3. /\ answer \in Values
        /\ epoch \notin reused => answer = Computed(d, content)
    BY <1>1, <1>2
  <1>4. /\ hot' = [ActiveAt(d) EXCEPT !.members = answer]
        /\ graph' = IF known = None THEN GraphAfter(d) ELSE graph
        /\ UNCHANGED <<indexVars, phase, session, saved>>
        /\ \/ EmptiedAndChanged(Put(<<>>, d, epoch, answer), epoch')
           \/ Changed(Put(serving, d, epoch, answer), epoch')
           \/ Changed(<<>>, epoch')
           \/ UNCHANGED cacheVars
    BY DEF Miss, indexVars
  <1> HIDE DEF known, answer
  <1>5. /\ epoch \in Epochs /\ content \in Contents
        /\ meaning[epoch] = content /\ meaning[epoch] # None
    BY ServingAssumption DEF IndexTyped, EpochsMean
  <1>6. /\ epoch' = epoch /\ meaning' = meaning /\ reused' = reused /\ content' = content
        /\ phase' = phase
    BY <1>4 DEF indexVars
  <1>7. /\ Sound(Put(<<>>, d, epoch, answer), meaning, reused)
        /\ Sound(Put(serving, d, epoch, answer), meaning, reused)
        /\ Sound(<<>>, meaning, reused)
    <2>1. Sound(<<>>, meaning, reused) /\ Sound(serving, meaning, reused)
      BY SoundEmpty DEF CachesSound
    <2> QED BY <1>3, <1>5, <2>1, SoundPut
  <1>8. /\ Sound(serving', meaning, reused) /\ Sound(file', meaning, reused)
        /\ FlightSound(inFlight', meaning, reused) /\ FlightSound(direct', meaning, reused)
        /\ FlagsTyped'
    <2>1. /\ Sound(serving, meaning, reused) /\ Sound(file, meaning, reused)
          /\ FlightSound(inFlight, meaning, reused) /\ FlightSound(direct, meaning, reused)
      BY DEF CachesSound
    <2>2. CASE EmptiedAndChanged(Put(<<>>, d, epoch, answer), epoch')
      BY <1>7, <2>1, <2>2, EmptiedAndChangedSound
    <2>3. CASE Changed(Put(serving, d, epoch, answer), epoch')
      BY <1>7, <2>1, <2>3, ChangedSound
    <2>4. CASE Changed(<<>>, epoch')
      BY <1>7, <2>1, <2>4, ChangedSound
    <2>5. CASE UNCHANGED cacheVars
      BY <2>1, <2>5 DEF cacheVars, FlagsTyped
    <2> QED BY <1>4, <2>2, <2>3, <2>4, <2>5
  <1>9. HotRight(hot', meaning, reused)
    BY <1>2, <1>3, <1>4, <1>5 DEF HotRight
  <1>10. GraphRight(graph', meaning, reused)
    BY <1>1, <1>4 DEF CachesSound
  <1>11. CachesSound'
    BY <1>6, <1>8, <1>9, <1>10 DEF CachesSound
  <1>12. IndexTyped' /\ EpochsMean'
    BY <1>1, <1>2, <1>3, <1>4 DEF IndexTyped, EpochsMean, indexVars
  <1>13. StoreIsOpen'
    BY <1>4 DEF StoreIsOpen, Changed, EmptiedAndChanged, cacheVars
  <1>14. FlushesCatchUp'
    <2>1. CASE phase # "running"
      BY <1>6, <2>1 DEF FlushesCatchUp
    <2>2. CASE phase = "running"
      <3>1. /\ hasStore
            /\ direct # NoFlight /\ inFlight # NoFlight => raced
        BY <2>2 DEF StoreIsOpen, FlushesCatchUp
      <3>2. Put(serving, d, epoch, answer) \in Caches /\ <<>> \in Caches
        BY <1>7 DEF Sound
      <3>3. CASE EmptiedAndChanged(Put(<<>>, d, epoch, answer), epoch')
        BY <3>1, <3>3, EmptiedAndChangedCatchesUp
      <3>4. CASE Changed(Put(serving, d, epoch, answer), epoch')
        BY <3>1, <3>2, <3>4, ChangedCatchesUp
      <3>5. CASE Changed(<<>>, epoch')
        BY <3>1, <3>2, <3>5, ChangedCatchesUp
      <3>6. CASE UNCHANGED cacheVars
        BY <1>6, <3>6 DEF FlushesCatchUp, cacheVars
      <3> QED BY <1>4, <3>3, <3>4, <3>5, <3>6
    <2> QED BY <2>1, <2>2
  <1> QED BY <1>8, <1>11, <1>12, <1>13, <1>14

LEMMA AskGraphHolds ==
  ASSUME IInv, NEW d \in Docs, AskGraph(d) PROVE IInv'
  <1> USE DEF IInv
  <1>1. /\ GraphAfter(d) \in [version : Epochs \cup {NoVersion},
                              answers : [Docs -> Values \cup {None}]]
        /\ GraphRight(GraphAfter(d), meaning, reused)
    BY Typed, GraphFacts DEF CachesSound
  <1>2. /\ graph' = GraphAfter(d)
        /\ UNCHANGED <<cacheVars, indexVars, phase, session, hot, saved>>
    BY DEF AskGraph
  <1>3. CachesSound'
    BY <1>1, <1>2 DEF CachesSound, cacheVars, indexVars
  <1>4. IndexTyped' /\ EpochsMean' /\ FlagsTyped' /\ StoreIsOpen'
    BY <1>1, <1>2 DEF IndexTyped, EpochsMean, FlagsTyped, StoreIsOpen, cacheVars, indexVars
  <1>5. FlushesCatchUp'
    BY <1>2 DEF FlushesCatchUp, cacheVars, indexVars
  <1> QED BY <1>3, <1>4, <1>5

\* The steps of the startup task.
LEMMA OpeningHolds ==
  ASSUME IInv, OpenStore \/ LoadNothing PROVE IInv'
  <1> USE DEF IInv
  <1>1. /\ phase \in {"starting", "loading"} /\ phase' \in {"loading", "fresh"}
        /\ hasStore' \in BOOLEAN /\ hasStore'
        /\ UNCHANGED <<serving, dirty, inFlight, direct, file, failed, raced, indexVars,
                       session, graph, hot, saved>>
    BY DEF OpenStore, LoadNothing, cacheVars, StoreIsOpen, FlagsTyped
  <1>2. CachesSound'
    BY <1>1 DEF CachesSound, indexVars
  <1>3. IndexTyped' /\ EpochsMean' /\ FlagsTyped' /\ StoreIsOpen' /\ FlushesCatchUp'
    BY <1>1 DEF IndexTyped, EpochsMean, FlagsTyped, StoreIsOpen, FlushesCatchUp, indexVars
  <1> QED BY <1>2, <1>3

LEMMA RestoreIndexHolds ==
  ASSUME IInv, RestoreIndex PROVE IInv'
  <1> USE DEF IInv
  <1>1. /\ saved # None /\ saved.content \in Contents /\ saved.epoch \in Epochs
        /\ saved.epoch = 0 => saved.content = Blank
    BY DEF RestoreIndex, IndexTyped, EpochsMean
  <1>2. PublishAt(saved.content, saved.epoch)
    BY DEF RestoreIndex, PublishAt
  <1>3. /\ content' \in Contents /\ epoch' \in Epochs
        /\ meaning' \in [Epochs -> Contents \cup {None}] /\ reused' \subseteq Epochs
        /\ meaning'[epoch'] = content' /\ meaning'[0] = Blank
        /\ \A p : Sound(p, meaning, reused) => Sound(p, meaning', reused')
        /\ \A p : FlightSound(p, meaning, reused) => FlightSound(p, meaning', reused')
        /\ \A g : GraphRight(g, meaning, reused) => GraphRight(g, meaning', reused')
        /\ \A h : HotRight(h, meaning, reused) => HotRight(h, meaning', reused')
    BY <1>1, <1>2, PublishAtHolds
  <1>4. /\ phase = "loading" /\ phase' = "restoring"
        /\ UNCHANGED <<cacheVars, session, graph, hot, saved>>
    BY DEF RestoreIndex
  <1>5. CachesSound'
    BY <1>3, <1>4 DEF CachesSound, cacheVars
  <1>6. IndexTyped' /\ EpochsMean' /\ FlagsTyped' /\ StoreIsOpen' /\ FlushesCatchUp'
    BY <1>3, <1>4 DEF IndexTyped, EpochsMean, FlagsTyped, StoreIsOpen, FlushesCatchUp, cacheVars
  <1> QED BY <1>5, <1>6

LEMMA RestoreServingHolds ==
  ASSUME IInv, RestoreServing PROVE IInv'
  <1> USE DEF IInv
  <1> DEFINE entries == Snapshot(file, saved.epoch)
  <1>1. Sound(entries, meaning, reused)
    BY SoundSnapshot DEF CachesSound
  <1>2. Youngest(entries) = entries
    BY <1>1, YoungestFacts DEF Sound
  <1>3. /\ serving' = IF entries = <<>> THEN serving ELSE Youngest(entries)
        /\ phase = "restoring" /\ phase' = "restored"
        /\ UNCHANGED <<dirty, inFlight, hasStore, direct, file, failed, raced, indexVars,
                       session, graph, hot, saved>>
    BY DEF RestoreServing
  <1> HIDE DEF entries
  <1>4. CachesSound'
    BY <1>1, <1>2, <1>3 DEF CachesSound, indexVars
  <1>5. IndexTyped' /\ EpochsMean' /\ FlagsTyped' /\ StoreIsOpen' /\ FlushesCatchUp'
    BY <1>3 DEF IndexTyped, EpochsMean, FlagsTyped, StoreIsOpen, FlushesCatchUp, indexVars
  <1> QED BY <1>4, <1>5

\* What a checkpoint of the current content says.
LEMMA CheckpointHolds ==
  ASSUME IndexTyped, EpochsMean,
         NEW s, s = [content |-> content, epoch |-> epoch]
  PROVE  /\ s # None => s \in [content : Contents, epoch : Epochs]
         /\ s.epoch = 0 => s.content = Blank
  BY DEF IndexTyped, EpochsMean

LEMMA ProceedHolds ==
  ASSUME IInv, Proceed PROVE IInv'
  <1> USE DEF IInv
  <1>1. /\ phase \in {"fresh", "restored"} /\ phase' = "indexing"
        /\ saved' = [content |-> content, epoch |-> epoch]
        /\ UNCHANGED <<cacheVars, indexVars, session, graph, hot>>
    BY DEF Proceed
  <1>2. /\ saved' # None => saved' \in [content : Contents, epoch : Epochs]
        /\ saved'.epoch = 0 => saved'.content = Blank
    BY <1>1, CheckpointHolds
  <1>3. CachesSound'
    BY <1>1 DEF CachesSound, cacheVars, indexVars
  <1>4. EpochsMean'
    BY <1>1, <1>2 DEF EpochsMean, indexVars
  <1>5. IndexTyped' /\ FlagsTyped' /\ StoreIsOpen' /\ FlushesCatchUp'
    BY <1>1, <1>2 DEF IndexTyped, FlagsTyped, StoreIsOpen, FlushesCatchUp, cacheVars, indexVars
  <1> QED BY <1>3, <1>4, <1>5

LEMMA DiscardHolds ==
  ASSUME IInv, Discard PROVE IInv'
  <1> USE DEF IInv
  <1>1. epoch + 1 \in Epochs /\ epoch + 1 # 0 /\ Blank \in Contents
    BY NextEpoch, ServingAssumption DEF Discard
  <1>2. /\ content' \in Contents /\ epoch' \in Epochs
        /\ meaning' \in [Epochs -> Contents \cup {None}] /\ reused' \subseteq Epochs
        /\ meaning'[epoch'] = content' /\ meaning'[0] = Blank
        /\ \A p : Sound(p, meaning, reused) => Sound(p, meaning', reused')
        /\ \A p : FlightSound(p, meaning, reused) => FlightSound(p, meaning', reused')
        /\ \A g : GraphRight(g, meaning, reused) => GraphRight(g, meaning', reused')
        /\ \A h : HotRight(h, meaning, reused) => HotRight(h, meaning', reused')
    <2>1. PublishAt(Blank, epoch + 1)
      BY DEF Discard
    <2> QED BY <1>1, <2>1, PublishAtHolds
  <1>3. /\ phase = "restored" /\ phase' = "indexing" /\ serving' = <<>>
        /\ saved' = [content |-> Blank, epoch |-> epoch + 1]
        /\ UNCHANGED <<dirty, inFlight, hasStore, direct, file, failed, raced, session, graph,
                       hot>>
    BY DEF Discard
  <1>4. CachesSound'
    BY <1>2, <1>3, SoundEmpty DEF CachesSound
  <1>5. EpochsMean'
    BY <1>2, <1>3 DEF EpochsMean
  <1>6. IndexTyped' /\ FlagsTyped' /\ StoreIsOpen' /\ FlushesCatchUp'
    BY <1>1, <1>2, <1>3 DEF IndexTyped, FlagsTyped, StoreIsOpen, FlushesCatchUp
  <1> QED BY <1>4, <1>5, <1>6

LEMMA EndPassHolds ==
  ASSUME IInv, EndPass PROVE IInv'
  <1> USE DEF IInv
  <1> DEFINE q == Snapshot(serving, epoch)
  <1>1. Sound(q, meaning, reused)
    BY SoundSnapshot DEF CachesSound
  <1>2. q # NoFlight /\ Current(q, epoch) = Current(serving, epoch)
    <2>1. serving \in Caches
      BY DEF CachesSound, Sound
    <2> QED BY <2>1, SnapshotFacts DEF Current
  <1>3. /\ phase = "indexing" /\ phase' = "running"
        /\ saved' = [content |-> content, epoch |-> epoch]
        /\ direct' = q /\ raced' = (raced \/ inFlight # NoFlight)
        /\ UNCHANGED <<serving, dirty, inFlight, hasStore, file, failed, indexVars, session,
                       graph, hot>>
    BY DEF EndPass, BeginDirect
  <1> HIDE DEF q
  <1>4. CachesSound'
    BY <1>1, <1>3 DEF CachesSound, FlightSound, indexVars
  <1>5. /\ saved' # None => saved' \in [content : Contents, epoch : Epochs]
        /\ saved'.epoch = 0 => saved'.content = Blank
    BY <1>3, CheckpointHolds
  <1>6. EpochsMean'
    BY <1>3, <1>5 DEF EpochsMean, indexVars
  <1>7. IndexTyped' /\ FlagsTyped' /\ StoreIsOpen'
    BY <1>3, <1>5 DEF IndexTyped, FlagsTyped, StoreIsOpen, indexVars
  <1>8. FlushesCatchUp'
    BY <1>2, <1>3 DEF FlushesCatchUp, indexVars
  <1> QED BY <1>4, <1>6, <1>7, <1>8

\* The writes, the shutdown and the end of the process.
LEMMA WriteHolds ==
  ASSUME IInv, Write PROVE IInv'
  <1> USE DEF IInv
  <1>1. /\ FlushEnds(epoch) \/ FlushFails \/ DirectEnds \/ DirectFails
        /\ UNCHANGED <<indexVars, phase, session, graph, hot, saved>>
    BY DEF Write
  <1>2. /\ Sound(serving', meaning, reused) /\ Sound(file', meaning, reused)
        /\ FlightSound(inFlight', meaning, reused) /\ FlightSound(direct', meaning, reused)
        /\ FlagsTyped'
    BY <1>1, WriteSound DEF CachesSound
  <1>3. CachesSound'
    BY <1>1, <1>2 DEF CachesSound, indexVars
  <1>4. IndexTyped' /\ EpochsMean'
    BY <1>1 DEF IndexTyped, EpochsMean, indexVars
  <1>5. StoreIsOpen'
    BY <1>1 DEF StoreIsOpen, FlushEnds, FlushFails, DirectEnds, DirectFails
  <1>6. FlushesCatchUp'
    <2>1. CASE phase # "running"
      BY <1>1, <2>1 DEF FlushesCatchUp
    <2>2. CASE phase = "running"
      <3>1. TypeOK /\ hasStore /\ UNCHANGED <<epoch, phase>>
        BY <1>1, <2>2, Typed DEF StoreIsOpen, indexVars
      <3> QED BY <1>1, <2>2, <3>1, WriteCatchesUp
    <2> QED BY <2>1, <2>2
  <1> QED BY <1>2, <1>3, <1>4, <1>5, <1>6

LEMMA ShutdownHolds ==
  ASSUME IInv, Shutdown PROVE IInv'
  <1> USE DEF IInv
  <1>1. /\ phase' = "stopping" /\ Changed(<<>>, epoch)
        /\ UNCHANGED <<indexVars, session, graph, hot, saved>>
    BY DEF Shutdown
  <1>2. /\ Sound(serving', meaning, reused) /\ Sound(file', meaning, reused)
        /\ FlightSound(inFlight', meaning, reused) /\ FlightSound(direct', meaning, reused)
        /\ FlagsTyped'
    BY <1>1, SoundEmpty, ChangedSound DEF CachesSound
  <1>3. CachesSound'
    BY <1>1, <1>2 DEF CachesSound, indexVars
  <1>4. IndexTyped' /\ EpochsMean' /\ StoreIsOpen' /\ FlushesCatchUp'
    BY <1>1 DEF IndexTyped, EpochsMean, StoreIsOpen, FlushesCatchUp, indexVars
  <1> QED BY <1>2, <1>3, <1>4

LEMMA RestartHolds ==
  ASSUME IInv, Restart PROVE IInv'
  <1> USE DEF IInv
  <1>1. 0 \in Epochs /\ Blank \in Contents /\ session + 1 \in 1 .. MaxSessions
    BY ServingAssumption DEF Epochs, Restart, IndexTyped
  <1>2. /\ session' = session + 1 /\ phase' = "starting"
        /\ serving' = <<>> /\ dirty' = FALSE /\ inFlight' = NoFlight /\ direct' = NoFlight
        /\ hasStore' = FALSE /\ failed' = FALSE /\ raced' = FALSE
        /\ file' \in {file, <<>>}
        /\ content' = Blank /\ epoch' = 0 /\ graph' = NoGraph /\ hot' = NoContext
        /\ UNCHANGED <<saved, meaning, reused>>
    BY DEF Restart, LoseCache
  <1>3. CachesSound'
    <2>1. Sound(serving', meaning, reused) /\ Sound(file', meaning, reused)
      BY <1>2, SoundEmpty DEF CachesSound
    <2>2. FlightSound(inFlight', meaning, reused) /\ FlightSound(direct', meaning, reused)
      BY <1>2 DEF FlightSound
    <2>3. GraphRight(graph', meaning, reused) /\ HotRight(hot', meaning, reused)
      BY <1>2 DEF GraphRight, HotRight, NoGraph, NoContext
    <2> QED BY <1>2, <2>1, <2>2, <2>3 DEF CachesSound
  <1>4. IndexTyped'
    BY <1>1, <1>2 DEF IndexTyped, NoGraph, NoContext
  <1>5. EpochsMean'
    BY <1>2 DEF EpochsMean
  <1>6. FlagsTyped' /\ StoreIsOpen' /\ FlushesCatchUp'
    BY <1>2 DEF FlagsTyped, StoreIsOpen, FlushesCatchUp
  <1> QED BY <1>3, <1>4, <1>5, <1>6

LEMMA StutterHolds ==
  ASSUME IInv, UNCHANGED vars PROVE IInv'
  BY DEF IInv, vars, cacheVars, indexVars, FlagsTyped, IndexTyped, CachesSound, EpochsMean,
         FlushesCatchUp, StoreIsOpen

LEMMA NextHolds == IInv /\ [Next]_vars => IInv'
  <1> SUFFICES ASSUME IInv, [Next]_vars PROVE IInv'
    OBVIOUS
  <1>1. CASE \E c \in Contents, plan \in SUBSET Docs : Publish(c, plan)
    BY <1>1, PublishHolds
  <1>2. CASE \E plan \in SUBSET Docs : Close(plan)
    BY <1>2, CloseHolds
  <1>3. CASE \E c \in Contents : Commit(c)
    BY <1>3, CommitHolds
  <1>4. CASE \E d \in Docs : Hit(d) \/ AskGraph(d)
    BY <1>4, HitHolds, AskGraphHolds
  <1>5. CASE \E d \in Docs, pressure, writes \in BOOLEAN : Miss(d, pressure, writes)
    BY <1>5, MissHolds
  <1>6. CASE OpenStore \/ LoadNothing \/ RestoreIndex \/ RestoreServing
    BY <1>6, OpeningHolds, RestoreIndexHolds, RestoreServingHolds
  <1>7. CASE Proceed \/ Discard \/ EndPass
    BY <1>7, ProceedHolds, DiscardHolds, EndPassHolds
  <1>8. CASE Write \/ Shutdown \/ Restart
    BY <1>8, WriteHolds, ShutdownHolds, RestartHolds
  <1>9. CASE UNCHANGED vars
    BY <1>9, StutterHolds
  <1> QED BY <1>1, <1>2, <1>3, <1>4, <1>5, <1>6, <1>7, <1>8, <1>9 DEF Next

-----------------------------------------------------------------------------
(* The theorems.                                                           *)

LEMMA Invariance == Spec => []IInv
  BY InitHolds, NextHolds, PTL DEF Spec

\* Every variable has its type: the serving cache never outgrows its capacity, and no
\* more than it holds is ever written to its file.
THEOREM ServingTyped == Spec => []TypeOK
  BY Invariance, Typed, PTL

\* No interactive feature answers from another content than the index publishes now, as
\* long as the epoch has named one content only.
THEOREM FreshAnswers == Spec => []FreshAnswersAreCurrent
  <1>1. IInv => FreshAnswersAreCurrent
    <2> SUFFICES ASSUME IInv, epoch \notin reused PROVE CurrentAnswers
      BY DEF FreshAnswersAreCurrent
    <2>1. meaning[epoch] = content
      BY DEF IInv, EpochsMean
    <2>2. /\ GraphRight(graph, meaning, reused) /\ HotRight(hot, meaning, reused)
          /\ Right(serving, meaning, reused)
      BY DEF IInv, CachesSound, Sound
    <2>3. ASSUME graph.version = epoch, NEW d \in Docs
          PROVE  graph.answers[d] \in {None, Computed(d, content)}
      BY <2>1, <2>2, <2>3 DEF GraphRight
    <2>4. ASSUME hot.epoch = epoch
          PROVE  hot.members \in {None} \cup {Computed(d, content) : d \in Docs \cap {hot.active}}
      BY <2>1, <2>2, <2>4 DEF HotRight
    <2>5. ASSUME NEW x \in Entries(serving), x.epoch = epoch
          PROVE  x.value = Computed(x.doc, content)
      BY <2>1, <2>2, <2>5 DEF Right
    <2> QED BY <2>3, <2>4, <2>5 DEF CurrentAnswers
  <1> QED BY <1>1, Invariance, PTL

\* The entries of serving-cache.json were computed from what their epoch stands for,
\* whenever the process dies.
THEOREM RestorableAnswers == Spec => []RestorableAnswersAreRight
  <1>1. IInv => RestorableAnswersAreRight
    BY DEF IInv, CachesSound, Sound, Right, RestorableAnswersAreRight
  <1> QED BY <1>1, Invariance, PTL

\* When the server runs and no write is under way, the file holds the current entries of
\* the cache, unless the last write failed or overtook another.
THEOREM SettledSnapshot == Spec => []SnapshotIsSettled
  <1>1. IInv => SnapshotIsSettled
    <2> SUFFICES ASSUME IInv, phase = "running", inFlight = NoFlight, direct = NoFlight,
                        ~failed, ~raced
                 PROVE  Entries(Snapshot(serving, epoch)) = Entries(Snapshot(file, epoch))
      BY DEF SnapshotIsSettled
    <2>1. serving \in Caches /\ file \in Caches
      BY DEF IInv, CachesSound, Sound
    <2>2. /\ Entries(Snapshot(serving, epoch)) = Current(serving, epoch)
          /\ Entries(Snapshot(file, epoch)) = Current(file, epoch)
      BY <2>1, SnapshotFacts
    <2>3. Current(file, epoch) = Current(serving, epoch)
      BY DEF IInv, FlushesCatchUp
    <2> QED BY <2>2, <2>3
  <1> QED BY <1>1, Invariance, PTL
=============================================================================
