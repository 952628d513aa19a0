---------------------------- MODULE ServingCache ----------------------------
(***************************************************************************)
(* The cache of answers of the interactive features, and its file.         *)
(*                                                                         *)
(* src/server/knowledge/ServingCache.ts keeps answers in the order of      *)
(* their last use, under keys that name the document and the epoch of the  *)
(* index.  src/server/cache/servingCacheFlushCoordinator.ts writes the     *)
(* whole cache to serving-cache.json whenever it was changed, one write at *)
(* a time; src/server/cache/servingCachePersistence.ts chooses the entries *)
(* to write and to restore.                                                *)
(*                                                                         *)
(* One partition of the cache is modelled: the others are further caches   *)
(* of the same kind.  Positions, locales and fingerprints in the key are   *)
(* left out, as they never change while a key is in use; the server sets   *)
(* no time to live.  The file system may fail a write and leave the file   *)
(* as it was or unreadable, which reads as empty.                          *)
(***************************************************************************)
EXTENDS Naturals, Sequences, Subsequences

CONSTANTS Capacity, NoFlight

ASSUME CapacityAssumption == Capacity \in Nat \ {0}

VARIABLES
  serving,     \* the entries [doc, epoch, value], the one used last at the end
  dirty,       \* changed since the last flush began
  inFlight,    \* the entries a flush is writing, or NoFlight
  hasStore,    \* has the server opened its store?
  direct,      \* the entries the startup task is writing itself, or NoFlight
  file,        \* the entries of serving-cache.json
  failed,      \* history: the last write failed
  raced        \* history: the last flush ran beside the startup task's write

cacheVars == <<serving, dirty, inFlight, hasStore, direct, file, failed, raced>>

Entries(q) == {q[i] : i \in DOMAIN q}

-----------------------------------------------------------------------------
(* ServingCache, on the sequence of its entries.                           *)

HasKey(q, d, e) == \E x \in Entries(q) : x.doc = d /\ x.epoch = e

ValueAt(q, d, e) == (CHOOSE x \in Entries(q) : x.doc = d /\ x.epoch = e).value

Without(q, d, e) ==
  Subsequence(q, {i \in DOMAIN q : ~(q[i].doc = d /\ q[i].epoch = e)})

\* get() of a key that is there
Warm(q, d, e) ==
  Append(Without(q, d, e), [doc |-> d, epoch |-> e, value |-> ValueAt(q, d, e)])

\* Mutant: a full cache takes another entry.
PutBeyond(q, d, e, v) ==
  Append(Without(q, d, e), [doc |-> d, epoch |-> e, value |-> v])

\* set()
Put(q, d, e, v) ==
  LET rest == IF HasKey(q, d, e) THEN Without(q, d, e)
              ELSE IF Len(q) >= Capacity THEN Tail(q) ELSE q
  IN Append(rest, [doc |-> d, epoch |-> e, value |-> v])

\* invalidate() of the documents D; restoreEntries() keeps the youngest.
Invalidate(q, D) == Subsequence(q, {i \in DOMAIN q : q[i].doc \notin D})

Youngest(q) == IF Len(q) > Capacity THEN SubSeq(q, Len(q) - Capacity + 1, Len(q)) ELSE q

\* The entries of a snapshot, to write or to restore: those of one epoch.
Snapshot(q, e) == Subsequence(q, {i \in DOMAIN q : q[i].epoch = e})

-----------------------------------------------------------------------------
(* Writes to the file.                                                     *)

\* persistServingSnapshot(), called by the coordinator: without a store nothing is done.
BeginFlush(q, e) ==
  IF hasStore
  THEN inFlight' = Snapshot(q, e) /\ raced' = (direct # NoFlight)
  ELSE inFlight' = NoFlight /\ UNCHANGED raced

\* Mutant: a change during a flush is left to that flush.
ChangedOnce(q, e) ==
  /\ serving' = q /\ dirty' = FALSE
  /\ IF inFlight = NoFlight THEN BeginFlush(q, e) ELSE UNCHANGED <<inFlight, raced>>
  /\ UNCHANGED <<hasStore, direct, file, failed>>

\* The cache becomes q; markDirty() and flushIfDirty(), which flushes unless it is under
\* way already.
Changed(q, e) ==
  /\ serving' = q
  /\ dirty' = (inFlight # NoFlight)
  /\ IF inFlight = NoFlight THEN BeginFlush(q, e) ELSE UNCHANGED <<inFlight, raced>>
  /\ UNCHANGED <<hasStore, direct, file, failed>>

\* The cache is emptied and then becomes q, within one request.
EmptiedAndChanged(q, e) ==
  /\ serving' = q
  /\ dirty' = (hasStore \/ inFlight # NoFlight)
  /\ IF inFlight = NoFlight THEN BeginFlush(<<>>, e) ELSE UNCHANGED <<inFlight, raced>>
  /\ UNCHANGED <<hasStore, direct, file, failed>>

\* A flush has written; the loop starts over if the cache was changed meanwhile.
FlushEnds(e) ==
  /\ inFlight # NoFlight
  /\ file' = inFlight
  /\ IF dirty THEN BeginFlush(serving, e) ELSE inFlight' = NoFlight /\ UNCHANGED raced
  /\ dirty' = FALSE /\ failed' = FALSE
  /\ UNCHANGED <<serving, hasStore, direct>>

\* The write fails, which leaves the loop.
FlushFails ==
  /\ inFlight # NoFlight
  /\ file' \in {file, <<>>}
  /\ inFlight' = NoFlight /\ failed' = TRUE
  /\ UNCHANGED <<serving, dirty, hasStore, direct, raced>>

\* The startup task calls persistServingSnapshot() past the coordinator.
BeginDirect(e) ==
  /\ direct' = Snapshot(serving, e)
  /\ raced' = (raced \/ inFlight # NoFlight)
  /\ UNCHANGED <<serving, dirty, inFlight, hasStore, file, failed>>

DirectEnds ==
  /\ direct # NoFlight
  /\ file' = direct /\ direct' = NoFlight
  /\ UNCHANGED <<serving, dirty, inFlight, hasStore, failed, raced>>

DirectFails ==
  /\ direct # NoFlight
  /\ file' \in {file, <<>>} /\ direct' = NoFlight /\ failed' = TRUE
  /\ UNCHANGED <<serving, dirty, inFlight, hasStore, raced>>

\* The process is gone; a write under way may leave the file cut short.
LoseCache ==
  /\ serving' = <<>> /\ dirty' = FALSE /\ inFlight' = NoFlight /\ direct' = NoFlight
  /\ hasStore' = FALSE /\ failed' = FALSE /\ raced' = FALSE
  /\ file' \in IF inFlight = NoFlight /\ direct = NoFlight THEN {file} ELSE {file, <<>>}
=============================================================================
