------------------------ MODULE FileWatcherDebouncer ------------------------
(***************************************************************************)
(* src/server/system/fileWatcherDebouncer.ts: events of watched files are  *)
(* merged for each file while a window is open and handed over together    *)
(* when its timer fires.  When a further file would make the window too    *)
(* large, the window is handed over before its time; that flush forgets    *)
(* the timer without clearing it, and the timer still fires.               *)
(*                                                                         *)
(* A window that was handed over becomes a task in the Background queue of *)
(* the scheduler (server.ts), here batches.                                *)
(***************************************************************************)
EXTENDS Naturals, Sequences, SequencesExt

CONSTANTS
  Files,
  MaxPending      \* maxPending: how many files a window may hold

ASSUME DebouncerAssumption == MaxPending \in Nat \ {0}

Kinds == {"create", "change", "delete"}
Event == [uri : Files, kind : Kinds]

VARIABLES
  pending,        \* the events of the window, in the order their files came
  timer,          \* "armed", or "null": no handle, or one that has fired
  leaked,         \* how many armed timers nobody holds a handle of
  batches         \* the windows handed over, as tasks that wait for their turn

debouncerVars == <<pending, timer, leaked, batches>>

\* Mutant: the first event of a file is kept.
FirstKind(prev, kind) == prev

\* The kind that stands for two events of the same file.
Merge(prev, kind) ==
  CASE prev = "delete" /\ kind # "create" -> "delete"
    [] prev = "create" /\ kind = "change" -> "create"
    [] OTHER -> kind

\* Mutant: the timer of a window that has events is cleared, and no other set.
ClearOnly == IF pending = <<>> THEN "armed" ELSE "null"

\* schedule(): clears the timer it has a handle of and sets another.
Schedule == "armed"

Waits(uri) == \E i \in DOMAIN pending : pending[i].uri = uri

\* Mutant: the window may hold one file too many.
HasRoomForMore == Len(pending) <= MaxPending

HasRoom == Len(pending) < MaxPending

\* push() for a file that is in the window, or one the window has room for.
Collect(uri, kind) ==
  /\ Waits(uri) \/ HasRoom
  /\ pending' =
       IF Waits(uri)
       THEN [i \in DOMAIN pending |->
              IF pending[i].uri = uri
              THEN [pending[i] EXCEPT !.kind = Merge(@, kind)] ELSE pending[i]]
       ELSE Append(pending, [uri |-> uri, kind |-> kind])
  /\ timer' = Schedule
  /\ UNCHANGED <<leaked, batches>>

\* push() that hands a full window over first.
Overflow(uri, kind) ==
  /\ ~Waits(uri) /\ ~HasRoom
  /\ batches' = Append(batches, pending)
  /\ leaked' = IF timer = "armed" THEN leaked + 1 ELSE leaked
  /\ pending' = <<[uri |-> uri, kind |-> kind]>>
  /\ timer' = "armed"

Push(uri, kind) == Collect(uri, kind) \/ Overflow(uri, kind)

\* The timer of the window fires.
TimerFires ==
  /\ timer = "armed"
  /\ timer' = "null"
  /\ pending' = <<>>
  /\ batches' = IF pending = <<>> THEN batches ELSE Append(batches, pending)
  /\ UNCHANGED leaked

\* A timer without a handle fires: it hands the window over before its time and
\* forgets the timer of that window in its turn.
LeakedTimerFires ==
  /\ leaked > 0
  /\ IF pending = <<>>
     THEN /\ leaked' = leaked - 1
          /\ UNCHANGED <<pending, timer, batches>>
     ELSE /\ leaked' = IF timer = "armed" THEN leaked ELSE leaked - 1
          /\ timer' = "null"
          /\ pending' = <<>>
          /\ batches' = Append(batches, pending)

\* dispose(): clears the timer it has a handle of.
Dispose ==
  /\ timer' = "null" /\ pending' = <<>>
  /\ UNCHANGED leaked

DebouncerInit ==
  /\ pending = <<>> /\ timer = "null" /\ leaked = 0 /\ batches = <<>>
=============================================================================
