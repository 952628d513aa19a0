----------------------------- MODULE Scheduler -----------------------------
(***************************************************************************)
(* The cooperative task scheduler of the language server,                  *)
(* src/server/runtime/scheduler.ts (class TaskScheduler), with the         *)
(* preemption table of src/server/runtime/backpressurePolicy.ts and the    *)
(* cancellation tokens of src/server/runtime/cancellation.ts.              *)
(*                                                                         *)
(* The code runs on one JavaScript thread.  What is atomic there is what   *)
(* runs between two awaits, and that is what one action is here: a call of *)
(* a public method up to its first await, or the continuation of           *)
(* drainQueues() after the awaited body of a task has ended, up to the     *)
(* next await or to the end of its loop.  Several activations of           *)
(* drainQueues() may be suspended at the same time; each of them is        *)
(* suspended in the body of one task, so the set `running' of tasks whose  *)
(* body is awaited is also the set of suspended drain loops.               *)
(*                                                                         *)
(* Cancellation is cooperative: a cancelled task gives its slot up at once *)
(* but its body goes on until it returns, so a task may be in `running'    *)
(* and in `cancelled'.                                                     *)
(*                                                                         *)
(* The test for a cancelled token at the head of a queue (lines 379-383    *)
(* and 427-431) is not a disjunct: QueuedTasksAreLive, which               *)
(* SchedulerProofs proves, says that it never succeeds.  Log lines and the *)
(* preemption counters of getStatus() are left out.                        *)
(***************************************************************************)
EXTENDS Sequences, Functions, FiniteSets

CONSTANTS
  InteractiveTasks,  \* tasks passed to runInteractive()
  NearTasks,         \* tasks passed to enqueueNear()
  BackgroundTasks,   \* tasks passed to enqueueBackground()
  Preemptible,       \* the background tasks whose workload is preemptible
  None               \* no task: null in the code

ASSUME TasksAssumption ==
  /\ InteractiveTasks \cap NearTasks = {}
  /\ InteractiveTasks \cap BackgroundTasks = {}
  /\ NearTasks \cap BackgroundTasks = {}
  /\ Preemptible \subseteq BackgroundTasks
  /\ None \notin InteractiveTasks \cup NearTasks \cup BackgroundTasks

Tasks == InteractiveTasks \cup NearTasks \cup BackgroundTasks

VARIABLES
  nearQueue,          \* the queued Near tasks, in arrival order
  backgroundQueue,    \* the queued Background tasks, in arrival order
  activeInteractive,  \* the interactive tasks being executed
  activeNear,         \* the task in the Near slot, or None
  activeBackground,   \* the task in the Background slot, or None
  drainScheduled,     \* a setImmediate or a setTimeout will call drainQueues()
  running,            \* the queued tasks whose body is awaited by a drain loop
  cancelled,          \* the tasks whose token is cancelled
  outcome,            \* of the promise given to the caller: "ended" with its
                      \* body (value or exception), "rejected" unstarted
  throttled           \* the background task refused by the gate, or None

slots == <<activeInteractive, activeNear, activeBackground>>
vars == <<nearQueue, backgroundQueue, slots, drainScheduled, running,
          cancelled, outcome, throttled>>

Queued == Range(nearQueue) \cup Range(backgroundQueue)

\* A task object is submitted once.
IsNew(t) == /\ outcome[t] = "pending"
            /\ t \notin Queued \cup running \cup activeInteractive

Init ==
  /\ nearQueue = <<>>
  /\ backgroundQueue = <<>>
  /\ activeInteractive = {}
  /\ activeNear = None
  /\ activeBackground = None
  /\ drainScheduled = FALSE
  /\ running = {}
  /\ cancelled = {}
  /\ outcome = [t \in Tasks |-> "pending"]
  /\ throttled = None

-----------------------------------------------------------------------------
(* The public methods.                                                     *)

\* runInteractive(), up to the await of the body: both lower lanes are
\* preempted, a background workload that is not preemptible is preserved.
RunInteractive(t) ==
  /\ IsNew(t)
  /\ activeInteractive' = activeInteractive \cup {t}
  /\ cancelled' = cancelled
       \cup (({activeNear} \cup ({activeBackground} \cap Preemptible)) \ {None})
  /\ activeNear' = None
  /\ activeBackground' =
       IF activeBackground \in Preemptible THEN None ELSE activeBackground
  /\ UNCHANGED <<nearQueue, backgroundQueue, drainScheduled, running, outcome,
                 throttled>>

\* Mutant: the finally block forgets to schedule a drain.
FinishInteractiveNoDrain(t) ==
  /\ t \in activeInteractive
  /\ activeInteractive' = activeInteractive \ {t}
  /\ outcome' = [outcome EXCEPT ![t] = "ended"]
  /\ UNCHANGED <<nearQueue, backgroundQueue, activeNear, activeBackground,
                 drainScheduled, running, cancelled, throttled>>

\* The finally block of runInteractive(), after the body returned or threw.
FinishInteractive(t) ==
  /\ t \in activeInteractive
  /\ activeInteractive' = activeInteractive \ {t}
  /\ outcome' = [outcome EXCEPT ![t] = "ended"]
  /\ drainScheduled' = TRUE
  /\ UNCHANGED <<nearQueue, backgroundQueue, activeNear, activeBackground,
                 running, cancelled, throttled>>

\* Mutant: the Background body is not preempted when Near work arrives.
EnqueueNearBehindBackground(t) ==
  /\ IsNew(t)
  /\ nearQueue' = Append(nearQueue, t)
  /\ drainScheduled' = TRUE
  /\ UNCHANGED <<backgroundQueue, slots, running, cancelled, outcome, throttled>>

EnqueueNear(t) ==
  /\ IsNew(t)
  /\ nearQueue' = Append(nearQueue, t)
  /\ cancelled' = cancelled \cup ({activeBackground} \cap Preemptible)
  /\ activeBackground' =
       IF activeBackground \in Preemptible THEN None ELSE activeBackground
  /\ drainScheduled' = TRUE
  /\ UNCHANGED <<backgroundQueue, activeInteractive, activeNear, running,
                 outcome, throttled>>

\* Mutant: the task goes to the wrong queue.
EnqueueBackgroundAsNear(t) ==
  /\ IsNew(t)
  /\ nearQueue' = Append(nearQueue, t)
  /\ drainScheduled' = TRUE
  /\ UNCHANGED <<backgroundQueue, slots, running, cancelled, outcome, throttled>>

EnqueueBackground(t) ==
  /\ IsNew(t)
  /\ backgroundQueue' = Append(backgroundQueue, t)
  /\ drainScheduled' = TRUE
  /\ UNCHANGED <<nearQueue, slots, running, cancelled, outcome, throttled>>

\* requestDrain(): the server calls it after every measured interactive request.
RequestDrain ==
  /\ drainScheduled' = TRUE
  /\ UNCHANGED <<nearQueue, backgroundQueue, slots, running, cancelled,
                 outcome, throttled>>

Reject(ts) == [t \in Tasks |-> IF t \in ts THEN "rejected" ELSE outcome[t]]

\* Neither cancelAllNear() nor cancelAllBackground() schedules a drain.
CancelAllNear ==
  /\ nearQueue' = <<>>
  /\ activeNear' = None
  /\ cancelled' = cancelled \cup Range(nearQueue) \cup ({activeNear} \ {None})
  /\ outcome' = Reject(Range(nearQueue))
  /\ UNCHANGED <<backgroundQueue, activeInteractive, activeBackground,
                 drainScheduled, running, throttled>>

CancelAllBackground ==
  /\ backgroundQueue' = <<>>
  /\ activeBackground' = None
  /\ cancelled' = cancelled \cup Range(backgroundQueue)
                            \cup ({activeBackground} \ {None})
  /\ outcome' = Reject(Range(backgroundQueue))
  /\ UNCHANGED <<nearQueue, activeInteractive, activeNear, drainScheduled,
                 running, throttled>>

\* shutdown(): both of the above, in one synchronous call.
Shutdown ==
  /\ nearQueue' = <<>>
  /\ backgroundQueue' = <<>>
  /\ activeNear' = None
  /\ activeBackground' = None
  /\ cancelled' = cancelled \cup Queued
                            \cup ({activeNear, activeBackground} \ {None})
  /\ outcome' = Reject(Queued)
  /\ UNCHANGED <<activeInteractive, drainScheduled, running, throttled>>

-----------------------------------------------------------------------------
(* drainQueues(), from the test of its while loop to its next await or to  *)
(* its end.  `near' and `background' are the slots at that point, `run'    *)
(* the bodies awaited by the other drain loops, `scheduled' the flag.      *)

MayStartNear(near) == /\ activeInteractive = {}
                      /\ nearQueue # <<>>
                      /\ near = None

MayStartBackground(near, background) == /\ activeInteractive = {}
                                        /\ nearQueue = <<>>
                                        /\ near = None
                                        /\ backgroundQueue # <<>>
                                        /\ background = None

StartNear(near, background, run, scheduled) ==
  /\ MayStartNear(near)
  /\ activeNear' = Head(nearQueue)
  /\ nearQueue' = Tail(nearQueue)
  /\ running' = run \cup {Head(nearQueue)}
  /\ throttled' = None
  /\ activeBackground' = background
  /\ drainScheduled' = scheduled
  /\ UNCHANGED backgroundQueue

StartBackground(near, background, run, scheduled) ==
  /\ MayStartBackground(near, background)
  /\ activeBackground' = Head(backgroundQueue)
  /\ backgroundQueue' = Tail(backgroundQueue)
  /\ running' = run \cup {Head(backgroundQueue)}
  /\ throttled' = None
  /\ activeNear' = near
  /\ drainScheduled' = scheduled
  /\ UNCHANGED nearQueue

\* Mutant: the retry timer is not armed after a refusal.
ThrottleWithoutRetry(near, background, run) ==
  /\ MayStartBackground(near, background)
  /\ throttled' = Head(backgroundQueue)
  /\ drainScheduled' = FALSE
  /\ running' = run
  /\ activeNear' = near
  /\ activeBackground' = background
  /\ UNCHANGED <<nearQueue, backgroundQueue>>

\* The admission gate (memory pressure, latency governor) refuses the head of
\* the queue; the drain is tried again 25 ms later.
ThrottleBackground(near, background, run) ==
  /\ MayStartBackground(near, background)
  /\ throttled' = Head(backgroundQueue)
  /\ drainScheduled' = TRUE
  /\ running' = run
  /\ activeNear' = near
  /\ activeBackground' = background
  /\ UNCHANGED <<nearQueue, backgroundQueue>>

\* The loop ends: interactive work is active, or nothing can be started.
EndDrain(near, background, run, scheduled) ==
  /\ ~MayStartNear(near)
  /\ ~MayStartBackground(near, background)
  /\ throttled' = IF activeInteractive = {} /\ backgroundQueue = <<>>
                  THEN None ELSE throttled
  /\ running' = run
  /\ activeNear' = near
  /\ activeBackground' = background
  /\ drainScheduled' = scheduled
  /\ UNCHANGED <<nearQueue, backgroundQueue>>

DrainQueues(near, background, run, scheduled) ==
  \/ StartNear(near, background, run, scheduled)
  \/ StartBackground(near, background, run, scheduled)
  \/ ThrottleBackground(near, background, run)
  \/ EndDrain(near, background, run, scheduled)

\* The callback of setImmediate or setTimeout.
DrainFires ==
  /\ drainScheduled
  /\ DrainQueues(activeNear, activeBackground, running, FALSE)
  /\ UNCHANGED <<activeInteractive, cancelled, outcome>>

\* Mutant: the slot is not cleared when its body ends.
FinishTaskKeepsSlot(t) ==
  /\ t \in running
  /\ outcome' = [outcome EXCEPT ![t] = "ended"]
  /\ DrainQueues(activeNear, activeBackground, running \ {t}, drainScheduled)
  /\ UNCHANGED <<activeInteractive, cancelled>>

\* Mutant: the slot is cleared even when another task holds it by now.
FinishTaskClearsAnySlot(t) ==
  /\ t \in running
  /\ outcome' = [outcome EXCEPT ![t] = "ended"]
  /\ DrainQueues(IF t \in NearTasks THEN None ELSE activeNear,
                 IF t \in BackgroundTasks THEN None ELSE activeBackground,
                 running \ {t}, drainScheduled)
  /\ UNCHANGED <<activeInteractive, cancelled>>

\* A body ends: its loop settles the promise, clears the slot if the task
\* still holds it, and goes round again.
FinishTask(t) ==
  /\ t \in running
  /\ outcome' = [outcome EXCEPT ![t] = "ended"]
  /\ DrainQueues(IF activeNear = t THEN None ELSE activeNear,
                 IF activeBackground = t THEN None ELSE activeBackground,
                 running \ {t}, drainScheduled)
  /\ UNCHANGED <<activeInteractive, cancelled>>

Next ==
  \/ \E t \in InteractiveTasks : RunInteractive(t) \/ FinishInteractive(t)
  \/ \E t \in NearTasks : EnqueueNear(t)
  \/ \E t \in BackgroundTasks : EnqueueBackground(t)
  \/ \E t \in NearTasks \cup BackgroundTasks : FinishTask(t)
  \/ RequestDrain
  \/ CancelAllNear
  \/ CancelAllBackground
  \/ Shutdown
  \/ DrainFires

Spec == Init /\ [][Next]_vars

(***************************************************************************)
(* Node runs an armed immediate or timer, every body ends (all are         *)
(* analyses bounded by their input or child processes with a timeout), and *)
(* the gate does not refuse for ever: its latency block expires with the   *)
(* clock and memory pressure is relieved by the server.                    *)
(***************************************************************************)
Fairness ==
  /\ WF_vars(DrainFires)
  /\ SF_vars(/\ drainScheduled
             /\ StartBackground(activeNear, activeBackground, running, FALSE)
             /\ UNCHANGED <<activeInteractive, cancelled, outcome>>)
  /\ \A t \in InteractiveTasks : WF_vars(FinishInteractive(t))
  /\ \A t \in NearTasks \cup BackgroundTasks : WF_vars(FinishTask(t))

FairSpec == Spec /\ Fairness
=============================================================================
