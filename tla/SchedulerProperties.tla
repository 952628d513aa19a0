------------------------ MODULE SchedulerProperties ------------------------
(***************************************************************************)
(* The properties of the task scheduler and the mapping under which it     *)
(* implements LaneContract.                                                *)
(***************************************************************************)
EXTENDS Scheduler

\* Every variable holds what the fields of TaskScheduler may hold: the queues
\* hold tasks of their own lane, a slot one task or none.
TypeOK ==
  /\ nearQueue \in Seq(NearTasks)
  /\ backgroundQueue \in Seq(BackgroundTasks)
  /\ activeInteractive \subseteq InteractiveTasks
  /\ activeNear \in NearTasks \cup {None}
  /\ activeBackground \in BackgroundTasks \cup {None}
  /\ drainScheduled \in BOOLEAN
  /\ running \subseteq NearTasks \cup BackgroundTasks
  /\ cancelled \subseteq NearTasks \cup BackgroundTasks
  /\ outcome \in [Tasks -> {"pending", "ended", "rejected"}]
  /\ throttled \in BackgroundTasks \cup {None}

-----------------------------------------------------------------------------
(* Safety.                                                                 *)

\* A task waits once, and a task that waits has neither been cancelled nor
\* settled nor started: the checks of lines 379 and 427 never fire.
QueuedTasksAreLive ==
  /\ \A i, j \in DOMAIN nearQueue : nearQueue[i] = nearQueue[j] => i = j
  /\ \A i, j \in DOMAIN backgroundQueue :
        backgroundQueue[i] = backgroundQueue[j] => i = j
  /\ \A t \in Queued : /\ t \notin cancelled \cup running
                       /\ outcome[t] = "pending"

\* The slots hold exactly the bodies that run and have not been cancelled, so
\* a preempted body never keeps a slot and a slot never outlives its body.
SlotsHoldLiveBodies ==
  running \ cancelled = {activeNear, activeBackground} \ {None}

\* A promise is settled only after its body has ended: no caller sees a result
\* of a body that is still running.
RunningIsPending ==
  \A t \in running \cup activeInteractive : outcome[t] = "pending"

\* A cancelled task has started or will never start: a token is never cancelled
\* before its task is submitted.
CancelledIsOver ==
  \A t \in cancelled : t \in running \/ outcome[t] # "pending"

\* While a request of the user runs, no preemptible body is live; while Near
\* work waits or runs, no preemptible Background body is.
HigherLanesExclude ==
  /\ activeInteractive # {} =>
       activeNear = None /\ activeBackground \notin Preemptible
  /\ nearQueue # <<>> \/ activeNear # None => activeBackground \notin Preemptible

\* No lost wake-up: queued Near work has an armed drain, an interactive task
\* whose end arms one, or the live Near body whose loop takes the next.
\* Queued Background work may also wait for a cancelled Near body, because
\* cancelAllNear() clears the slot without scheduling a drain.
NoLostWakeup ==
  /\ nearQueue # <<>> =>
       drainScheduled \/ activeInteractive # {} \/ activeNear # None
  /\ backgroundQueue # <<>> =>
       \/ drainScheduled \/ activeInteractive # {}
       \/ activeNear # None \/ activeBackground # None
       \/ running \cap NearTasks # {}

Inv ==
  /\ TypeOK
  /\ QueuedTasksAreLive
  /\ SlotsHoldLiveBodies
  /\ RunningIsPending
  /\ CancelledIsOver
  /\ HigherLanesExclude
  /\ NoLostWakeup

-----------------------------------------------------------------------------
(* The scheduler implements the contract of its lanes.                     *)

Status(t) ==
  IF outcome[t] # "pending" THEN outcome[t]
  ELSE IF t \in Queued THEN "queued"
  ELSE IF t \in running \cap cancelled THEN "preempted"
  ELSE IF t \in running \cup activeInteractive THEN "live"
  ELSE "new"

Contract == INSTANCE LaneContract WITH status <- [t \in Tasks |-> Status(t)]

\* Every step of the scheduler is a step of the contract: tasks move through
\* their life in order and once, live bodies are compatible, and Background
\* work starts only when the higher lanes are empty.
ImplementsContract == Contract!Spec

-----------------------------------------------------------------------------
(* Liveness, under FairSpec.                                               *)

\* Every queued task is settled in the end, whatever is preempted, cancelled
\* or refused by the admission gate in between.
EveryQueuedTaskSettles ==
  \A t \in NearTasks \cup BackgroundTasks :
     t \in Queued ~> outcome[t] # "pending"

-----------------------------------------------------------------------------
(* What the header of scheduler.ts says (lines 9-10): Background work is    *)
(* executed only when there is no Interactive or Near task pending or       *)
(* active.                                                                  *)
BackgroundOnlyWhenIdle ==
  activeBackground # None =>
    activeInteractive = {} /\ nearQueue = <<>> /\ activeNear = None
=============================================================================
