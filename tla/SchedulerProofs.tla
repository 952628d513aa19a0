-------------------------- MODULE SchedulerProofs --------------------------
(***************************************************************************)
(* Proofs about the task scheduler, for any number of tasks in any lane:   *)
(* its invariant, and that it implements the contract of its lanes.        *)
(***************************************************************************)
EXTENDS SchedulerProperties, QueueLemmas, TLAPS

-----------------------------------------------------------------------------
(* drainQueues() from the head of its loop, where `near' and `background'   *)
(* are the slots and `run' the bodies that the other loops await.           *)

LoopHead(near, background, run, scheduled) ==
  /\ near \in NearTasks \cup {None}
  /\ background \in BackgroundTasks \cup {None}
  /\ run \subseteq NearTasks \cup BackgroundTasks
  /\ scheduled \in BOOLEAN
  /\ run \cap Queued = {}
  /\ run \ cancelled = {near, background} \ {None}
  /\ activeInteractive # {} => near = None /\ background \notin Preemptible
  /\ nearQueue # <<>> \/ near # None => background \notin Preemptible

LEMMA DrainQueuesStep ==
  ASSUME NEW near, NEW background, NEW run, NEW scheduled,
         TypeOK, QueuedTasksAreLive,
         LoopHead(near, background, run, scheduled),
         outcome' \in [Tasks -> {"pending", "ended", "rejected"}],
         \A t \in Queued \cup run \cup activeInteractive : outcome'[t] = "pending",
         \A t \in cancelled : t \in run \/ outcome'[t] # "pending",
         DrainQueues(near, background, run, scheduled),
         UNCHANGED <<activeInteractive, cancelled>>
  PROVE  Inv'
  <1> USE TasksAssumption DEF LoopHead
  <1>1. CASE StartNear(near, background, run, scheduled)
    <2> USE <1>1 DEF StartNear, MayStartNear
    <2>1. /\ Head(nearQueue) \in NearTasks
          /\ Head(nearQueue) \in Range(nearQueue)
          /\ nearQueue' \in Seq(NearTasks)
          /\ Range(nearQueue) = Range(nearQueue') \cup {Head(nearQueue)}
          /\ Head(nearQueue) \notin Range(nearQueue')
          /\ Injective(nearQueue')
      BY ShiftQueue DEF TypeOK, QueuedTasksAreLive, Injective
    <2>2. Range(backgroundQueue) \subseteq BackgroundTasks
      BY DEF TypeOK, Range
    <2>3. TypeOK'
      BY <2>1 DEF TypeOK
    <2>4. QueuedTasksAreLive'
      BY <2>1, <2>2 DEF TypeOK, QueuedTasksAreLive, Queued, Injective
    <2>5. SlotsHoldLiveBodies'
      BY <2>1 DEF SlotsHoldLiveBodies, QueuedTasksAreLive, Queued
    <2>6. RunningIsPending' /\ CancelledIsOver'
      BY <2>1 DEF RunningIsPending, CancelledIsOver, Queued
    <2>7. HigherLanesExclude' /\ NoLostWakeup'
      BY <2>1 DEF HigherLanesExclude, NoLostWakeup
    <2> QED BY <2>3, <2>4, <2>5, <2>6, <2>7 DEF Inv
  <1>2. CASE StartBackground(near, background, run, scheduled)
    <2> USE <1>2 DEF StartBackground, MayStartBackground
    <2>1. /\ Head(backgroundQueue) \in BackgroundTasks
          /\ Head(backgroundQueue) \in Range(backgroundQueue)
          /\ backgroundQueue' \in Seq(BackgroundTasks)
          /\ Range(backgroundQueue)
               = Range(backgroundQueue') \cup {Head(backgroundQueue)}
          /\ Head(backgroundQueue) \notin Range(backgroundQueue')
          /\ Injective(backgroundQueue')
      BY ShiftQueue DEF TypeOK, QueuedTasksAreLive, Injective
    <2>2. Range(nearQueue) = {}
      BY DEF Range
    <2>3. TypeOK'
      BY <2>1 DEF TypeOK
    <2>4. QueuedTasksAreLive'
      BY <2>1, <2>2 DEF TypeOK, QueuedTasksAreLive, Queued, Injective
    <2>5. SlotsHoldLiveBodies'
      BY <2>1 DEF SlotsHoldLiveBodies, QueuedTasksAreLive, Queued
    <2>6. RunningIsPending' /\ CancelledIsOver'
      BY <2>1 DEF RunningIsPending, CancelledIsOver, Queued
    <2>7. HigherLanesExclude' /\ NoLostWakeup'
      BY <2>1 DEF HigherLanesExclude, NoLostWakeup
    <2> QED BY <2>3, <2>4, <2>5, <2>6, <2>7 DEF Inv
  <1>3. CASE ThrottleBackground(near, background, run)
    <2> USE <1>3 DEF ThrottleBackground, MayStartBackground
    <2>1. Head(backgroundQueue) \in BackgroundTasks
      BY ShiftQueue DEF TypeOK
    <2>2. TypeOK' /\ QueuedTasksAreLive'
      BY <2>1 DEF TypeOK, QueuedTasksAreLive, Queued
    <2>3. SlotsHoldLiveBodies' /\ RunningIsPending' /\ CancelledIsOver'
      BY DEF SlotsHoldLiveBodies, RunningIsPending, CancelledIsOver
    <2>4. HigherLanesExclude' /\ NoLostWakeup'
      BY DEF HigherLanesExclude, NoLostWakeup
    <2> QED BY <2>2, <2>3, <2>4 DEF Inv
  <1>4. CASE EndDrain(near, background, run, scheduled)
    <2> USE <1>4 DEF EndDrain, MayStartNear, MayStartBackground
    <2>1. TypeOK' /\ QueuedTasksAreLive'
      BY DEF TypeOK, QueuedTasksAreLive, Queued
    <2>2. SlotsHoldLiveBodies' /\ RunningIsPending' /\ CancelledIsOver'
      BY DEF SlotsHoldLiveBodies, RunningIsPending, CancelledIsOver
    <2>3. HigherLanesExclude' /\ NoLostWakeup'
      BY DEF HigherLanesExclude, NoLostWakeup
    <2> QED BY <2>1, <2>2, <2>3 DEF Inv
  <1> QED BY <1>1, <1>2, <1>3, <1>4 DEF DrainQueues

-----------------------------------------------------------------------------
(* The invariant.                                                           *)

LEMMA InitInv == Init => Inv
  BY EmptyQueue, TasksAssumption
  DEF Init, Inv, TypeOK, QueuedTasksAreLive, SlotsHoldLiveBodies,
      RunningIsPending, CancelledIsOver, HigherLanesExclude, NoLostWakeup,
      Queued, Tasks, Range

LEMMA NextInv == Inv /\ [Next]_vars => Inv'
  <1> SUFFICES ASSUME Inv, [Next]_vars PROVE Inv'
    OBVIOUS
  <1> USE TasksAssumption DEF Inv
  <1>0. /\ Range(nearQueue) \subseteq NearTasks
        /\ Range(backgroundQueue) \subseteq BackgroundTasks
        /\ Range(<<>>) = {}
    BY DEF TypeOK, Range
  <1>1. ASSUME NEW t \in InteractiveTasks, RunInteractive(t) PROVE Inv'
    <2> USE <1>1 DEF RunInteractive
    <2>1. TypeOK'
      BY DEF TypeOK
    <2>2. QueuedTasksAreLive'
      BY <1>0 DEF TypeOK, QueuedTasksAreLive, SlotsHoldLiveBodies, Queued
    <2>3. SlotsHoldLiveBodies'
      BY DEF TypeOK, SlotsHoldLiveBodies
    <2>4. RunningIsPending' /\ CancelledIsOver'
      BY DEF RunningIsPending, CancelledIsOver, SlotsHoldLiveBodies, IsNew
    <2>5. HigherLanesExclude' /\ NoLostWakeup'
      BY DEF HigherLanesExclude, NoLostWakeup
    <2> QED BY <2>1, <2>2, <2>3, <2>4, <2>5
  <1>2. ASSUME NEW t \in InteractiveTasks, FinishInteractive(t) PROVE Inv'
    <2> USE <1>2 DEF FinishInteractive
    <2>1. TypeOK'
      BY DEF TypeOK, Tasks
    <2>2. QueuedTasksAreLive'
      BY <1>0 DEF TypeOK, QueuedTasksAreLive, Queued, Tasks
    <2>3. RunningIsPending' /\ CancelledIsOver'
      BY DEF TypeOK, RunningIsPending, CancelledIsOver, Tasks
    <2>4. SlotsHoldLiveBodies' /\ HigherLanesExclude' /\ NoLostWakeup'
      BY DEF SlotsHoldLiveBodies, HigherLanesExclude, NoLostWakeup
    <2> QED BY <2>1, <2>2, <2>3, <2>4
  <1>3. ASSUME NEW t \in NearTasks, EnqueueNear(t) PROVE Inv'
    <2> USE <1>3 DEF EnqueueNear
    <2>1. /\ nearQueue' \in Seq(NearTasks)
          /\ Range(nearQueue') = Range(nearQueue) \cup {t}
          /\ t \notin Queued \cup running \cup activeInteractive
          /\ outcome[t] = "pending"
      BY AppendQueue DEF TypeOK, IsNew
    <2>2. Injective(nearQueue')
      BY <2>1, AppendQueue DEF TypeOK, QueuedTasksAreLive, Injective, Queued
    <2>3. t \notin cancelled
      BY <2>1 DEF CancelledIsOver
    <2>4. TypeOK'
      BY <2>1 DEF TypeOK
    <2>5. QueuedTasksAreLive'
      BY <1>0, <2>1, <2>2, <2>3
      DEF TypeOK, QueuedTasksAreLive, SlotsHoldLiveBodies, Queued, Injective
    <2>6. SlotsHoldLiveBodies' /\ RunningIsPending' /\ CancelledIsOver'
      BY DEF TypeOK, SlotsHoldLiveBodies, RunningIsPending, CancelledIsOver
    <2>7. HigherLanesExclude' /\ NoLostWakeup'
      BY DEF HigherLanesExclude, NoLostWakeup
    <2> QED BY <2>4, <2>5, <2>6, <2>7
  <1>4. ASSUME NEW t \in BackgroundTasks, EnqueueBackground(t) PROVE Inv'
    <2> USE <1>4 DEF EnqueueBackground, slots
    <2>1. /\ backgroundQueue' \in Seq(BackgroundTasks)
          /\ Range(backgroundQueue') = Range(backgroundQueue) \cup {t}
          /\ t \notin Queued \cup running \cup activeInteractive
          /\ outcome[t] = "pending"
      BY AppendQueue DEF TypeOK, IsNew
    <2>2. Injective(backgroundQueue')
      BY <2>1, AppendQueue DEF TypeOK, QueuedTasksAreLive, Injective, Queued
    <2>3. t \notin cancelled
      BY <2>1 DEF CancelledIsOver
    <2>4. TypeOK'
      BY <2>1 DEF TypeOK
    <2>5. QueuedTasksAreLive'
      BY <1>0, <2>1, <2>2, <2>3
      DEF TypeOK, QueuedTasksAreLive, Queued, Injective
    <2>6. SlotsHoldLiveBodies' /\ RunningIsPending' /\ CancelledIsOver'
      BY DEF SlotsHoldLiveBodies, RunningIsPending, CancelledIsOver
    <2>7. HigherLanesExclude' /\ NoLostWakeup'
      BY DEF HigherLanesExclude, NoLostWakeup
    <2> QED BY <2>4, <2>5, <2>6, <2>7
  <1>5. ASSUME RequestDrain PROVE Inv'
    BY <1>5
    DEF RequestDrain, slots, TypeOK, QueuedTasksAreLive, SlotsHoldLiveBodies,
        RunningIsPending, CancelledIsOver, HigherLanesExclude, NoLostWakeup,
        Queued
  <1>6. ASSUME CancelAllNear PROVE Inv'
    <2> USE <1>6 DEF CancelAllNear, Reject
    <2>1. TypeOK'
      BY <1>0 DEF TypeOK
    <2>2. QueuedTasksAreLive'
      BY <1>0 DEF TypeOK, QueuedTasksAreLive, SlotsHoldLiveBodies, Queued, Tasks
    <2>3. SlotsHoldLiveBodies'
      BY <1>0 DEF TypeOK, QueuedTasksAreLive, SlotsHoldLiveBodies, Queued
    <2>4. RunningIsPending' /\ CancelledIsOver'
      BY <1>0 DEF TypeOK, RunningIsPending, CancelledIsOver,
                  SlotsHoldLiveBodies, QueuedTasksAreLive, Queued, Tasks
    <2>5. HigherLanesExclude' /\ NoLostWakeup'
      BY DEF TypeOK, SlotsHoldLiveBodies, HigherLanesExclude, NoLostWakeup
    <2> QED BY <2>1, <2>2, <2>3, <2>4, <2>5
  <1>7. ASSUME CancelAllBackground PROVE Inv'
    <2> USE <1>7 DEF CancelAllBackground, Reject
    <2>1. TypeOK'
      BY <1>0 DEF TypeOK
    <2>2. QueuedTasksAreLive'
      BY <1>0 DEF TypeOK, QueuedTasksAreLive, SlotsHoldLiveBodies, Queued, Tasks
    <2>3. SlotsHoldLiveBodies'
      BY <1>0 DEF TypeOK, QueuedTasksAreLive, SlotsHoldLiveBodies, Queued
    <2>4. RunningIsPending' /\ CancelledIsOver'
      BY <1>0 DEF TypeOK, RunningIsPending, CancelledIsOver,
                  SlotsHoldLiveBodies, QueuedTasksAreLive, Queued, Tasks
    <2>5. HigherLanesExclude' /\ NoLostWakeup'
      BY DEF HigherLanesExclude, NoLostWakeup
    <2> QED BY <2>1, <2>2, <2>3, <2>4, <2>5
  <1>8. ASSUME Shutdown PROVE Inv'
    <2> USE <1>8 DEF Shutdown, Reject
    <2>1. TypeOK'
      BY <1>0 DEF TypeOK, Queued
    <2>2. QueuedTasksAreLive'
      BY <1>0 DEF QueuedTasksAreLive, Queued
    <2>3. SlotsHoldLiveBodies'
      BY DEF TypeOK, QueuedTasksAreLive, SlotsHoldLiveBodies
    <2>4. RunningIsPending' /\ CancelledIsOver'
      BY <1>0 DEF TypeOK, RunningIsPending, CancelledIsOver,
                  SlotsHoldLiveBodies, QueuedTasksAreLive, Queued, Tasks
    <2>5. HigherLanesExclude' /\ NoLostWakeup'
      BY DEF HigherLanesExclude, NoLostWakeup
    <2> QED BY <2>1, <2>2, <2>3, <2>4, <2>5
  <1>9. ASSUME DrainFires PROVE Inv'
    <2>1. LoopHead(activeNear, activeBackground, running, FALSE)
      BY DEF LoopHead, TypeOK, QueuedTasksAreLive, SlotsHoldLiveBodies,
             HigherLanesExclude
    <2>2. /\ outcome' = outcome
          /\ UNCHANGED <<activeInteractive, cancelled>>
          /\ DrainQueues(activeNear, activeBackground, running, FALSE)
      BY <1>9 DEF DrainFires
    <2>3. \A t \in Queued \cup running \cup activeInteractive :
             outcome'[t] = "pending"
      BY <2>2 DEF QueuedTasksAreLive, RunningIsPending
    <2> QED BY <2>1, <2>2, <2>3, DrainQueuesStep DEF TypeOK, CancelledIsOver
  <1>10. ASSUME NEW t \in NearTasks \cup BackgroundTasks, FinishTask(t)
         PROVE  Inv'
    <2> DEFINE near == IF activeNear = t THEN None ELSE activeNear
               background == IF activeBackground = t THEN None
                                                     ELSE activeBackground
    <2>1. /\ t \in running
          /\ outcome' = [outcome EXCEPT ![t] = "ended"]
          /\ UNCHANGED <<activeInteractive, cancelled>>
          /\ DrainQueues(near, background, running \ {t}, drainScheduled)
      BY <1>10 DEF FinishTask
    <2>2. LoopHead(near, background, running \ {t}, drainScheduled)
      BY <2>1 DEF LoopHead, TypeOK, QueuedTasksAreLive, SlotsHoldLiveBodies,
                  HigherLanesExclude
    <2>3. outcome' \in [Tasks -> {"pending", "ended", "rejected"}]
      BY <2>1 DEF TypeOK
    <2>4. \A u \in Queued \cup (running \ {t}) \cup activeInteractive :
             outcome'[u] = "pending"
      BY <2>1, <1>0 DEF TypeOK, Tasks, Queued, QueuedTasksAreLive, RunningIsPending
    <2>5. \A u \in cancelled : u \in running \ {t} \/ outcome'[u] # "pending"
      BY <2>1 DEF TypeOK, Tasks, CancelledIsOver
    <2> HIDE DEF near, background
    <2> QED BY <2>1, <2>2, <2>3, <2>4, <2>5, DrainQueuesStep
  <1>11. CASE UNCHANGED vars
    BY <1>11
    DEF vars, slots, TypeOK, QueuedTasksAreLive, SlotsHoldLiveBodies,
        RunningIsPending, CancelledIsOver, HigherLanesExclude, NoLostWakeup,
        Queued
  <1> QED
    BY <1>1, <1>2, <1>3, <1>4, <1>5, <1>6, <1>7, <1>8, <1>9, <1>10, <1>11
    DEF Next

\* In every reachable state of the scheduler its invariant holds: no queued task
\* is cancelled or lost, the slots are those of the live bodies, the lanes
\* exclude each other and no wake-up is lost.
THEOREM SchedulerInvariant == Spec => []Inv
  BY InitInv, NextInv, PTL DEF Spec

\* The invariant the runs check, conjunct by conjunct: type correctness.
THEOREM SchedulerTypeOK == Spec => []TypeOK
  BY SchedulerInvariant, PTL DEF Inv

\* The lanes above exclude preemptible work below.
THEOREM SchedulerHigherLanesExclude == Spec => []HigherLanesExclude
  BY SchedulerInvariant, PTL DEF Inv

\* A preempted body holds no slot, and a slot holds no ended body.
THEOREM SchedulerSlotsHoldLiveBodies == Spec => []SlotsHoldLiveBodies
  BY SchedulerInvariant, PTL DEF Inv

\* No queued task is left without something that will drain its queue.
THEOREM SchedulerNoLostWakeup == Spec => []NoLostWakeup
  BY SchedulerInvariant, PTL DEF Inv

-----------------------------------------------------------------------------
(* The scheduler implements LaneContract.                                   *)

StatusMeaning ==
  \A t \in Tasks :
    /\ Status(t) = "queued" <=> t \in Queued
    /\ Status(t) = "live" <=>
         t \in activeInteractive \cup ({activeNear, activeBackground} \ {None})
    /\ Status(t) = "preempted" <=> t \in running \cap cancelled
    /\ Status(t) = "new" <=> IsNew(t)
    /\ Status(t) = "ended" <=> outcome[t] = "ended"
    /\ Status(t) = "rejected" <=> outcome[t] = "rejected"
    /\ Status(t) \in Contract!Statuses

\* The five kinds of tasks are disjoint, so the cases of Status are exclusive.
LEMMA StatusMeans == Inv => StatusMeaning
  <1> SUFFICES ASSUME Inv PROVE StatusMeaning
    OBVIOUS
  <1> SUFFICES ASSUME NEW t \in Tasks
               PROVE  /\ Status(t) = "queued" <=> t \in Queued
                      /\ Status(t) = "live" <=>
                           t \in activeInteractive
                                \cup ({activeNear, activeBackground} \ {None})
                      /\ Status(t) = "preempted" <=> t \in running \cap cancelled
                      /\ Status(t) = "new" <=> IsNew(t)
                      /\ Status(t) = "ended" <=> outcome[t] = "ended"
                      /\ Status(t) = "rejected" <=> outcome[t] = "rejected"
                      /\ Status(t) \in Contract!Statuses
    BY DEF StatusMeaning
  <1> DEFINE live == activeInteractive
                       \cup ({activeNear, activeBackground} \ {None})
  <1>1. /\ outcome[t] \in {"pending", "ended", "rejected"}
        /\ t \in Queued => outcome[t] = "pending" /\ t \notin running
        /\ t \in Queued \cup running => t \notin activeInteractive
        /\ t \in running \cup activeInteractive => outcome[t] = "pending"
        /\ t \in running => t \in cancelled \/ t \in live
        /\ t \in live => t \in running \cup activeInteractive
        /\ t \in live => t \notin cancelled
    <2>1. Queued \subseteq NearTasks \cup BackgroundTasks
      BY DEF Inv, TypeOK, Queued, Range
    <2> QED
      BY <2>1, TasksAssumption
      DEF Inv, TypeOK, QueuedTasksAreLive, SlotsHoldLiveBodies,
          RunningIsPending, Tasks
  <1> HIDE DEF live
  <1>2. CASE outcome[t] # "pending"
    BY <1>1, <1>2 DEF Status, IsNew, Contract!Statuses, live
  <1>3. CASE outcome[t] = "pending" /\ t \in Queued
    BY <1>1, <1>3 DEF Status, IsNew, Contract!Statuses, live
  <1>4. CASE outcome[t] = "pending" /\ t \notin Queued
    BY <1>1, <1>4 DEF Status, IsNew, Contract!Statuses, live
  <1> QED BY <1>2, <1>3, <1>4

LEMMA StatusMeansNext == Inv' => StatusMeaning'
  BY StatusMeans, PTL

\* What one step may do to a task of the queued lanes.
QueuedLaneStep(t) ==
  /\ t \in Queued' => t \in Queued \/ IsNew(t)
  /\ t \in Queued => t \in Queued' \/ t \in running' \/ outcome'[t] = "rejected"
  /\ t \in running' => t \in running \cup Queued
  /\ t \in running' \ running => t \notin cancelled'
  /\ t \in running => t \in running' \/ outcome'[t] = "ended"
  /\ t \in cancelled => t \in cancelled'
  /\ outcome[t] # "pending" => outcome'[t] = outcome[t]
  /\ outcome'[t] = "ended" => outcome[t] = "ended" \/ t \in running
  /\ outcome'[t] = "rejected" => outcome[t] = "rejected" \/ t \in Queued
  /\ t \notin activeInteractive'

\* What one step may do to an interactive task.
InteractiveStep(t) ==
  /\ t \in activeInteractive' => t \in activeInteractive \/ IsNew(t)
  /\ t \in activeInteractive => t \in activeInteractive' \/ outcome'[t] = "ended"
  /\ outcome[t] # "pending" => outcome'[t] = outcome[t]
  /\ outcome'[t] = "ended" => outcome[t] = "ended" \/ t \in activeInteractive
  /\ outcome'[t] = "rejected" => outcome[t] = "rejected"
  /\ t \notin Queued' \cup running'

\* The part of a step that drainQueues() takes.
LEMMA DrainEffect ==
  ASSUME Inv, NEW near, NEW background, NEW run, NEW scheduled,
         DrainQueues(near, background, run, scheduled)
  PROVE  /\ Queued' \subseteq Queued
         /\ run \subseteq running'
         /\ running' \ run \subseteq Queued
         /\ Queued \ Queued' \subseteq running'
         /\ running' \ run \subseteq {activeNear', activeBackground'}
  <1>1. CASE StartNear(near, background, run, scheduled)
    <2>1. /\ Head(nearQueue) \in Range(nearQueue)
          /\ Range(nearQueue) = Range(nearQueue') \cup {Head(nearQueue)}
      BY <1>1, ShiftQueue DEF StartNear, MayStartNear, Inv, TypeOK
    <2> QED BY <1>1, <2>1 DEF StartNear, Queued
  <1>2. CASE StartBackground(near, background, run, scheduled)
    <2>1. /\ Head(backgroundQueue) \in Range(backgroundQueue)
          /\ Range(backgroundQueue)
               = Range(backgroundQueue') \cup {Head(backgroundQueue)}
      BY <1>2, ShiftQueue DEF StartBackground, MayStartBackground, Inv, TypeOK
    <2> QED BY <1>2, <2>1 DEF StartBackground, Queued
  <1>3. CASE \/ ThrottleBackground(near, background, run)
             \/ EndDrain(near, background, run, scheduled)
    BY <1>3 DEF ThrottleBackground, EndDrain, Queued
  <1> QED BY <1>1, <1>2, <1>3 DEF DrainQueues

LEMMA StepEffect ==
  ASSUME Inv, Inv', [Next]_vars
  PROVE  /\ \A t \in NearTasks \cup BackgroundTasks : QueuedLaneStep(t)
         /\ \A t \in InteractiveTasks : InteractiveStep(t)
  <1> USE TasksAssumption
      DEF Inv, TypeOK, Tasks, QueuedLaneStep, InteractiveStep
  <1>0. /\ Queued \subseteq NearTasks \cup BackgroundTasks
        /\ Queued' \subseteq NearTasks \cup BackgroundTasks
        /\ \A t \in Queued \cup running \cup activeInteractive :
              outcome[t] = "pending"
        /\ Range(<<>>) = {}
    BY DEF Queued, Range, QueuedTasksAreLive, RunningIsPending
  <1>1. ASSUME NEW u \in InteractiveTasks, RunInteractive(u)
        PROVE  /\ \A t \in NearTasks \cup BackgroundTasks : QueuedLaneStep(t)
               /\ \A t \in InteractiveTasks : InteractiveStep(t)
    BY <1>0, <1>1 DEF RunInteractive, Queued, IsNew
  <1>2. ASSUME NEW u \in InteractiveTasks, FinishInteractive(u)
        PROVE  /\ \A t \in NearTasks \cup BackgroundTasks : QueuedLaneStep(t)
               /\ \A t \in InteractiveTasks : InteractiveStep(t)
    BY <1>0, <1>2 DEF FinishInteractive, Queued
  <1>3. ASSUME NEW u \in NearTasks, EnqueueNear(u)
        PROVE  /\ \A t \in NearTasks \cup BackgroundTasks : QueuedLaneStep(t)
               /\ \A t \in InteractiveTasks : InteractiveStep(t)
    <2>1. Range(nearQueue') = Range(nearQueue) \cup {u}
      BY <1>3, AppendQueue DEF EnqueueNear
    <2> QED BY <1>0, <1>3, <2>1 DEF EnqueueNear, Queued, IsNew
  <1>4. ASSUME NEW u \in BackgroundTasks, EnqueueBackground(u)
        PROVE  /\ \A t \in NearTasks \cup BackgroundTasks : QueuedLaneStep(t)
               /\ \A t \in InteractiveTasks : InteractiveStep(t)
    <2>1. Range(backgroundQueue') = Range(backgroundQueue) \cup {u}
      BY <1>4, AppendQueue DEF EnqueueBackground
    <2> QED BY <1>0, <1>4, <2>1 DEF EnqueueBackground, slots, Queued, IsNew
  <1>5. ASSUME RequestDrain \/ UNCHANGED vars
        PROVE  /\ \A t \in NearTasks \cup BackgroundTasks : QueuedLaneStep(t)
               /\ \A t \in InteractiveTasks : InteractiveStep(t)
    BY <1>0, <1>5 DEF RequestDrain, vars, slots, Queued
  <1>6. ASSUME CancelAllNear \/ CancelAllBackground \/ Shutdown
        PROVE  /\ \A t \in NearTasks \cup BackgroundTasks : QueuedLaneStep(t)
               /\ \A t \in InteractiveTasks : InteractiveStep(t)
    BY <1>0, <1>6
    DEF CancelAllNear, CancelAllBackground, Shutdown, Reject, Queued
  <1>7. ASSUME DrainFires
        PROVE  /\ \A t \in NearTasks \cup BackgroundTasks : QueuedLaneStep(t)
               /\ \A t \in InteractiveTasks : InteractiveStep(t)
    <2>1. /\ Queued' \subseteq Queued
          /\ running \subseteq running'
          /\ running' \ running \subseteq Queued
          /\ Queued \ Queued' \subseteq running'
      BY <1>7, DrainEffect DEF DrainFires
    <2>2. running' \ running \subseteq Queued /\ Queued \cap cancelled = {}
      BY <2>1 DEF QueuedTasksAreLive
    <2> QED BY <1>0, <1>7, <2>1, <2>2 DEF DrainFires
  <1>8. ASSUME NEW u \in NearTasks \cup BackgroundTasks, FinishTask(u)
        PROVE  /\ \A t \in NearTasks \cup BackgroundTasks : QueuedLaneStep(t)
               /\ \A t \in InteractiveTasks : InteractiveStep(t)
    <2>1. /\ Queued' \subseteq Queued
          /\ running \ {u} \subseteq running'
          /\ running' \ (running \ {u}) \subseteq Queued
          /\ Queued \ Queued' \subseteq running'
      BY <1>8, DrainEffect DEF FinishTask
    <2>2. Queued \cap cancelled = {} /\ Queued \cap running = {}
      BY DEF QueuedTasksAreLive
    <2> QED BY <1>0, <1>8, <2>1, <2>2 DEF FinishTask
  <1> QED BY <1>1, <1>2, <1>3, <1>4, <1>5, <1>6, <1>7, <1>8 DEF Next

\* In one step a task keeps its place in its life or moves one place on.
LEMMA TasksMove ==
  ASSUME Inv, Inv', [Next]_vars, NEW t \in Tasks
  PROVE  \/ Status(t)' = Status(t)
         \/ <<Status(t), Status(t)'>> \in Contract!Moves(t)
  <1>1. StatusMeaning /\ StatusMeaning'
    BY StatusMeans, StatusMeansNext
  <1>2. /\ running \ cancelled = {activeNear, activeBackground} \ {None}
        /\ running' \ cancelled' = {activeNear', activeBackground'} \ {None}
        /\ running \cup running' \subseteq NearTasks \cup BackgroundTasks
        /\ activeInteractive \cup activeInteractive' \subseteq InteractiveTasks
        /\ Queued \subseteq NearTasks \cup BackgroundTasks
        /\ outcome[t] \in {"pending", "ended", "rejected"}
        /\ outcome'[t] \in {"pending", "ended", "rejected"}
        /\ \A u \in Queued : u \notin cancelled \cup running
    BY DEF Inv, SlotsHoldLiveBodies, TypeOK, QueuedTasksAreLive, Queued, Range
  <1>3. CASE t \in InteractiveTasks
    <2>1. InteractiveStep(t)
      BY <1>3, StepEffect
    <2>2. t \notin NearTasks \cup BackgroundTasks /\ t # None
      BY <1>3, TasksAssumption
    <2> QED BY <1>1, <1>2, <1>3, <2>1, <2>2
            DEF StatusMeaning, InteractiveStep, IsNew, Contract!Moves,
                Contract!Statuses
  <1>4. CASE t \in NearTasks \cup BackgroundTasks
    <2>1. QueuedLaneStep(t)
      BY <1>4, StepEffect
    <2>2. t \notin InteractiveTasks /\ t # None
      BY <1>4, TasksAssumption
    <2> QED BY <1>1, <1>2, <1>4, <2>1, <2>2
            DEF StatusMeaning, QueuedLaneStep, IsNew, Contract!Moves,
                Contract!Statuses
  <1> QED BY <1>3, <1>4 DEF Tasks

\* The live bodies of one state can be live together.
LEMMA LanesCompatible ==
  ASSUME Inv
  PROVE  Contract!Compatible([t \in Tasks |-> Status(t)])
  <1> DEFINE st == [t \in Tasks |-> Status(t)]
  <1>1. \A t \in Tasks : st[t] = "live" <=>
          t \in activeInteractive \cup ({activeNear, activeBackground} \ {None})
    BY StatusMeans DEF StatusMeaning
  <1>2. /\ NearTasks \subseteq Tasks /\ BackgroundTasks \subseteq Tasks
        /\ InteractiveTasks \subseteq Tasks /\ Preemptible \subseteq Tasks
    BY TasksAssumption DEF Tasks
  <1>3. /\ Contract!Live(st, NearTasks) = {activeNear} \ {None}
        /\ Contract!Live(st, BackgroundTasks) = {activeBackground} \ {None}
        /\ Contract!Live(st, InteractiveTasks) = activeInteractive
        /\ Contract!Live(st, NearTasks \cup Preemptible)
             = {activeNear, activeBackground} \cap (NearTasks \cup Preemptible)
        /\ Contract!Live(st, Preemptible) = {activeBackground} \cap Preemptible
    BY <1>1, <1>2, TasksAssumption DEF Contract!Live, Inv, TypeOK
  <1> HIDE DEF st
  <1>4. /\ \A t, u \in Contract!Live(st, NearTasks) : t = u
        /\ \A t, u \in Contract!Live(st, BackgroundTasks) : t = u
    BY <1>3
  <1>5. activeInteractive # {} =>
          Contract!Live(st, NearTasks \cup Preemptible) = {}
    <2>1. activeInteractive # {} =>
            /\ activeNear \notin NearTasks \cup Preemptible
            /\ activeBackground \notin NearTasks \cup Preemptible
      BY TasksAssumption DEF Inv, TypeOK, HigherLanesExclude
    <2> QED BY <2>1, <1>3
  <1>6. Contract!Live(st, NearTasks) # {} => Contract!Live(st, Preemptible) = {}
    BY <1>3, TasksAssumption DEF Inv, TypeOK, HigherLanesExclude
  <1>7. Contract!Compatible(st)
    BY <1>3, <1>4, <1>5, <1>6 DEF Contract!Compatible
  <1> QED BY <1>7 DEF st

LEMMA LanesCompatibleNext ==
  Inv' => Contract!Compatible([t \in Tasks |-> Status(t)])'
  BY LanesCompatible, PTL

\* Only drainQueues() fills the Background slot, and only with the higher
\* lanes empty.
LEMMA BackgroundStarts ==
  ASSUME [Next]_vars, activeBackground' \notin {activeBackground, None}
  PROVE  nearQueue' = <<>> /\ activeNear' = None /\ activeInteractive' = {}
  <1>1. ASSUME NEW near, NEW run, NEW scheduled,
               NEW background \in {activeBackground, None},
               DrainQueues(near, background, run, scheduled),
               UNCHANGED activeInteractive
        PROVE  nearQueue' = <<>> /\ activeNear' = None /\ activeInteractive' = {}
    BY <1>1 DEF DrainQueues, StartNear, StartBackground, MayStartBackground,
                ThrottleBackground, EndDrain
  <1>2. CASE DrainFires
    BY <1>1, <1>2 DEF DrainFires
  <1>3. ASSUME NEW t \in NearTasks \cup BackgroundTasks, FinishTask(t)
        PROVE  nearQueue' = <<>> /\ activeNear' = None /\ activeInteractive' = {}
    BY <1>1, <1>3 DEF FinishTask
  <1> QED
    BY <1>2, <1>3
    DEF Next, vars, slots, RunInteractive, FinishInteractive, EnqueueNear,
        EnqueueBackground, RequestDrain, CancelAllNear, CancelAllBackground,
        Shutdown

\* A Background body becomes live only with the higher lanes empty.
LEMMA BackgroundInTurn ==
  ASSUME Inv, Inv', [Next]_vars
  PROVE  Contract!StartsInTurn([t \in Tasks |-> Status(t)],
                               [t \in Tasks |-> Status(t)]')
  <1> DEFINE st == [t \in Tasks |-> Status(t)]
             next == [t \in Tasks |-> Status(t)']
  <1>1. StatusMeaning /\ StatusMeaning'
    BY StatusMeans, StatusMeansNext
  <1>2. ASSUME NEW t \in BackgroundTasks, st[t] # "live", next[t] = "live"
        PROVE  /\ Contract!Live(next, InteractiveTasks \cup NearTasks) = {}
               /\ \A u \in NearTasks : next[u] # "queued"
    <2>1. t \in Tasks /\ t \notin InteractiveTasks \cup NearTasks /\ t # None
      BY TasksAssumption DEF Tasks
    <2>2. t # activeBackground /\ t = activeBackground'
      BY <1>1, <1>2, <2>1 DEF StatusMeaning, Inv, TypeOK
    <2>3. nearQueue' = <<>> /\ activeNear' = None /\ activeInteractive' = {}
      BY <2>1, <2>2, BackgroundStarts
    <2>4. Queued' \subseteq BackgroundTasks
      BY <2>3 DEF Queued, Range, Inv, TypeOK
    <2>5. \A u \in InteractiveTasks \cup NearTasks :
            u \in Tasks /\ u \notin BackgroundTasks \cup {None}
      BY TasksAssumption DEF Tasks
    <2>6. \A u \in InteractiveTasks \cup NearTasks :
            next[u] # "live" /\ next[u] # "queued"
      BY <1>1, <2>2, <2>3, <2>4, <2>5 DEF StatusMeaning
    <2> HIDE DEF next
    <2> QED BY <2>6 DEF Contract!Live
  <1> HIDE DEF st, next
  <1>3. Contract!StartsInTurn(st, next)
    BY <1>2 DEF Contract!StartsInTurn
  <1> QED BY <1>3 DEF st, next

\* The scheduler implements the contract of its lanes: whatever is submitted,
\* preempted, cancelled or throttled, every task goes through its life in order
\* and once, the live bodies are compatible, and Background work starts in turn.
THEOREM SchedulerImplementsContract == Spec => ImplementsContract
  <1>1. Init => Contract!Init
    BY EmptyQueue, Zenon
    DEF Init, Contract!Init, Status, Queued, Tasks, Contract!Tasks
  <1>2. Inv /\ Inv' /\ [Next]_vars
          => [Contract!Step]_([t \in Tasks |-> Status(t)])
    <2> SUFFICES ASSUME Inv, Inv', [Next]_vars PROVE Contract!Step
      OBVIOUS
    <2>1. [t \in Tasks |-> Status(t)]' \in [Tasks -> Contract!Statuses]
      BY StatusMeansNext DEF StatusMeaning
    <2>2. \A t \in Tasks :
            \/ [u \in Tasks |-> Status(u)]'[t] = [u \in Tasks |-> Status(u)][t]
            \/ <<[u \in Tasks |-> Status(u)][t], [u \in Tasks |-> Status(u)]'[t]>>
                 \in Contract!Moves(t)
      BY TasksMove
    <2>3. Contract!Tasks = Tasks
      BY DEF Contract!Tasks, Tasks
    <2> QED
      BY <2>1, <2>2, <2>3, LanesCompatibleNext, BackgroundInTurn
      DEF Contract!Step
  <1> QED
    BY <1>1, <1>2, SchedulerInvariant, PTL
    DEF Spec, ImplementsContract, Contract!Spec
=============================================================================
