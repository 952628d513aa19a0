------------------------- MODULE IndexingPassProofs -------------------------
(***************************************************************************)
(* Proofs about the indexing pass and its worker pool, for any files, any  *)
(* size of the batches and of the pool, and any number of deaths: no       *)
(* promise is lost, no worker idles while a task waits, and what a pass    *)
(* reports of the files is what the index holds of them.                   *)
(***************************************************************************)
EXTENDS IndexingPassProperties, QueueLemmas, FiniteSetTheorems, TLAPS

PoolTypes ==
  /\ workers \in Seq(Workers)
  /\ active \in [Workers -> Tasks \cup {NoTask}]
  /\ queue \in Seq(Tasks)
  /\ promise \in [Tasks -> {"none", "pending", "resolved", "rejected"}]

\* A promise is pending exactly while its task waits or is with a worker, and a task
\* is in one place only.
TasksAreHeld ==
  /\ \A t \in Tasks : promise[t] = "pending" <=>
        t \in Range(queue) \/ \E w \in Workers : active[w] = t
  /\ Injective(queue)
  /\ \A v, w \in Workers : active[v] = active[w] /\ ~Idle(v) => v = w
  /\ \A w \in Workers : active[w] \notin Range(queue)

\* A busy worker is in the list of the pool, and a task waits for busy workers only.
WorkersAreUsed ==
  /\ \A w \in Workers : ~Idle(w) => w \in Range(workers)
  /\ queue # <<>> => \A w \in Range(workers) : ~Idle(w)

PoolInv == PoolTypes /\ TasksAreHeld /\ WorkersAreUsed

\* Between two batches the pool has nothing to do.
PassWaits == step \notin {"submit", "batch"} => Pending = {}

IInv == PoolInv /\ PassWaits

LEMMA IInvImplies == IInv => PendingTasksAreHeld /\ NoWorkerIdlesBesideTheQueue
  <1> SUFFICES ASSUME IInv PROVE PendingTasksAreHeld /\ NoWorkerIdlesBesideTheQueue
    OBVIOUS
  <1> USE DEF IInv, PoolInv
  <1>1. Range(workers) \subseteq Workers /\ Range(queue) \subseteq Tasks
    BY DEF PoolTypes, Range
  <1>2. \A w \in Busy : w \in Workers /\ ~Idle(w) /\ active[w] \in Tasks
    BY <1>1 DEF Busy, Idle, PoolTypes
  <1>3. \A t \in Tasks, w \in Workers : active[w] = t => w \in Busy
    BY PoolAssumption DEF Busy, Idle, WorkersAreUsed
  <1>4. Pending = Range(queue) \cup {active[w] : w \in Busy}
    BY <1>1, <1>2, <1>3 DEF Pending, TasksAreHeld
  <1>5. \A i, j \in DOMAIN queue : queue[i] = queue[j] => i = j
    BY DEF TasksAreHeld, Injective
  <1>6. /\ \A v, w \in Busy : active[v] = active[w] => v = w
        /\ \A w \in Busy : active[w] \notin Range(queue)
    BY <1>2 DEF TasksAreHeld
  <1>7. step = "ended" => Pending = {}
    BY DEF PassWaits
  <1>8. queue # <<>> => Busy = Range(workers)
    BY DEF Busy, WorkersAreUsed
  <1> QED BY <1>4, <1>5, <1>6, <1>7, <1>8 DEF PendingTasksAreHeld, NoWorkerIdlesBesideTheQueue

-----------------------------------------------------------------------------
(* The pool.                                                               *)

LEMMA FirstIdleIsIdle ==
  ASSUME NEW w, FirstIdle(w) PROVE Idle(w) /\ w \in Range(workers)
  BY DEF FirstIdle, Range

LEMMA RunTaskSteps == ASSUME PoolInv, NEW t, RunTask(t) PROVE PoolInv'
  <1> USE DEF PoolInv
  <1>1. /\ t \in Tasks /\ promise[t] = "none" /\ promise' = [promise EXCEPT ![t] = "pending"]
        /\ workers' = workers /\ t # NoTask
    BY PoolAssumption DEF RunTask
  <1>2. t \notin Range(queue) /\ \A w \in Workers : active[w] # t
    BY <1>1 DEF TasksAreHeld
  <1>3. \A u \in Tasks : promise'[u] = "pending" <=> u = t \/ promise[u] = "pending"
    BY <1>1 DEF PoolTypes
  <1>4. promise' \in [Tasks -> {"none", "pending", "resolved", "rejected"}]
    BY <1>1 DEF PoolTypes
  <1>5. ASSUME NEW w \in Workers, FirstIdle(w), ProcessNextTask(w, active, Append(queue, t))
        PROVE  PoolInv'
    <2>1. queue = <<>> /\ Idle(w) /\ w \in Range(workers)
      BY <1>5, FirstIdleIsIdle DEF WorkersAreUsed
    <2>2. Append(queue, t) = <<t>>
      BY <2>1
    <2>3. active' = [active EXCEPT ![w] = t] /\ queue' = <<>>
      BY <1>5, <2>2 DEF ProcessNextTask
    <2>4. Range(queue) = {} /\ Range(queue') = {} /\ queue' \in Seq(Tasks) /\ Injective(queue')
      BY <2>1, <2>3, EmptyQueue
    <2>5. /\ active'[w] = t /\ \A v \in Workers : v # w => active'[v] = active[v]
          /\ active' \in [Workers -> Tasks \cup {NoTask}]
      BY <1>1, <2>3 DEF PoolTypes
    <2>6. PoolTypes'
      BY <1>1, <1>4, <2>4, <2>5 DEF PoolTypes
    <2>7. \A u \in Tasks : promise'[u] = "pending" <=> \E v \in Workers : active'[v] = u
      <3>1. \A u \in Tasks : promise[u] = "pending" <=> \E v \in Workers : active[v] = u
        BY <2>4 DEF TasksAreHeld
      <3>2. \A u \in Tasks : active[w] # u
        BY <2>1, PoolAssumption DEF Idle
      <3> QED BY <1>3, <2>5, <3>1, <3>2
    <2>8. \A u, v \in Workers : active'[v] = active'[u] /\ active'[v] # NoTask => u = v
      BY <1>2, <2>5 DEF TasksAreHeld, Idle
    <2>9. TasksAreHeld'
      BY <2>4, <2>7, <2>8 DEF TasksAreHeld, Idle
    <2>10. WorkersAreUsed'
      BY <1>1, <2>1, <2>3, <2>5 DEF WorkersAreUsed, Idle
    <2> QED BY <2>6, <2>9, <2>10
  <1>6. ASSUME \A i \in DOMAIN workers : ~Idle(workers[i]), queue' = Append(queue, t),
               active' = active
        PROVE  PoolInv'
    <2>1. /\ queue' \in Seq(Tasks) /\ Range(queue') = Range(queue) \cup {t}
          /\ Injective(queue')
      BY <1>1, <1>2, <1>6, AppendQueue DEF PoolTypes, TasksAreHeld
    <2>2. PoolTypes'
      BY <1>1, <1>4, <1>6, <2>1 DEF PoolTypes
    <2>3. TasksAreHeld'
      BY <1>2, <1>3, <1>6, <2>1 DEF TasksAreHeld, Idle
    <2>4. WorkersAreUsed'
      BY <1>1, <1>6 DEF WorkersAreUsed, Idle, Range
    <2> QED BY <2>2, <2>3, <2>4
  <1> QED BY <1>5, <1>6 DEF RunTask

\* A worker is rid of its task, whose promise is settled or not, and takes the next; the
\* list may come in another order.
LEMMA NextTaskSteps ==
  ASSUME PoolInv, NEW w \in Range(workers),
         workers' \in Seq(Workers), Range(workers') = Range(workers),
         promise' \in [Tasks -> {"none", "pending", "resolved", "rejected"}],
         \A t \in Tasks : promise'[t] = "pending" <=> promise[t] = "pending" /\ t # active[w],
         ProcessNextTask(w, [active EXCEPT ![w] = NoTask], queue)
  PROVE  PoolInv'
  <1> USE DEF PoolInv
  <1>1. w \in Workers
    BY DEF PoolTypes, Range
  <1> DEFINE rid == [active EXCEPT ![w] = NoTask]
  <1>2. /\ rid[w] = NoTask /\ \A v \in Workers : v # w => rid[v] = active[v]
        /\ rid \in [Workers -> Tasks \cup {NoTask}]
    BY <1>1 DEF PoolTypes
  <1>3. ProcessNextTask(w, rid, queue)
    OBVIOUS
  <1> HIDE DEF rid
  <1>4. CASE queue = <<>>
    <2>1. active' = rid /\ queue' = queue /\ Range(queue) = {}
      BY <1>3, <1>4, EmptyQueue DEF ProcessNextTask
    <2>2. PoolTypes'
      BY <1>2, <2>1 DEF PoolTypes
    <2>3. \A t \in Tasks : promise'[t] = "pending" <=> \E v \in Workers : active'[v] = t
      <3>1. \A t \in Tasks : promise[t] = "pending" <=> \E v \in Workers : active[v] = t
        BY <2>1 DEF TasksAreHeld
      <3>2. \A v \in Workers : active[v] = active[w] /\ active[v] # NoTask => v = w
        BY <1>1 DEF TasksAreHeld, Idle
      <3> QED BY <1>1, <1>2, <2>1, <3>1, <3>2, PoolAssumption
    <2>4. TasksAreHeld'
      BY <1>2, <2>1, <2>3 DEF TasksAreHeld, Idle
    <2>5. WorkersAreUsed'
      BY <1>2, <1>4, <2>1 DEF WorkersAreUsed, Idle
    <2> QED BY <2>2, <2>4, <2>5
  <1>5. CASE queue # <<>>
    <2> DEFINE h == Head(queue)
    <2>1. active' = [rid EXCEPT ![w] = h] /\ queue' = Tail(queue)
      BY <1>3, <1>5 DEF ProcessNextTask
    <2>2. /\ h \in Tasks /\ h \in Range(queue) /\ queue' \in Seq(Tasks)
          /\ Range(queue) = Range(queue') \cup {h}
          /\ Injective(queue') /\ h \notin Range(queue')
      BY <1>5, <2>1, ShiftQueue DEF PoolTypes, TasksAreHeld
    <2> HIDE DEF h
    <2>3. /\ active'[w] = h /\ \A v \in Workers : v # w => active'[v] = active[v]
          /\ active' \in [Workers -> Tasks \cup {NoTask}]
      BY <1>1, <1>2, <2>1, <2>2
    <2>4. PoolTypes'
      BY <2>2, <2>3 DEF PoolTypes
    <2>5. \A v \in Workers : active[v] # h
      BY <2>2 DEF TasksAreHeld
    <2>6. \A t \in Tasks : promise'[t] = "pending" <=>
            t \in Range(queue') \/ \E v \in Workers : active'[v] = t
      <3>1. \A t \in Tasks : promise[t] = "pending" <=>
              t \in Range(queue) \/ \E v \in Workers : active[v] = t
        BY DEF TasksAreHeld
      <3>2. \A v \in Workers : active[v] = active[w] /\ active[v] # NoTask => v = w
        BY <1>1 DEF TasksAreHeld, Idle
      <3>3. active[w] \notin Range(queue)
        BY <1>1 DEF TasksAreHeld
      <3> QED BY <1>1, <2>2, <2>3, <3>1, <3>2, <3>3, PoolAssumption
    <2>7. \A u, v \in Workers : active'[v] = active'[u] /\ active'[v] # NoTask => u = v
      BY <2>3, <2>5 DEF TasksAreHeld, Idle
    <2>8. \A v \in Workers : active'[v] \notin Range(queue')
      BY <2>2, <2>3 DEF TasksAreHeld
    <2>9. TasksAreHeld'
      BY <2>2, <2>6, <2>7, <2>8 DEF TasksAreHeld, Idle
    <2>10. \A v \in Range(workers) : v \in Workers /\ active'[v] # NoTask
      <3>1. \A v \in Range(workers) : v \in Workers /\ active[v] # NoTask
        BY <1>5 DEF WorkersAreUsed, Idle, PoolTypes, Range
      <3> QED BY <2>2, <2>3, <3>1, PoolAssumption
    <2>11. WorkersAreUsed'
      BY <2>3, <2>10 DEF WorkersAreUsed, Idle
    <2> QED BY <2>4, <2>9, <2>11
  <1> QED BY <1>4, <1>5

LEMMA AnswerSteps ==
  ASSUME PoolInv, NEW w \in Workers, NEW success \in BOOLEAN, Answer(w, success) PROVE PoolInv'
  <1>1. w \in Range(workers) /\ active[w] \in Tasks
    BY DEF Answer, PoolInv, WorkersAreUsed, Idle, PoolTypes
  <1>2. /\ promise' = [promise EXCEPT ![active[w]] = IF success THEN "resolved" ELSE "rejected"]
        /\ ProcessNextTask(w, [active EXCEPT ![w] = NoTask], queue) /\ workers' = workers
    BY DEF Answer
  <1>3. promise' \in [Tasks -> {"none", "pending", "resolved", "rejected"}]
    BY <1>1, <1>2 DEF PoolInv, PoolTypes
  <1>4. \A t \in Tasks : promise'[t] = "pending" <=> promise[t] = "pending" /\ t # active[w]
    BY <1>1, <1>2 DEF PoolInv, PoolTypes
  <1>5. workers' \in Seq(Workers) /\ Range(workers') = Range(workers)
    BY <1>2 DEF PoolInv, PoolTypes
  <1> QED BY <1>1, <1>2, <1>3, <1>4, <1>5, NextTaskSteps

\* The replacement of a worker is in the list, with the others.
LEMMA ReplacedWorker ==
  ASSUME NEW q \in Seq(Workers), NEW i \in DOMAIN q
  PROVE  /\ Append(RemoveAt(q, i), q[i]) \in Seq(Workers)
         /\ Range(Append(RemoveAt(q, i), q[i])) = Range(q)
  <1> DEFINE p == RemoveAt(q, i)
  <1>1. /\ p \in Seq(Workers) /\ q[i] \in Workers
        /\ \A j \in DOMAIN p : \E k \in DOMAIN q : p[j] = q[k]
        /\ \A k \in DOMAIN q : k # i => \E j \in DOMAIN p : p[j] = q[k]
    BY RemoveAtFacts
  <1> HIDE DEF p
  <1>2. Append(p, q[i]) \in Seq(Workers) /\ Range(Append(p, q[i])) = Range(p) \cup {q[i]}
    BY <1>1, AppendQueue
  <1>3. Range(p) \cup {q[i]} = Range(q)
    <2>1. ASSUME NEW x \in Range(p) PROVE x \in Range(q)
      BY <1>1, <2>1 DEF Range
    <2>2. q[i] \in Range(q)
      BY DEF Range
    <2>3. ASSUME NEW x \in Range(q) PROVE x \in Range(p) \cup {q[i]}
      <3>1. PICK k \in DOMAIN q : x = q[k]
        BY <2>3 DEF Range
      <3>2. CASE k = i
        BY <3>1, <3>2
      <3>3. CASE k # i
        <4>1. PICK j \in DOMAIN p : p[j] = q[k]
          BY <1>1, <3>3
        <4> QED BY <3>1, <4>1 DEF Range
      <3> QED BY <3>2, <3>3
    <2> QED BY <2>1, <2>2, <2>3
  <1> QED BY <1>2, <1>3 DEF p

LEMMA DieSteps == ASSUME PoolInv, NEW w \in Workers, Die(w) PROVE PoolInv'
  <1>1. PICK i \in DOMAIN workers : /\ workers[i] = w
                                   /\ workers' = Append(RemoveAt(workers, i), w)
    BY DEF Die
  <1>2. workers \in Seq(Workers) /\ w \in Range(workers)
    BY <1>1 DEF PoolInv, PoolTypes, Range
  <1>3. workers' \in Seq(Workers) /\ Range(workers') = Range(workers)
    BY <1>1, <1>2, ReplacedWorker
  <1>4. /\ promise' = RejectTaskOf(w)
        /\ ProcessNextTask(w, [active EXCEPT ![w] = NoTask], queue)
    BY DEF Die
  <1>5. active[w] = NoTask \/ active[w] \in Tasks
    BY DEF PoolInv, PoolTypes
  <1>6. promise' \in [Tasks -> {"none", "pending", "resolved", "rejected"}]
    BY <1>4, <1>5 DEF RejectTaskOf, Idle, PoolInv, PoolTypes
  <1>7. \A t \in Tasks : promise'[t] = "pending" <=> promise[t] = "pending" /\ t # active[w]
    BY <1>4, <1>5, PoolAssumption DEF RejectTaskOf, Idle, PoolInv, PoolTypes
  <1> QED BY <1>2, <1>3, <1>4, <1>6, <1>7, NextTaskSteps

\* terminate() with nothing pending.
LEMMA TerminateSteps == ASSUME PoolInv, Pending = {}, Terminate PROVE PoolInv'
  <1> USE DEF PoolInv
  <1>1. workers' = <<>> /\ UNCHANGED <<active, queue, promise>>
    BY DEF Terminate
  <1>2. \A w \in Workers : active[w] = NoTask
    BY DEF Pending, TasksAreHeld, PoolTypes
  <1>3. queue = <<>>
    <2>1. SUFFICES ASSUME queue # <<>> PROVE FALSE
      OBVIOUS
    <2>2. Head(queue) \in Tasks /\ Head(queue) \in Range(queue)
      BY <2>1, ShiftQueue DEF PoolTypes
    <2> QED BY <2>2 DEF Pending, TasksAreHeld
  <1>4. PoolTypes' /\ TasksAreHeld'
    BY <1>1 DEF PoolTypes, TasksAreHeld, Idle
  <1>5. WorkersAreUsed'
    BY <1>1, <1>2, <1>3 DEF WorkersAreUsed, Idle
  <1> QED BY <1>4, <1>5

\* Steps that leave the pool alone.
LEMMA PoolStays == ASSUME PoolInv, UNCHANGED poolVars PROVE PoolInv' /\ Pending' = Pending
  BY DEF poolVars, PoolInv, PoolTypes, TasksAreHeld, WorkersAreUsed, Idle, Pending

-----------------------------------------------------------------------------
(* The pass.                                                               *)

LEMMA NextStepWaits == ASSUME NextStep PROVE PassWaits'
  BY DEF NextStep, PassWaits, Pending

LEMMA WorkerSteps ==
  ASSUME IInv, NEW w \in Workers,
         (\E success \in BOOLEAN : WorkerAnswers(w, success)) \/ WorkerDies(w)
  PROVE  IInv'
  <1>1. ASSUME NEW success \in BOOLEAN, WorkerAnswers(w, success) PROVE IInv'
    <2>1. PoolInv' /\ PassWaits'
      BY <1>1, AnswerSteps, NextStepWaits DEF WorkerAnswers, IInv
    <2> QED BY <2>1 DEF IInv
  <1>2. CASE WorkerDies(w) /\ ~Idle(w)
    <2>1. PoolInv' /\ PassWaits'
      BY <1>2, DieSteps, NextStepWaits DEF WorkerDies, IInv
    <2> QED BY <2>1 DEF IInv
  <1>3. CASE WorkerDies(w) /\ Idle(w)
    <2>1. PoolInv' /\ promise' = promise /\ step' = step
      BY <1>3, DieSteps DEF WorkerDies, Die, RejectTaskOf, IInv
    <2> QED BY <2>1 DEF IInv, PassWaits, Pending
  <1> QED BY <1>1, <1>2, <1>3

LEMMA SubmitSteps == ASSUME IInv, Submit PROVE IInv'
  <1>1. CASE submitting = <<>>
    <2>1. UNCHANGED poolVars /\ NextStep
      BY <1>1 DEF Submit
    <2> QED BY <2>1, PoolStays, NextStepWaits DEF IInv
  <1>2. CASE submitting # <<>>
    <2>1. RunTask(<<Head(submitting), "enriched">>) /\ step' = step /\ step = "submit"
      BY <1>2 DEF Submit
    <2> QED BY <2>1, RunTaskSteps DEF IInv, PassWaits
  <1> QED BY <1>1, <1>2

LEMMA ReadSteps == ASSUME IInv, NEW f, NEW o, ReadFile(f, o) PROVE IInv'
  <1>1. NextStep /\ (RunTask(<<f, "structural">>) \/ UNCHANGED poolVars)
    BY DEF ReadFile
  <1> QED BY <1>1, RunTaskSteps, PoolStays, NextStepWaits DEF IInv

\* The other steps of the pass, which it takes with nothing pending.
LEMMA QuietSteps ==
  ASSUME IInv, UNCHANGED poolVars, step' = step \/ step \notin {"submit", "batch"}
  PROVE  IInv'
  BY PoolStays DEF IInv, PassWaits

LEMMA PassStepsPreserve == ASSUME IInv, PassSteps PROVE IInv'
  <1>1. CASE StartStructuralBatch \/ EndStructuralBatch \/ Resume \/ PublishStructural
    <2>1. UNCHANGED poolVars /\ step \notin {"submit", "batch"}
      BY <1>1 DEF StartStructuralBatch, GiveUp, EndStructuralBatch, Resume, PublishStructural
    <2> QED BY <2>1, QuietSteps
  <1>2. CASE StartEnrichedBatch \/ EndEnrichedBatch \/ EndEnrichedPass
    <2>1. UNCHANGED poolVars /\ step \notin {"submit", "batch"}
      BY <1>2 DEF StartEnrichedBatch, GiveUp, EndEnrichedBatch, EndEnrichedPass
    <2> QED BY <2>1, QuietSteps
  <1>3. CASE Submit
    BY <1>3, SubmitSteps
  <1>4. CASE Finish
    <2>1. Terminate /\ step = "finish"
      BY <1>4 DEF Finish
    <2>2. Pending = {}
      BY <2>1 DEF IInv, PassWaits
    <2>3. PoolInv' /\ promise' = promise
      BY <2>1, <2>2, TerminateSteps DEF IInv, Terminate
    <2> QED BY <2>2, <2>3 DEF IInv, PassWaits, Pending
  <1> QED BY <1>1, <1>2, <1>3, <1>4 DEF PassSteps

LEMMA InitEstablishes == Init => IInv
  <1> SUFFICES ASSUME Init PROVE IInv
    OBVIOUS
  <1>1. /\ workers \in Seq(Workers) /\ active = [w \in Workers |-> NoTask] /\ queue = <<>>
        /\ promise = [t \in Tasks |-> "none"]
    <2>1. Cardinality(Workers) \in Nat
      BY PoolAssumption, FS_CardinalityType
    <2> QED BY <2>1 DEF Init, PoolInit
  <1>2. PoolTypes
    BY <1>1 DEF PoolTypes
  <1>3. TasksAreHeld
    BY <1>1, EmptyQueue, PoolAssumption DEF TasksAreHeld, Idle
  <1>4. WorkersAreUsed /\ PassWaits
    BY <1>1 DEF WorkersAreUsed, Idle, PassWaits, Pending
  <1> QED BY <1>2, <1>3, <1>4 DEF IInv, PoolInv

LEMMA NextPreserves == IInv /\ [Next]_vars => IInv'
  <1> SUFFICES ASSUME IInv, [Next]_vars PROVE IInv'
    OBVIOUS
  <1>1. CASE PassSteps
    BY <1>1, PassStepsPreserve
  <1>2. ASSUME NEW f \in FileSet, NEW o \in Outcomes, ReadFile(f, o) PROVE IInv'
    BY <1>2, ReadSteps
  <1>3. ASSUME NEW w \in Workers,
               (\E success \in BOOLEAN : WorkerAnswers(w, success)) \/ WorkerDies(w)
        PROVE  IInv'
    BY <1>3, WorkerSteps
  <1>4. CASE Cancel \/ UNCHANGED vars
    BY <1>4, QuietSteps DEF Cancel, vars, passVars
  <1> QED BY <1>1, <1>2, <1>3, <1>4 DEF Next

LEMMA Invariance == Spec => []IInv
  BY InitEstablishes, NextPreserves, PTL DEF Spec

\* However answers, deaths and submissions interleave, every pending promise belongs to
\* one task that waits or is with one worker of the pool, and terminate() meets none.
THEOREM PendingTasksAreAlwaysHeld == Spec => []PendingTasksAreHeld
  BY Invariance, IInvImplies, PTL

\* runTask() need look for one idle worker only, and only once: none idles while a task
\* waits, for any size of the pool.
THEOREM WorkersNeverIdleBesideTheQueue == Spec => []NoWorkerIdlesBesideTheQueue
  BY Invariance, IInvImplies, PTL

-----------------------------------------------------------------------------
(* What the pass has done so far.                                          *)

\* What the structural pass leaves of a file: it goes on to the enriched pass, or ends.
Sorted(f) ==
  \/ IsPrepared(f) /\ fileStates[f] = "indexing"
  \/ outcome[f] \in {"skipped", "failed"} /\ fileStates[f] = outcome[f]

\* In the structural pass the files before the cursor are sorted, those that go on are
\* prepared once, and what is pending belongs to the batch.
StructuralSoFar ==
  pass = "structural" =>
    /\ records = {} /\ staged = NoBatch
    /\ \A f \in FileSet : index[f] = "before" /\ fileStates[f] # "indexed"
    /\ \A i \in DOMAIN Files :
         /\ Files[i] \in Range(prepared) <=> i < cursor /\ IsPrepared(Files[i])
         /\ i < cursor => Sorted(Files[i])
    /\ step \in {"batch", "settled"} => \A f \in Batch \ reading : Sorted(f)
    /\ step # "submit"
    /\ reading \subseteq Batch /\ \A f \in reading : fileStates[f] = "indexing"
    /\ step # "batch" => reading = {}
    /\ \A f \in FileSet : promise[<<f, "structural">>] = "pending" =>
         step = "batch" /\ f \in Batch \ reading

\* In the enriched pass the prepared files before the cursor have their result, and those
\* with a new one are written to the open batch of the index and to the document cache.
EnrichedSoFar ==
  pass = "enriched" =>
    /\ reading = {}
    /\ \A f \in FileSet : promise[<<f, "structural">>] # "pending"
    /\ \A f \in FileSet : f \notin Range(prepared) => fileStates[f] \in {"skipped", "failed"}
    /\ \A i \in DOMAIN prepared :
         fileStates[prepared[i]] \in IF i < cursor THEN {"indexed", "failed"} ELSE {"indexing"}
    /\ records = {f \in FileSet : fileStates[f] = "indexed" /\ ~SkipsPublication(f)}
    /\ records # {} => processed > 0
    /\ step # "ended" =>
         /\ \A f \in FileSet : index[f] # "enriched"
         /\ IF staged = NoBatch THEN \A f \in Range(prepared) : SkipsPublication(f)
                                ELSE staged = records

\* How the pass may come to its end.
EndSoFar ==
  /\ step \notin {"finish", "ended"} => phase = pass
  /\ phase = "ready" => pass = "enriched" /\ cursor > Len(prepared)
  /\ step = "finish" /\ phase \in {"ready", "partial"} => (records # {} => committed)

PassTyped ==
  /\ deaths \in 0 .. MaxDeaths
  /\ pass \in {"structural", "enriched"}
  /\ step \in Running \cup {"batch", "yield", "ended"}
  /\ cursor \in Nat \ {0} /\ processed \in Nat /\ partialRuns \in Nat
  /\ reading \subseteq FileSet /\ records \subseteq FileSet
  /\ submitting \in Seq(FileSet) /\ prepared \in Seq(FileSet)
  /\ outcome \in [FileSet -> Outcomes \cup {"none"}]
  /\ fileStates \in [FileSet -> FileStates]
  /\ phase \in {"structural", "enriched", "partial", "ready"}
  /\ index \in [FileSet -> {"before", "structural", "enriched"}]
  /\ staged = NoBatch \/ staged \subseteq FileSet
  /\ committed \in BOOLEAN /\ indexDirty \in BOOLEAN /\ cancelled \in BOOLEAN

PassInv ==
  /\ PassTyped /\ Injective(prepared)
  /\ StructuralSoFar /\ EnrichedSoFar /\ EndSoFar /\ ReportMatchesIndex

LEMMA Typed == IInv /\ PassInv => TypeOK
  BY DEF IInv, PoolInv, PoolTypes, PassInv, PassTyped, TypeOK

LEMMA FilesFacts ==
  /\ Files \in Seq(FileSet) /\ DOMAIN Files = 1 .. Len(Files) /\ Len(Files) \in Nat
  /\ Injective(Files) /\ \A f \in FileSet : \E i \in DOMAIN Files : Files[i] = f
  BY PassAssumption DEF FileSet, Injective

\* The files of a batch are those at its positions, and finitely many.
LEMMA BatchFacts ==
  ASSUME PassInv
  PROVE  /\ Loop \in Seq(FileSet) /\ DOMAIN Loop = 1 .. Len(Loop) /\ Len(Loop) \in Nat
         /\ Batch \in SUBSET FileSet
         /\ \A i \in DOMAIN Loop :
              Loop[i] \in Batch <=> i >= cursor /\ i < cursor + BatchSize
         /\ Cardinality(Batch) \in Nat
         /\ Batch # {} => Cardinality(Batch) > 0
  <1>1. /\ Loop \in Seq(FileSet) /\ DOMAIN Loop = 1 .. Len(Loop) /\ Len(Loop) \in Nat
        /\ Injective(Loop)
    BY FilesFacts DEF Loop, PassInv, PassTyped
  <1>2. Batch \in SUBSET FileSet
    BY <1>1 DEF Batch, BatchPositions
  <1>3. ASSUME NEW i \in DOMAIN Loop
        PROVE  Loop[i] \in Batch <=> i >= cursor /\ i < cursor + BatchSize
    BY <1>1 DEF Batch, BatchPositions, Injective
  <1>4. IsFiniteSet(Batch)
    <2> DEFINE f == [i \in BatchPositions |-> Loop[i]]
    <2>1. f \in Surjection(BatchPositions, Batch)
      BY DEF Surjection, Batch
    <2>2. IsFiniteSet(BatchPositions)
      <3> DEFINE m == Len(Loop)
      <3>1. 1 \in Int /\ m \in Int /\ BatchPositions \in SUBSET (1 .. m)
        BY <1>1 DEF BatchPositions
      <3> HIDE DEF m
      <3>2. IsFiniteSet(1 .. m)
        BY <3>1, FS_Interval
      <3> QED BY <3>1, <3>2, FS_Subset
    <2> HIDE DEF f
    <2> QED BY <2>1, <2>2, FS_Surjection
  <1>5. Cardinality(Batch) \in Nat /\ (Batch # {} => Cardinality(Batch) # 0)
    BY <1>4, FS_CardinalityType, FS_EmptySet
  <1> QED BY <1>1, <1>2, <1>3, <1>5

LEMMA BatchStays == ASSUME UNCHANGED <<pass, cursor, prepared>> PROVE Batch' = Batch
  BY DEF Batch, BatchPositions, Loop

LEMMA PassInitHolds == Init => PassInv
  <1> SUFFICES ASSUME Init PROVE PassInv
    OBVIOUS
  <1> USE DEF Init, PoolInit
  <1>1. PassTyped /\ Injective(prepared)
    <2>1. 0 \in 0 .. MaxDeaths /\ 1 \in Nat \ {0} /\ 0 \in Nat
      BY PoolAssumption
    <2>2. <<>> \in Seq(FileSet) /\ Injective(<<>>)
      BY EmptyQueue
    <2> QED BY <2>1, <2>2 DEF PassTyped, Running, FileStates
  <1>2. StructuralSoFar
    <2>1. \A i \in DOMAIN Files : i >= 1 /\ Files[i] \in FileSet
      BY FilesFacts
    <2>2. \A f \in FileSet : <<f, "structural">> \in Tasks
      BY PassAssumption
    <2> QED BY <2>1, <2>2 DEF StructuralSoFar, Range
  <1>3. EnrichedSoFar /\ EndSoFar /\ ReportMatchesIndex
    BY DEF EnrichedSoFar, EndSoFar, ReportMatchesIndex
  <1> QED BY <1>1, <1>2, <1>3 DEF PassInv

LEMMA GiveUpHolds ==
  ASSUME PassInv, GiveUp, step = "loop", cursor <= Len(Loop) PROVE PassInv'
  <1> USE DEF PassInv
  <1>1. /\ phase' = "partial" /\ partialRuns' = partialRuns + 1
        /\ committed' = (processed > 0) /\ step' = "finish"
        /\ UNCHANGED <<promise, deaths, pass, cursor, reading, submitting, outcome, prepared,
                       processed, fileStates, indexDirty, index, staged, records, cancelled>>
    BY DEF GiveUp, poolVars
  <1>2. committed' \in BOOLEAN /\ (processed > 0 => committed')
    <2>1. CASE processed > 0
      BY <1>1, <2>1
    <2>2. CASE ~(processed > 0)
      BY <1>1, <2>2
    <2> QED BY <2>1, <2>2
  <1>3. PassTyped' /\ Injective(prepared)'
    BY <1>1, <1>2 DEF PassTyped, Running
  <1>4. Batch' = Batch
    BY <1>1, BatchStays
  <1>5. StructuralSoFar'
    BY <1>1, <1>4 DEF StructuralSoFar, Sorted, IsPrepared
  <1>6. EnrichedSoFar'
    BY <1>1 DEF EnrichedSoFar, SkipsPublication
  <1>7. records # {} => committed'
    BY <1>2 DEF EnrichedSoFar, StructuralSoFar, PassTyped
  <1>8. EndSoFar' /\ ReportMatchesIndex'
    BY <1>1, <1>7 DEF EndSoFar, ReportMatchesIndex
  <1> QED BY <1>3, <1>5, <1>6, <1>8

LEMMA StartStructuralHolds == ASSUME PassInv, StartStructuralBatch PROVE PassInv'
  <1>1. CASE cancelled
    BY <1>1, GiveUpHolds DEF StartStructuralBatch, Loop
  <1>2. CASE ~cancelled
    <2> USE DEF PassInv
    <2>1. /\ step = "loop" /\ pass = "structural" /\ step' = "batch" /\ reading' = Batch
          /\ fileStates' = [f \in FileSet |-> IF f \in Batch THEN "indexing" ELSE fileStates[f]]
          /\ UNCHANGED <<poolVars, pass, cursor, submitting, outcome, prepared, processed,
                         committed, phase, partialRuns, indexDirty, index, staged, records,
                         cancelled>>
      BY <1>2 DEF StartStructuralBatch
    <2>2. Batch' = Batch /\ Batch \subseteq FileSet
      BY <2>1, BatchStays, BatchFacts
    <2>3. PassTyped' /\ Injective(prepared)'
      BY <2>1, <2>2 DEF PassTyped, FileStates, poolVars
    <2>4. \A i \in DOMAIN Files : i < cursor => Files[i] \in FileSet /\ Files[i] \notin Batch
      BY <2>1, FilesFacts, BatchFacts DEF Loop, PassTyped
    <2>5. StructuralSoFar'
      BY <2>1, <2>2, <2>4 DEF StructuralSoFar, Sorted, IsPrepared, poolVars
    <2>6. EnrichedSoFar' /\ EndSoFar' /\ ReportMatchesIndex'
      BY <2>1 DEF EnrichedSoFar, EndSoFar, ReportMatchesIndex
    <2> QED BY <2>3, <2>5, <2>6
  <1> QED BY <1>1, <1>2

\* After the results of a file the batch goes on or is settled.
LEMMA NextStepFacts ==
  ASSUME NextStep
  PROVE  /\ step' \in {"batch", "settled"}
         /\ step' # "batch" => reading' = {} /\ \A t \in Tasks : promise'[t] # "pending"
  BY DEF NextStep

LEMMA ReadHolds ==
  ASSUME IInv, PassInv, NEW f \in FileSet, NEW o \in Outcomes, ReadFile(f, o) PROVE PassInv'
  <1> USE DEF PassInv
  <1>1. /\ f \in reading /\ reading' = reading \ {f}
        /\ outcome' = [outcome EXCEPT ![f] = o]
        /\ fileStates' = [fileStates EXCEPT ![f] = IF o \in {"skipped", "failed"} THEN o ELSE @]
        /\ UNCHANGED <<pass, cursor, submitting, prepared, processed, committed, phase,
                       partialRuns, indexDirty, index, staged, records, cancelled>>
    BY DEF ReadFile
  <1>2. /\ pass = "structural" /\ step = "batch" /\ fileStates[f] = "indexing"
        /\ Loop = Files /\ f \in Batch /\ Batch' = Batch /\ Batch \subseteq FileSet
    BY <1>1, BatchStays, BatchFacts DEF StructuralSoFar, EnrichedSoFar, PassTyped, Loop
  <1>3. /\ step' \in {"batch", "settled"}
        /\ step' # "batch" => reading' = {} /\ \A t \in Tasks : promise'[t] # "pending"
    BY NextStepFacts DEF ReadFile
  <1>4. /\ \A g \in FileSet : promise'[<<g, "structural">>] = "pending" =>
             g = f \/ promise[<<g, "structural">>] = "pending"
        /\ deaths' = deaths
    <2>1. CASE o = "fresh"
      <3>1. promise' = [promise EXCEPT ![<<f, "structural">>] = "pending"] /\ deaths' = deaths
        BY <2>1 DEF ReadFile, RunTask
      <3>2. \A g \in FileSet : <<g, "structural">> \in Tasks
        BY PassAssumption
      <3> QED BY <3>1, <3>2 DEF IInv, PoolInv, PoolTypes
    <2>2. CASE o # "fresh"
      BY <2>2 DEF ReadFile, poolVars
    <2> QED BY <2>1, <2>2
  <1>5. PassTyped' /\ Injective(prepared)'
    BY <1>1, <1>3, <1>4 DEF PassTyped, Outcomes, FileStates, Running
  <1>6. /\ outcome'[f] = o /\ \A g \in FileSet : g # f => outcome'[g] = outcome[g]
        /\ fileStates'[f] = IF o \in {"skipped", "failed"} THEN o ELSE "indexing"
        /\ \A g \in FileSet : g # f => fileStates'[g] = fileStates[g]
    BY <1>1, <1>2 DEF PassTyped
  <1>7. Sorted(f)' /\ \A g \in FileSet : g # f /\ Sorted(g) => Sorted(g)'
    BY <1>6 DEF Sorted, IsPrepared, Outcomes
  <1>8. \A i \in DOMAIN Files : i < cursor => Files[i] \in FileSet /\ Files[i] # f
    BY <1>2, FilesFacts, BatchFacts DEF PassTyped
  <1>9. StructuralSoFar'
    <2>1. records' = {} /\ staged' = NoBatch
      BY <1>1, <1>2 DEF StructuralSoFar
    <2>2. \A g \in FileSet : index'[g] = "before" /\ fileStates'[g] # "indexed"
      BY <1>1, <1>2, <1>6 DEF StructuralSoFar
    <2>3. ASSUME NEW i \in DOMAIN Files
          PROVE  /\ Files[i] \in Range(prepared') <=> i < cursor' /\ IsPrepared(Files[i])'
                 /\ i < cursor' => Sorted(Files[i])'
      BY <1>1, <1>2, <1>6, <1>7, <1>8 DEF StructuralSoFar, IsPrepared
    <2>4. \A g \in Batch \ reading' : Sorted(g)'
      BY <1>1, <1>2, <1>7 DEF StructuralSoFar
    <2>5. reading' \subseteq Batch /\ \A g \in reading' : fileStates'[g] = "indexing"
      BY <1>1, <1>2, <1>6 DEF StructuralSoFar
    <2>6. \A g \in FileSet : promise'[<<g, "structural">>] = "pending" =>
            step' = "batch" /\ g \in Batch \ reading'
      <3>1. \A g \in FileSet : <<g, "structural">> \in Tasks
        BY PassAssumption
      <3> QED BY <1>1, <1>2, <1>3, <1>4, <3>1 DEF StructuralSoFar
    <2> QED BY <1>2, <1>3, <2>1, <2>2, <2>3, <2>4, <2>5, <2>6 DEF StructuralSoFar
  <1>10. EnrichedSoFar' /\ EndSoFar' /\ ReportMatchesIndex'
    BY <1>1, <1>2, <1>3 DEF EnrichedSoFar, EndSoFar, ReportMatchesIndex
  <1> QED BY <1>5, <1>9, <1>10

\* The pool answers for a task of the batch; a structural analysis that failed ends its
\* file.
LEMMA SettleHolds ==
  ASSUME IInv, PassInv, step = "batch", NEW w \in Workers, ~Idle(w),
         \A t \in Tasks : promise'[t] = "pending" => promise[t] = "pending" /\ t # active[w],
         UNCHANGED <<outcome, fileStates>> \/ FailStructural(active[w]),
         deaths' \in 0 .. MaxDeaths, NextStep, UNCHANGED reading,
         UNCHANGED <<pass, cursor, submitting, prepared, processed, committed, phase,
                     partialRuns, indexDirty, index, staged, records, cancelled>>
  PROVE  PassInv'
  <1> USE DEF PassInv
  <1> DEFINE t == active[w]
  <1>1. t \in Tasks /\ promise[t] = "pending"
    BY DEF IInv, PoolInv, PoolTypes, TasksAreHeld, Idle
  <1>2. PICK f \in FileSet, p \in {"structural", "enriched"} : t = <<f, p>>
    BY <1>1, PassAssumption
  <1>3. /\ step' \in {"batch", "settled"}
        /\ step' # "batch" => reading' = {} /\ \A u \in Tasks : promise'[u] # "pending"
    BY NextStepFacts
  <1>4. /\ Batch' = Batch
        /\ \A g \in FileSet : <<g, "structural">> \in Tasks
    BY BatchStays, PassAssumption
  <1>5. UNCHANGED <<outcome, fileStates>>
        \/ /\ pass = "structural" /\ f \in Batch \ reading
           /\ outcome' = [outcome EXCEPT ![f] = "failed"]
           /\ fileStates' = [fileStates EXCEPT ![f] = "failed"]
    <2>1. CASE UNCHANGED <<outcome, fileStates>>
      BY <2>1
    <2>2. CASE FailStructural(t) /\ p # "structural"
      BY <1>2, <2>2 DEF FailStructural
    <2>3. CASE FailStructural(t) /\ p = "structural"
      <3>1. pass = "structural" /\ f \in Batch \ reading
        BY <1>1, <1>2, <2>3 DEF StructuralSoFar, EnrichedSoFar, PassTyped
      <3> QED BY <1>2, <2>3, <3>1 DEF FailStructural
    <2> QED BY <2>1, <2>2, <2>3
  <1> HIDE DEF t
  <1>6. PassTyped' /\ Injective(prepared)'
    <2>1. PassTyped /\ Injective(prepared)
      OBVIOUS
    <2>2. outcome' \in [FileSet -> Outcomes \cup {"none"}] /\ fileStates' \in [FileSet -> FileStates]
      BY <1>5 DEF PassTyped, Outcomes, FileStates
    <2> QED BY <1>3, <2>1, <2>2 DEF PassTyped, Running
  <1>7. CASE pass = "structural"
    <2>1. \A g \in FileSet : Sorted(g) => Sorted(g)'
      BY <1>5 DEF Sorted, IsPrepared, PassTyped
    <2>2. /\ Batch \subseteq FileSet
          /\ \A i \in DOMAIN Files : i < cursor => Files[i] \in FileSet /\ Files[i] \notin Batch
      BY <1>7, FilesFacts, BatchFacts DEF Loop, PassTyped
    <2>3. \A i \in DOMAIN Files :
            /\ Files[i] \in Range(prepared) <=> i < cursor /\ IsPrepared(Files[i])'
            /\ i < cursor => Sorted(Files[i])'
      BY <1>5, <1>7, <2>1, <2>2, FilesFacts DEF StructuralSoFar, IsPrepared, PassTyped
    <2>4. \A g \in Batch \ reading : Sorted(g)'
      BY <1>7, <2>1, <2>2 DEF StructuralSoFar
    <2>5. \A g \in reading : fileStates'[g] = "indexing"
      BY <1>5, <1>7 DEF StructuralSoFar, PassTyped
    <2>6. \A g \in FileSet : fileStates'[g] # "indexed"
      BY <1>5, <1>7 DEF StructuralSoFar, PassTyped
    <2>7. \A g \in FileSet : promise'[<<g, "structural">>] = "pending" =>
            step' = "batch" /\ g \in Batch \ reading
      BY <1>3, <1>4, <1>7 DEF StructuralSoFar
    <2>8. StructuralSoFar'
      BY <1>3, <1>4, <1>7, <2>3, <2>4, <2>5, <2>6, <2>7 DEF StructuralSoFar
    <2>9. EnrichedSoFar' /\ EndSoFar' /\ ReportMatchesIndex'
      BY <1>3, <1>7 DEF EnrichedSoFar, EndSoFar, ReportMatchesIndex
    <2> QED BY <1>6, <2>8, <2>9
  <1>8. CASE pass = "enriched"
    <2>1. UNCHANGED <<outcome, fileStates>>
      BY <1>5, <1>8
    <2>2. \A g \in FileSet : promise'[<<g, "structural">>] # "pending"
      BY <1>4, <1>8 DEF EnrichedSoFar
    <2>3. StructuralSoFar' /\ EnrichedSoFar'
      BY <1>3, <1>8, <2>1, <2>2 DEF StructuralSoFar, EnrichedSoFar, SkipsPublication
    <2>4. EndSoFar' /\ ReportMatchesIndex'
      BY <1>3 DEF EndSoFar, ReportMatchesIndex
    <2> QED BY <1>6, <2>3, <2>4
  <1> QED BY <1>7, <1>8 DEF PassTyped

\* Steps that change nothing of the pass but its token or where it waits.
LEMMA StillHolds ==
  ASSUME PassInv, UNCHANGED <<promise, pass, cursor, reading, submitting, outcome, prepared,
                              processed, committed, fileStates, phase, partialRuns,
                              indexDirty, index, staged, records>>,
         step' = step \/ (step = "yield" /\ step' = "loop"),
         deaths' \in 0 .. MaxDeaths, cancelled' \in BOOLEAN
  PROVE  PassInv'
  <1> USE DEF PassInv
  <1>1. Batch' = Batch
    BY BatchStays
  <1>2. PassTyped' /\ Injective(prepared)'
    BY DEF PassTyped, Running
  <1>3. StructuralSoFar'
    BY <1>1 DEF StructuralSoFar, Sorted, IsPrepared
  <1>4. EnrichedSoFar' /\ EndSoFar' /\ ReportMatchesIndex'
    BY DEF EnrichedSoFar, SkipsPublication, EndSoFar, ReportMatchesIndex, Shown
  <1> QED BY <1>2, <1>3, <1>4

LEMMA WorkerHolds ==
  ASSUME IInv, PassInv, NEW w \in Workers,
         (\E success \in BOOLEAN : WorkerAnswers(w, success)) \/ WorkerDies(w)
  PROVE  PassInv'
  <1>1. step \in {"batch", "yield"} /\ (~Idle(w) => step = "batch")
    <2>1. step \in {"batch", "yield"}
      BY DEF WorkerAnswers, WorkerDies, Awaiting
    <2>2. ~Idle(w) => active[w] \in Tasks /\ promise[active[w]] = "pending"
      BY DEF IInv, PoolInv, PoolTypes, TasksAreHeld, Idle
    <2> QED BY <2>1, <2>2 DEF IInv, PassWaits, Pending
  <1>2. promise \in [Tasks -> {"none", "pending", "resolved", "rejected"}]
        /\ active[w] \in Tasks \cup {NoTask}
    BY DEF IInv, PoolInv, PoolTypes
  <1>3. ASSUME NEW success \in BOOLEAN, WorkerAnswers(w, success) PROVE PassInv'
    <2>1. ~Idle(w) /\ deaths' = deaths
          /\ promise' = [promise EXCEPT ![active[w]] = IF success THEN "resolved" ELSE "rejected"]
      BY <1>3 DEF WorkerAnswers, Answer
    <2>2. \A t \in Tasks : promise'[t] = "pending" => promise[t] = "pending" /\ t # active[w]
      BY <1>2, <2>1
    <2>3. deaths' \in 0 .. MaxDeaths
      BY <2>1 DEF PassInv, PassTyped
    <2>4. /\ UNCHANGED <<outcome, fileStates>> \/ FailStructural(active[w])
          /\ NextStep /\ UNCHANGED reading
          /\ UNCHANGED <<pass, cursor, submitting, prepared, processed, committed, phase,
                         partialRuns, indexDirty, index, staged, records, cancelled>>
      BY <1>3 DEF WorkerAnswers
    <2> QED BY <1>1, <2>1, <2>2, <2>3, <2>4, SettleHolds
  <1>4. ASSUME WorkerDies(w) PROVE PassInv'
    <2>1. deaths' \in 0 .. MaxDeaths /\ promise' = RejectTaskOf(w)
      BY <1>4, PoolAssumption DEF WorkerDies, Die, PassInv, PassTyped
    <2>2. UNCHANGED <<pass, cursor, submitting, prepared, processed, committed, phase,
                      partialRuns, indexDirty, index, staged, records, cancelled>>
      BY <1>4 DEF WorkerDies
    <2>3. CASE Idle(w)
      <3>1. promise' = promise /\ UNCHANGED <<outcome, fileStates, reading, step>>
        BY <1>4, <2>1, <2>3 DEF WorkerDies, RejectTaskOf
      <3>2. /\ UNCHANGED <<promise, pass, cursor, reading, submitting, outcome, prepared,
                          processed, committed, fileStates, phase, partialRuns,
                          indexDirty, index, staged, records>>
            /\ step' = step \/ (step = "yield" /\ step' = "loop")
        BY <2>2, <3>1
      <3>3. cancelled' \in BOOLEAN
        BY <2>2 DEF PassInv, PassTyped
      <3> QED BY <2>1, <3>2, <3>3, StillHolds
    <2>4. CASE ~Idle(w)
      <3>1. \A t \in Tasks : promise'[t] = "pending" => promise[t] = "pending" /\ t # active[w]
        BY <1>2, <2>1, <2>4 DEF RejectTaskOf
      <3>2. FailStructural(active[w]) /\ UNCHANGED reading /\ NextStep
        BY <1>4, <2>4 DEF WorkerDies
      <3> QED BY <1>1, <2>1, <2>2, <2>4, <3>1, <3>2, SettleHolds
    <2> QED BY <2>3, <2>4
  <1> QED BY <1>3, <1>4

\* The files of a batch that go on join those prepared before.
LEMMA EndStructuralHolds == ASSUME PassInv, EndStructuralBatch PROVE PassInv'
  <1> USE DEF PassInv
  <1> DEFINE I == {i \in BatchPositions : IsPrepared(Files[i])}
             new == Subsequence(Files, I)
  <1>1. /\ step = "settled" /\ pass = "structural" /\ step' \in {"loop", "yield"}
        /\ prepared' = prepared \o new /\ cursor' = cursor + BatchSize
        /\ UNCHANGED <<poolVars, pass, reading, submitting, outcome, processed, committed,
                       fileStates, phase, partialRuns, indexDirty, index, staged, records,
                       cancelled>>
    BY DEF EndStructuralBatch
  <1>2. /\ Files \in Seq(FileSet) /\ Injective(Files) /\ Loop = Files
        /\ I \in SUBSET DOMAIN Files
    BY <1>1, FilesFacts DEF Loop, BatchPositions
  <1>3. /\ new \in Seq(FileSet) /\ Injective(new)
        /\ \A n \in DOMAIN new : \E i \in I : new[n] = Files[i]
        /\ \A i \in I : \E n \in DOMAIN new : new[n] = Files[i]
    BY <1>2, SubsequenceFacts
  <1>4. \A i \in DOMAIN Files : i \in I <=>
          i >= cursor /\ i < cursor + BatchSize /\ IsPrepared(Files[i])
    BY <1>2 DEF BatchPositions
  <1>5. \A i \in DOMAIN Files : i \in Nat /\ Files[i] \in FileSet
    BY FilesFacts
  <1>6. cursor \in Nat \ {0} /\ cursor' \in Nat \ {0} /\ BatchSize \in Nat
    BY <1>1, PassAssumption DEF PassTyped
  <1>7. \A i \in DOMAIN Files : Files[i] \in Batch <=> i >= cursor /\ i < cursor + BatchSize
    BY <1>2, BatchFacts
  <1> HIDE DEF new, I
  <1>8. \A i \in DOMAIN Files : Files[i] \in Range(new) <=> i \in I
    <2> TAKE i \in DOMAIN Files
    <2>1. ASSUME i \in I PROVE Files[i] \in Range(new)
      BY <1>3, <2>1 DEF Range
    <2>2. ASSUME Files[i] \in Range(new) PROVE i \in I
      <3>1. PICK n \in DOMAIN new : new[n] = Files[i]
        BY <2>2 DEF Range
      <3>2. PICK k \in I : new[n] = Files[k]
        BY <1>3
      <3> QED BY <1>2, <3>1, <3>2 DEF Injective
    <2> QED BY <2>1, <2>2
  <1>9. \A i \in DOMAIN Files : Files[i] \in Range(prepared) <=> i < cursor /\ IsPrepared(Files[i])
    BY <1>1 DEF StructuralSoFar
  <1>10. Range(prepared) \cap Range(new) = {}
    <2>1. SUFFICES ASSUME NEW f \in Range(prepared), f \in Range(new) PROVE FALSE
      OBVIOUS
    <2>2. PICK i \in DOMAIN Files : Files[i] = f
      <3>1. \A n \in DOMAIN new : new[n] \in FileSet
        BY <1>3
      <3>2. f \in FileSet
        BY <2>1, <3>1 DEF Range
      <3> QED BY <3>2, FilesFacts
    <2> QED BY <1>4, <1>5, <1>6, <1>8, <1>9, <2>1, <2>2
  <1>11. /\ prepared' \in Seq(FileSet) /\ Injective(prepared')
         /\ Range(prepared') = Range(prepared) \cup Range(new)
    BY <1>1, <1>3, <1>10, ConcatFacts DEF PassTyped
  <1>12. PassTyped' /\ Injective(prepared)'
    BY <1>1, <1>6, <1>11 DEF PassTyped, Running, poolVars
  <1>13. \A i \in DOMAIN Files :
           /\ Files[i] \in Range(prepared') <=> i < cursor' /\ IsPrepared(Files[i])
           /\ i < cursor' => Sorted(Files[i])
    <2>1. TAKE i \in DOMAIN Files
    <2>2. Files[i] \in Range(prepared') <=> i < cursor' /\ IsPrepared(Files[i])
      BY <1>1, <1>4, <1>5, <1>6, <1>8, <1>9, <1>11
    <2>3. i < cursor \/ Files[i] \in Batch \/ ~(i < cursor')
      BY <1>1, <1>5, <1>6, <1>7
    <2>4. i < cursor' => Sorted(Files[i])
      BY <1>1, <2>3 DEF StructuralSoFar
    <2> QED BY <2>2, <2>4
  <1>14. StructuralSoFar'
    <2>1. /\ records' = {} /\ staged' = NoBatch /\ reading' = {}
          /\ \A f \in FileSet : index'[f] = "before" /\ fileStates'[f] # "indexed"
          /\ \A f \in FileSet : promise'[<<f, "structural">>] # "pending"
      BY <1>1 DEF StructuralSoFar, poolVars
    <2>2. \A i \in DOMAIN Files :
            /\ Files[i] \in Range(prepared') <=> i < cursor' /\ IsPrepared(Files[i])'
            /\ i < cursor' => Sorted(Files[i])'
      BY <1>1, <1>13 DEF IsPrepared, Sorted
    <2> QED BY <1>1, <2>1, <2>2 DEF StructuralSoFar
  <1>15. EnrichedSoFar' /\ EndSoFar' /\ ReportMatchesIndex'
    BY <1>1 DEF EnrichedSoFar, EndSoFar, ReportMatchesIndex
  <1> QED BY <1>12, <1>14, <1>15

\* Between the passes every file is sorted, and nothing is enriched yet.
LEMMA PublishStructuralHolds == ASSUME PassInv, PublishStructural PROVE PassInv'
  <1> USE DEF PassInv
  <1> DEFINE changed == {f \in Range(prepared) : ~SkipsPublication(f)}
  <1>1. /\ step = "loop" /\ pass = "structural" /\ cursor > Len(Files)
        /\ index' = [f \in FileSet |-> IF f \in changed THEN "structural" ELSE index[f]]
        /\ staged' = IF changed = {} THEN NoBatch ELSE {}
        /\ pass' = "enriched" /\ phase' = "enriched" /\ cursor' = 1
        /\ UNCHANGED <<poolVars, step, reading, submitting, outcome, prepared, processed,
                       committed, fileStates, partialRuns, indexDirty, records, cancelled>>
    BY DEF PublishStructural
  <1>2. \A i \in DOMAIN Files :
          Sorted(Files[i]) /\ (Files[i] \in Range(prepared) <=> IsPrepared(Files[i]))
    <2>1. \A i \in DOMAIN Files : i < cursor
      BY <1>1, FilesFacts DEF PassTyped
    <2> QED BY <1>1, <2>1 DEF StructuralSoFar
  <1>3. \A f \in FileSet : Sorted(f) /\ (f \in Range(prepared) <=> IsPrepared(f))
    BY <1>2, FilesFacts
  <1>4. \A f \in FileSet : IF f \in Range(prepared) THEN fileStates[f] = "indexing"
                                                   ELSE fileStates[f] \in {"skipped", "failed"}
    BY <1>3 DEF Sorted, IsPrepared
  <1>5. \A i \in DOMAIN prepared : prepared[i] \in FileSet /\ prepared[i] \in Range(prepared)
                                 /\ i \in Nat /\ ~(i < 1)
    BY DEF PassTyped, Range
  <1>6. \A f \in FileSet : index[f] = "before" /\ fileStates[f] # "indexed"
    BY <1>1 DEF StructuralSoFar
  <1>7. records = {} /\ reading = {} /\ \A f \in FileSet : promise[<<f, "structural">>] # "pending"
    BY <1>1 DEF StructuralSoFar
  <1>8. changed = {} => \A f \in Range(prepared) : SkipsPublication(f)
    OBVIOUS
  <1> HIDE DEF changed
  <1>9. PassTyped' /\ Injective(prepared)'
    BY <1>1, <1>6 DEF PassTyped, poolVars
  <1>10. EnrichedSoFar'
    <2>1. \A f \in FileSet : index'[f] # "enriched"
      BY <1>1, <1>6
    <2>2. IF staged' = NoBatch THEN \A f \in Range(prepared) : SkipsPublication(f)
                               ELSE staged' = records
      <3>1. CASE changed = {}
        BY <1>1, <1>8, <3>1
      <3>2. CASE changed # {}
        BY <1>1, <1>7, <3>2, PassAssumption
      <3> QED BY <3>1, <3>2
    <2>3. records = {f \in FileSet : fileStates[f] = "indexed" /\ ~SkipsPublication(f)}
      BY <1>6, <1>7
    <2> QED BY <1>1, <1>4, <1>5, <1>7, <2>1, <2>2, <2>3 DEF EnrichedSoFar, SkipsPublication, poolVars
  <1>11. StructuralSoFar' /\ EndSoFar' /\ ReportMatchesIndex'
    BY <1>1 DEF StructuralSoFar, EndSoFar, ReportMatchesIndex
  <1> QED BY <1>9, <1>10, <1>11

LEMMA StartEnrichedHolds == ASSUME PassInv, StartEnrichedBatch PROVE PassInv'
  <1>1. CASE cancelled
    BY <1>1, GiveUpHolds DEF StartEnrichedBatch, Loop
  <1>2. CASE ~cancelled
    <2> USE DEF PassInv
    <2> DEFINE I == {i \in BatchPositions : NeedsWorker(prepared[i])}
    <2>1. /\ step = "loop" /\ pass = "enriched" /\ step' = "submit"
          /\ submitting' = Subsequence(prepared, I)
          /\ UNCHANGED <<poolVars, pass, cursor, reading, outcome, prepared, processed,
                         committed, fileStates, phase, partialRuns, indexDirty, index, staged,
                         records, cancelled>>
      BY <1>2 DEF StartEnrichedBatch
    <2>2. I \in SUBSET DOMAIN prepared
      BY <2>1 DEF BatchPositions, Loop
    <2> HIDE DEF I
    <2>3. submitting' \in Seq(FileSet)
      BY <2>1, <2>2, SubsequenceFacts DEF PassTyped
    <2>4. PassTyped' /\ Injective(prepared)'
      BY <2>1, <2>3 DEF PassTyped, Running, poolVars
    <2>5. StructuralSoFar' /\ EnrichedSoFar' /\ EndSoFar' /\ ReportMatchesIndex'
      BY <2>1 DEF StructuralSoFar, EnrichedSoFar, SkipsPublication, EndSoFar,
                  ReportMatchesIndex, poolVars
    <2> QED BY <2>4, <2>5
  <1> QED BY <1>1, <1>2

LEMMA SubmitHolds == ASSUME IInv, PassInv, Submit PROVE PassInv'
  <1> USE DEF PassInv
  <1>1. /\ step = "submit" /\ step' \in {"submit", "batch", "settled"}
        /\ reading' = reading /\ submitting' \in Seq(FileSet)
        /\ UNCHANGED <<pass, cursor, outcome, prepared, processed, committed, fileStates,
                       phase, partialRuns, indexDirty, index, staged, records, cancelled>>
    <2>1. CASE submitting = <<>>
      BY <2>1, NextStepFacts DEF Submit, PassTyped
    <2>2. CASE submitting # <<>>
      <3>1. Tail(submitting) \in Seq(FileSet)
        BY <2>2, ShiftQueue DEF PassTyped
      <3>2. submitting' = Tail(submitting) /\ reading' = reading /\ step' = step /\ step = "submit"
        BY <2>2 DEF Submit
      <3> QED BY <3>1, <3>2 DEF Submit
    <2> QED BY <2>1, <2>2
  <1>2. /\ deaths' = deaths
        /\ \A f \in FileSet : promise'[<<f, "structural">>] = "pending" =>
             promise[<<f, "structural">>] = "pending"
    <2>1. CASE submitting = <<>>
      BY <2>1 DEF Submit, poolVars
    <2>2. CASE submitting # <<>>
      <3> DEFINE h == Head(submitting)
      <3>1. promise' = [promise EXCEPT ![<<h, "enriched">>] = "pending"] /\ deaths' = deaths
        BY <2>2 DEF Submit, RunTask
      <3>2. \A f \in FileSet : <<f, "structural">> \in Tasks /\ <<f, "structural">> # <<h, "enriched">>
        BY PassAssumption
      <3> HIDE DEF h
      <3> QED BY <3>1, <3>2 DEF IInv, PoolInv, PoolTypes
    <2> QED BY <2>1, <2>2
  <1>3. PassTyped' /\ Injective(prepared)'
    BY <1>1, <1>2 DEF PassTyped, Running
  <1>4. pass = "enriched"
    BY <1>1 DEF PassTyped, StructuralSoFar
  <1>5. StructuralSoFar' /\ EnrichedSoFar' /\ EndSoFar' /\ ReportMatchesIndex'
    BY <1>1, <1>2, <1>4 DEF StructuralSoFar, EnrichedSoFar, SkipsPublication, EndSoFar,
                            ReportMatchesIndex
  <1> QED BY <1>3, <1>5

\* The files of a batch have their results, and those with a new one are written.
LEMMA EndEnrichedHolds == ASSUME PassInv, EndEnrichedBatch PROVE PassInv'
  <1> USE DEF PassInv
  <1> DEFINE written == {f \in Batch : ~SkipsPublication(f) /\ ~Failed(f)}
  <1>1. /\ step = "settled" /\ pass = "enriched" /\ step' \in {"loop", "yield"}
        /\ staged' = IF written = {} THEN staged ELSE staged \cup written
        /\ records' = records \cup written
        /\ fileStates' = [f \in FileSet |-> IF f \in Batch THEN StateAfter(f) ELSE fileStates[f]]
        /\ processed' = processed + Cardinality(Batch) /\ cursor' = cursor + BatchSize
        /\ UNCHANGED <<poolVars, pass, reading, submitting, outcome, prepared, committed, phase,
                       partialRuns, indexDirty, index, cancelled>>
    BY DEF EndEnrichedBatch
  <1>2. /\ Loop = prepared /\ DOMAIN prepared = 1 .. Len(prepared) /\ Batch \subseteq FileSet
        /\ \A i \in DOMAIN prepared :
             prepared[i] \in Batch <=> i >= cursor /\ i < cursor + BatchSize
        /\ Cardinality(Batch) \in Nat
        /\ Batch # {} => Cardinality(Batch) > 0
    BY <1>1, BatchFacts DEF Loop
  <1>3. \A f \in Batch : \E i \in DOMAIN prepared : prepared[i] = f /\ i >= cursor
    BY <1>2 DEF Batch, BatchPositions
  <1>4. cursor \in Nat \ {0} /\ cursor' \in Nat \ {0} /\ BatchSize \in Nat /\ processed \in Nat
    BY <1>1, PassAssumption DEF PassTyped
  <1>5. \A f \in Batch : f \in Range(prepared) /\ fileStates[f] = "indexing"
    <2>1. \A i \in DOMAIN prepared : i >= cursor => ~(i < cursor) /\ fileStates[prepared[i]] = "indexing"
      BY <1>1, <1>2, <1>4 DEF EnrichedSoFar
    <2> QED BY <1>3, <2>1 DEF Range
  <1>6. written \subseteq Batch /\ \A f \in Batch : f \in written <=>
          ~SkipsPublication(f) /\ StateAfter(f) = "indexed"
    BY DEF StateAfter
  <1>7. \A f \in FileSet : StateAfter(f) \in {"indexed", "failed"}
    BY DEF StateAfter
  <1> HIDE DEF written
  <1>8. records' = {f \in FileSet : fileStates'[f] = "indexed" /\ ~SkipsPublication(f)}
    <2>1. records = {f \in FileSet : fileStates[f] = "indexed" /\ ~SkipsPublication(f)}
      BY <1>1 DEF EnrichedSoFar
    <2> QED BY <1>1, <1>2, <1>5, <1>6, <2>1
  <1>9. processed' \in Nat /\ (records' # {} => processed' > 0)
    <2>1. records # {} => processed > 0
      BY <1>1 DEF EnrichedSoFar
    <2>2. written # {} => Cardinality(Batch) > 0
      BY <1>2, <1>6
    <2>3. records' # {} => records # {} \/ written # {}
      BY <1>1
    <2>4. processed' = processed + Cardinality(Batch)
      BY <1>1
    <2> QED BY <1>2, <1>4, <2>1, <2>2, <2>3, <2>4
  <1>10. IF staged' = NoBatch THEN \A f \in Range(prepared) : SkipsPublication(f)
                              ELSE staged' = records'
    <2>1. CASE staged = NoBatch
      <3>1. \A f \in Range(prepared) : SkipsPublication(f)
        BY <1>1, <2>1 DEF EnrichedSoFar
      <3>2. written = {}
        BY <1>5, <1>6, <3>1
      <3> QED BY <1>1, <2>1, <3>1, <3>2
    <2>2. CASE staged # NoBatch
      <3>1. staged = records
        BY <1>1, <2>2 DEF EnrichedSoFar
      <3>2. staged' = records' /\ records' \in SUBSET FileSet
        BY <1>1, <1>8, <3>1
      <3> QED BY <3>2, PassAssumption
    <2> QED BY <2>1, <2>2
  <1>11. ASSUME NEW i \in DOMAIN prepared
         PROVE  fileStates'[prepared[i]] \in
                  IF i < cursor' THEN {"indexed", "failed"} ELSE {"indexing"}
    <2>1. /\ prepared[i] \in FileSet /\ i \in Nat
          /\ fileStates[prepared[i]] \in IF i < cursor THEN {"indexed", "failed"} ELSE {"indexing"}
      BY <1>1, <1>2 DEF EnrichedSoFar, PassTyped
    <2>2. fileStates'[prepared[i]] = IF i >= cursor /\ i < cursor' THEN StateAfter(prepared[i])
                                     ELSE fileStates[prepared[i]]
      BY <1>1, <1>2, <2>1
    <2> QED BY <1>1, <1>4, <1>7, <2>1, <2>2
  <1>12. \A f \in FileSet : f \notin Range(prepared) => fileStates'[f] \in {"skipped", "failed"}
    BY <1>1, <1>5 DEF EnrichedSoFar
  <1>13. PassTyped' /\ Injective(prepared)'
    <2>1. fileStates' \in [FileSet -> FileStates] /\ records' \subseteq FileSet
      BY <1>1, <1>7, <1>8 DEF PassTyped, FileStates
    <2>2. staged' = NoBatch \/ staged' \subseteq FileSet
      BY <1>10, <2>1
    <2> QED BY <1>1, <1>4, <1>9, <2>1, <2>2 DEF PassTyped, Running, poolVars
  <1>14. EnrichedSoFar'
    BY <1>1, <1>8, <1>9, <1>10, <1>11, <1>12 DEF EnrichedSoFar, SkipsPublication, poolVars
  <1>15. StructuralSoFar' /\ EndSoFar' /\ ReportMatchesIndex'
    BY <1>1 DEF StructuralSoFar, EndSoFar, ReportMatchesIndex
  <1> QED BY <1>13, <1>14, <1>15

LEMMA EndPassHolds == ASSUME PassInv, EndEnrichedPass PROVE PassInv'
  <1> USE DEF PassInv
  <1>1. /\ step = "loop" /\ pass = "enriched" /\ cursor > Len(prepared) /\ step' = "finish"
        /\ \/ UNCHANGED <<committed, phase, indexDirty>>
           \/ committed' = TRUE /\ phase' = "ready" /\ indexDirty' = FALSE
        /\ UNCHANGED <<poolVars, pass, cursor, reading, submitting, outcome, prepared,
                       processed, fileStates, partialRuns, index, staged, records, cancelled>>
    BY DEF EndEnrichedPass
  <1>2. PassTyped' /\ Injective(prepared)'
    BY <1>1 DEF PassTyped, Running, poolVars
  <1>3. StructuralSoFar' /\ EnrichedSoFar' /\ EndSoFar' /\ ReportMatchesIndex'
    BY <1>1 DEF StructuralSoFar, EnrichedSoFar, SkipsPublication, EndSoFar,
                ReportMatchesIndex, poolVars
  <1> QED BY <1>2, <1>3

\* The batch of the index that is open holds what was written, and is published unless
\* nothing was processed.
LEMMA FinishHolds == ASSUME PassInv, Finish PROVE PassInv'
  <1> USE DEF PassInv
  <1>1. /\ step = "finish" /\ step' = "ended" /\ staged' = NoBatch
        /\ index' = [f \in FileSet |-> IF f \in Commits THEN "enriched" ELSE index[f]]
        /\ UNCHANGED <<promise, deaths, pass, cursor, reading, submitting, outcome, prepared,
                       processed, committed, fileStates, phase, partialRuns, indexDirty,
                       records, cancelled>>
    BY DEF Finish, Terminate
  <1>2. Batch' = Batch
    BY <1>1, BatchStays
  <1>3. PassTyped' /\ Injective(prepared)'
    BY <1>1 DEF PassTyped, Running
  <1>4. CASE pass = "structural"
    <2>1. Commits = {}
      BY <1>4 DEF StructuralSoFar, Commits
    <2>2. \A f \in FileSet : index'[f] = "before" /\ fileStates[f] # "indexed"
      BY <1>1, <1>4, <2>1 DEF StructuralSoFar
    <2>3. StructuralSoFar'
      BY <1>1, <1>2, <1>4, <2>2 DEF StructuralSoFar, Sorted, IsPrepared
    <2>4. EnrichedSoFar' /\ EndSoFar'
      BY <1>1, <1>4 DEF EnrichedSoFar, EndSoFar
    <2>5. ReportMatchesIndex'
      BY <1>1, <1>4, <2>2 DEF ReportMatchesIndex, EndSoFar, StructuralSoFar
    <2> QED BY <1>3, <2>3, <2>4, <2>5
  <1>5. CASE pass = "enriched"
    <2>1. StructuralSoFar' /\ EnrichedSoFar' /\ EndSoFar'
      BY <1>1, <1>5 DEF StructuralSoFar, EnrichedSoFar, SkipsPublication, EndSoFar
    <2>2. ASSUME phase = "ready", NEW f \in FileSet
          PROVE  fileStates[f] \in {"indexed", "skipped", "failed"}
      <3>1. \A i \in DOMAIN prepared : i < cursor
        BY <2>2 DEF EndSoFar, PassTyped
      <3>2. \A i \in DOMAIN prepared : fileStates[prepared[i]] \in {"indexed", "failed"}
        BY <1>5, <3>1 DEF EnrichedSoFar
      <3> QED BY <1>5, <3>2 DEF EnrichedSoFar, Range
    <2>3. ASSUME phase \in {"ready", "partial"} PROVE Commits = records
      <3>1. CASE staged = NoBatch
        <4>1. \A f \in FileSet : fileStates[f] = "indexed" => SkipsPublication(f)
          BY <1>1, <1>5, <3>1 DEF EnrichedSoFar
        <4>2. records = {}
          BY <1>5, <4>1 DEF EnrichedSoFar
        <4> QED BY <3>1, <4>2 DEF Commits
      <3>2. CASE staged # NoBatch
        <4>1. staged = records /\ (records # {} => committed)
          BY <1>1, <1>5, <2>3, <3>2 DEF EnrichedSoFar, EndSoFar
        <4> QED BY <3>2, <4>1 DEF Commits
      <3> QED BY <3>1, <3>2
    <2>4. /\ records = {f \in FileSet : fileStates[f] = "indexed" /\ ~SkipsPublication(f)}
          /\ \A f \in FileSet : index[f] # "enriched"
      BY <1>1, <1>5 DEF EnrichedSoFar
    <2>5. ASSUME phase \in {"ready", "partial"}, NEW f \in FileSet
          PROVE  index'[f] = "enriched" <=> f \in records
      BY <1>1, <2>3, <2>4, <2>5
    <2>6. ReportMatchesIndex'
      BY <1>1, <2>2, <2>4, <2>5 DEF ReportMatchesIndex, Shown, SkipsPublication
    <2> QED BY <1>3, <2>1, <2>6
  <1> QED BY <1>4, <1>5 DEF PassTyped

LEMMA PassNextHolds == IInv /\ PassInv /\ [Next]_vars => PassInv'
  <1> SUFFICES ASSUME IInv, PassInv, [Next]_vars PROVE PassInv'
    OBVIOUS
  <1>1. CASE PassSteps
    <2>1. CASE Resume
      BY <2>1, StillHolds DEF Resume, poolVars, PassInv, PassTyped
    <2> QED BY <1>1, <2>1, StartStructuralHolds, EndStructuralHolds, PublishStructuralHolds,
               StartEnrichedHolds, SubmitHolds, EndEnrichedHolds, EndPassHolds, FinishHolds
            DEF PassSteps
  <1>2. ASSUME NEW f \in FileSet, NEW o \in Outcomes, ReadFile(f, o) PROVE PassInv'
    BY <1>2, ReadHolds
  <1>3. ASSUME NEW w \in Workers,
               (\E success \in BOOLEAN : WorkerAnswers(w, success)) \/ WorkerDies(w)
        PROVE  PassInv'
    BY <1>3, WorkerHolds
  <1>4. CASE Cancel
    BY <1>4, StillHolds DEF Cancel, poolVars, PassInv, PassTyped
  <1>5. CASE UNCHANGED vars
    BY <1>5, StillHolds DEF vars, poolVars, passVars, PassInv, PassTyped
  <1> QED BY <1>1, <1>2, <1>3, <1>4, <1>5 DEF Next

LEMMA PassInvariance == Spec => [](IInv /\ PassInv)
  BY Invariance, PassInitHolds, PassNextHolds, PTL DEF Spec

\* Every variable of the pool and of the pass has its type.
THEOREM PassTypes == Spec => []TypeOK
  BY PassInvariance, Typed, PTL

\* When the indexer says "ready" every file came to an end, and, "ready" or "partial", the
\* files it calls indexed are those the index shows with their enriched facts, whichever
\* workers die and whenever the pass is cancelled.
THEOREM ReportAlwaysMatchesIndex == Spec => []ReportMatchesIndex
  <1>1. PassInv => ReportMatchesIndex
    BY DEF PassInv
  <1> QED BY <1>1, PassInvariance, PTL
=============================================================================
