----------------------------- MODULE WorkerPool -----------------------------
(***************************************************************************)
(* The pool of analysis workers, src/server/indexer/workerPool.ts: a list  *)
(* of workers, the tasks they are busy with, a queue.  A handler of a      *)
(* worker's event runs to its end; so does a call of runTask().            *)
(*                                                                         *)
(* A worker (src/server/indexer/worker.ts) answers every task, with a      *)
(* result or an error, unless it dies of an error nobody catches (memory,  *)
(* a script that does not load).  The worker that replaces it takes over   *)
(* its name here: one that died sends nothing more.  The exit event is     *)
(* only logged and changes nothing.                                        *)
(***************************************************************************)
EXTENDS Naturals, Sequences, FiniteSets, SequencesExt

CONSTANTS
  Workers,      \* names of the workers, as many as the size of the pool
  Tasks,        \* every task is submitted at most once
  NoTask,       \* the worker is idle
  MaxDeaths     \* bound on the workers that die

ASSUME PoolAssumption ==
  /\ IsFiniteSet(Workers) /\ Workers # {}
  /\ NoTask \notin Tasks
  /\ MaxDeaths \in Nat

VARIABLES
  workers,      \* this.workers
  active,       \* activeTasks, NoTask where the map has no entry
  queue,        \* taskQueue
  promise,      \* of every task: "none", "pending", "resolved", "rejected"
  deaths

poolVars == <<workers, active, queue, promise, deaths>>

Idle(w) == active[w] = NoTask

\* processNextTask()
ProcessNextTask(w, a, q) ==
  IF q = <<>>
  THEN active' = a /\ queue' = q
  ELSE active' = [a EXCEPT ![w] = Head(q)] /\ queue' = Tail(q)

FirstIdle(w) ==
  \E i \in DOMAIN workers :
    /\ workers[i] = w /\ Idle(w)
    /\ \A j \in 1 .. (i - 1) : ~Idle(workers[j])

\* Mutant: a task waits for a worker to end another one.
QueueTask(t) ==
  /\ t \in Tasks /\ promise[t] = "none"
  /\ promise' = [promise EXCEPT ![t] = "pending"]
  /\ queue' = Append(queue, t)
  /\ UNCHANGED <<workers, active, deaths>>

\* runTask(): the first idle worker of the list takes the head of the queue.
RunTask(t) ==
  /\ t \in Tasks /\ promise[t] = "none"
  /\ promise' = [promise EXCEPT ![t] = "pending"]
  /\ \/ \E w \in Workers :
          FirstIdle(w) /\ ProcessNextTask(w, active, Append(queue, t))
     \/ /\ \A i \in DOMAIN workers : ~Idle(workers[i])
        /\ queue' = Append(queue, t) /\ UNCHANGED active
  /\ UNCHANGED <<workers, deaths>>

\* The handler of "message": success or failure of the task the worker has.
Answer(w, success) ==
  /\ ~Idle(w)
  /\ promise' = [promise EXCEPT ![active[w]] =
                   IF success THEN "resolved" ELSE "rejected"]
  /\ ProcessNextTask(w, [active EXCEPT ![w] = NoTask], queue)
  /\ UNCHANGED <<workers, deaths>>

\* Mutant: a worker that dies takes the promise of its task along.
Forsake(w) == promise

\* The promises after the task of a worker that died is rejected.
RejectTaskOf(w) ==
  IF Idle(w) THEN promise ELSE [promise EXCEPT ![active[w]] = "rejected"]

\* The handler of "error": a replacement joins at the end of the list and
\* takes the next task.
Die(w) ==
  /\ deaths < MaxDeaths
  /\ \E i \in DOMAIN workers :
       /\ workers[i] = w
       /\ workers' = Append(RemoveAt(workers, i), w)
  /\ promise' = RejectTaskOf(w)
  /\ ProcessNextTask(w, [active EXCEPT ![w] = NoTask], queue)
  /\ deaths' = deaths + 1

\* terminate(): tasks in flight and in the queue are left as they are.
Terminate ==
  /\ workers' = <<>>
  /\ UNCHANGED <<active, queue, promise, deaths>>

PoolInit ==
  /\ workers \in {s \in [1 .. Cardinality(Workers) -> Workers] :
                    \A i, j \in DOMAIN s : s[i] = s[j] => i = j}
  /\ active = [w \in Workers |-> NoTask]
  /\ queue = <<>>
  /\ promise = [t \in Tasks |-> "none"]
  /\ deaths = 0
=============================================================================
