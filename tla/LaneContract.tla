---------------------------- MODULE LaneContract ----------------------------
(***************************************************************************)
(* What the scheduler promises to the code that submits tasks, with no     *)
(* queue, no slot and no drain loop: the life of every task, and which     *)
(* bodies may be live together.  A body is live while it runs and has not  *)
(* been asked to stop; "preempted" is a body that runs on after it has.    *)
(*                                                                         *)
(*   new --> queued --> live --> preempted --> ended                       *)
(*    |         |         |                      ^                         *)
(*    |         |         +----------------------+                         *)
(*    |         +--> rejected (cancelled while queued)                     *)
(*    +--> live (an interactive task)                                      *)
(***************************************************************************)
CONSTANTS InteractiveTasks, NearTasks, BackgroundTasks, Preemptible

Tasks == InteractiveTasks \cup NearTasks \cup BackgroundTasks

VARIABLE status

Statuses == {"new", "queued", "live", "preempted", "ended", "rejected"}

\* An interactive task is never queued and never preempted; a background
\* task that is not preemptible is cancelled only by a manual cancellation,
\* which the contract does not tell from a preemption.
Moves(t) ==
  IF t \in InteractiveTasks
  THEN {<<"new", "live">>, <<"live", "ended">>}
  ELSE {<<"new", "queued">>, <<"queued", "live">>, <<"queued", "rejected">>,
        <<"live", "preempted">>, <<"live", "ended">>,
        <<"preempted", "ended">>}

Live(st, ts) == {t \in ts : st[t] = "live"}

\* The lanes: one live body each in Near and Background, and no preemptible
\* body is live beside one of a higher lane.
Compatible(st) ==
  /\ \A t, u \in Live(st, NearTasks) : t = u
  /\ \A t, u \in Live(st, BackgroundTasks) : t = u
  /\ Live(st, InteractiveTasks) # {} =>
       Live(st, NearTasks \cup Preemptible) = {}
  /\ Live(st, NearTasks) # {} => Live(st, Preemptible) = {}

\* Background work starts only when no higher lane has work, queued or live.
StartsInTurn(st, next) ==
  (\E t \in BackgroundTasks : st[t] # "live" /\ next[t] = "live")
     => /\ Live(next, InteractiveTasks \cup NearTasks) = {}
        /\ \A t \in NearTasks : next[t] # "queued"

Init == status = [t \in Tasks |-> "new"]

Step ==
  /\ status' \in [Tasks -> Statuses]
  /\ \A t \in Tasks : \/ status'[t] = status[t]
                      \/ <<status[t], status'[t]>> \in Moves(t)
  /\ Compatible(status')
  /\ StartsInTurn(status, status')

Spec == Init /\ [][Step]_status
=============================================================================
