------------------------------ MODULE TaskBridge ------------------------------
(***************************************************************************)
(* The way of one call from a client through Celery and back.  The client  *)
(* sends a task and waits in turns: it looks whether the result is ready,  *)
(* then blocks on the completion event of the task for at most one chunk   *)
(* of time.  The worker that takes the task stores the result first and    *)
(* pushes the event afterwards, from a signal handler; the message is      *)
(* acknowledged at the very end, so a lost worker's task is taken again.   *)
(*                                                                         *)
(* What the task does meanwhile is the business of the module that extends *)
(* this one: it brings the worker from "body" to "store".                  *)
(***************************************************************************)
EXTENDS Naturals

CONSTANTS Tasks, Workers,
          Chunks,      \* time to wait, in chunks of NOTIFY_CHUNK_SECONDS
          MaxFaults,   \* bound: lost workers, failed Redis calls, hard time limits
          NoTask

ASSUME BridgeAssumption == Chunks \in Nat /\ MaxFaults \in Nat /\ NoTask \notin Tasks

VARIABLES patient,   \* the tasks sent with the header bridge_wait
          wait,      \* the client of each task
          left,      \* chunks before its deadline
          queue,     \* tasks in the broker
          at, task,  \* the stage of each worker and its task
          waiters,   \* _bridge_waiters of each worker process
          outcome,   \* what the worker is about to store
          backend,   \* the result in the Celery backend
          event,     \* completion events in the Redis list of the task
          faults,
          cause      \* tasks whose event was lost to a fault

bridgeVars == <<patient, wait, left, queue, at, task, waiters, outcome, backend, event, faults, cause>>
clientVars == <<patient, wait, left>>
workerVars == <<queue, at, task, waiters, outcome, backend, cause>>

Waits == {"idle", "gone", "look", "block", "last", "success", "failure", "timeout"}
Over == {"success", "failure", "timeout"}
Stages == {"free", "body", "store", "notify", "ack"}
Outcomes == {"success", "failure"}

Ready(t) == backend[t] # "pending"
Step(f, x, v) == [f EXCEPT ![x] = v]
Fault == faults < MaxFaults /\ faults' = faults + 1

BridgeInit == /\ patient \in SUBSET Tasks
              /\ wait = [t \in Tasks |-> "idle"]
              /\ left = [t \in Tasks |-> Chunks]
              /\ queue = {}
              /\ at = [w \in Workers |-> "free"]
              /\ task = [w \in Workers |-> NoTask]
              /\ waiters = [w \in Workers |-> {}]
              /\ outcome = [w \in Workers |-> "failure"]
              /\ backend = [t \in Tasks |-> "pending"]
              /\ event = [t \in Tasks |-> 0]
              /\ faults = 0 /\ cause = {}

-----------------------------------------------------------------------------
(* The client: run_task and _wait_completion.                              *)

\* A task of REST or beat is sent and left alone
Send(t) == /\ wait[t] = "idle"
           /\ wait' = Step(wait, t, IF t \in patient THEN "look" ELSE "gone")
           /\ queue' = queue \cup {t}
           /\ UNCHANGED <<patient, left, at, task, waiters, outcome, backend, event, faults, cause>>

\* The head of the loop: the result, then the deadline, then the event
CheckReady(t) ==
  /\ wait[t] = "look"
  /\ wait' = Step(wait, t, IF Ready(t) THEN backend[t] ELSE IF left[t] = 0 THEN "last" ELSE "block")
  /\ UNCHANGED <<patient, left, workerVars, event, faults>>

\* run_task looks once more before it gives up
LastLook(t) == /\ wait[t] = "last"
               /\ wait' = Step(wait, t, IF Ready(t) THEN backend[t] ELSE "timeout")
               /\ UNCHANGED <<patient, left, workerVars, event, faults>>

\* BLPOP returns: the event, or the end of the chunk, or an error of Redis
Woken(t) == /\ wait[t] = "block" /\ event[t] > 0
            /\ wait' = Step(wait, t, "look") /\ event' = Step(event, t, event[t] - 1)
            /\ UNCHANGED <<patient, left, workerVars, faults>>

\* Variant: the deadline moves with every turn
ChunkIsFree(t) == /\ wait[t] = "block" /\ event[t] = 0
                  /\ wait' = Step(wait, t, "look")
                  /\ UNCHANGED <<patient, left, workerVars, event, faults>>

ChunkEnds(t) == /\ wait[t] = "block" /\ event[t] = 0
                /\ wait' = Step(wait, t, "look") /\ left' = Step(left, t, left[t] - 1)
                /\ UNCHANGED <<patient, workerVars, event, faults>>

BlpopFails(t) == /\ wait[t] = "block" /\ Fault
                 /\ wait' = Step(wait, t, "look")
                 /\ UNCHANGED <<patient, left, workerVars, event>>

\* The list of an event nobody took runs out (_NOTIFY_TTL_SECONDS, longer than any wait)
EventExpires(t) == /\ event[t] > 0 /\ wait[t] \in Over
                   /\ event' = Step(event, t, 0)
                   /\ UNCHANGED <<clientVars, workerVars, faults>>

Client(t) == CheckReady(t) \/ LastLook(t) \/ Woken(t) \/ ChunkEnds(t)

-----------------------------------------------------------------------------
(* The worker: signals and acknowledgement around the body of the task.    *)

\* task_prerun remembers whom to wake
Take(w, t) ==
  /\ at[w] = "free" /\ t \in queue
  /\ queue' = queue \ {t}
  /\ at' = Step(at, w, "body") /\ task' = Step(task, w, t)
  /\ waiters' = Step(waiters, w, waiters[w] \cup ({t} \cap patient))
  /\ UNCHANGED <<clientVars, outcome, backend, event, faults, cause>>

\* The body returns or raises
BodyEnds(w, o) ==
  /\ at' = Step(at, w, "store") /\ outcome' = Step(outcome, w, o)
  /\ UNCHANGED <<clientVars, queue, task, waiters, backend, event, faults, cause>>

\* A success is never overwritten by a later run of the same task
StoreResult(w) ==
  /\ at[w] = "store"
  /\ backend' = Step(backend, task[w],
                     IF backend[task[w]] = "success" THEN "success" ELSE outcome[w])
  /\ at' = Step(at, w, "notify")
  /\ UNCHANGED <<clientVars, queue, task, waiters, outcome, event, faults, cause>>

\* Variant: only a success wakes the client
NotifySuccess(w) ==
  /\ at[w] = "notify" /\ task[w] \in waiters[w]
  /\ waiters' = Step(waiters, w, waiters[w] \ {task[w]})
  /\ at' = Step(at, w, "ack")
  /\ event' = Step(event, task[w], event[task[w]] + (IF outcome[w] = "success" THEN 1 ELSE 0))
  /\ UNCHANGED <<clientVars, queue, task, outcome, backend, faults, cause>>

\* task_postrun: whatever the outcome; a failed push is only logged
Notify(w) ==
  /\ at[w] = "notify" /\ task[w] \in waiters[w]
  /\ waiters' = Step(waiters, w, waiters[w] \ {task[w]})
  /\ at' = Step(at, w, "ack")
  /\ \/ event' = Step(event, task[w], event[task[w]] + 1) /\ UNCHANGED <<faults, cause>>
     \/ Fault /\ cause' = cause \cup {task[w]} /\ UNCHANGED event
  /\ UNCHANGED <<clientVars, queue, task, outcome, backend>>

NobodyWaits(w) == /\ at[w] = "notify" /\ task[w] \notin waiters[w]
                  /\ at' = Step(at, w, "ack")
                  /\ UNCHANGED <<clientVars, queue, task, waiters, outcome, backend, event, faults, cause>>

\* task_acks_late
Ack(w) == /\ at[w] = "ack"
          /\ at' = Step(at, w, "free") /\ task' = Step(task, w, NoTask)
          /\ UNCHANGED <<clientVars, queue, waiters, outcome, backend, event, faults, cause>>

-----------------------------------------------------------------------------
(* What goes wrong with a worker.                                          *)

\* The child is gone, and what it remembered
Gone(w) == /\ at' = Step(at, w, "free") /\ task' = Step(task, w, NoTask)
           /\ waiters' = Step(waiters, w, {})

\* Variant: the message was acknowledged when it was taken
LostEarlyAck(w) ==
  /\ at[w] # "free" /\ Fault /\ Gone(w)
  /\ cause' = IF at[w] = "notify" THEN cause \cup {task[w]} ELSE cause
  /\ UNCHANGED <<clientVars, queue, outcome, backend, event>>

\* task_reject_on_worker_lost: the task goes back to the queue, done or not
Lost(w) == /\ at[w] # "free" /\ Fault /\ Gone(w)
           /\ queue' = queue \cup {task[w]}
           /\ cause' = IF at[w] = "notify" THEN cause \cup {task[w]} ELSE cause
           /\ UNCHANGED <<clientVars, outcome, backend, event>>

\* time_limit: the main process stores the failure, acknowledges and kills the child,
\* no signal handler runs
HardLimit(w) ==
  /\ at[w] = "body" /\ Fault /\ Gone(w)
  /\ backend' = Step(backend, task[w],
                     IF backend[task[w]] = "success" THEN "success" ELSE "failure")
  /\ cause' = cause \cup {task[w]}
  /\ UNCHANGED <<clientVars, queue, outcome, event>>

-----------------------------------------------------------------------------
(* Properties.                                                             *)

BridgeTypeOK == /\ patient \subseteq Tasks
                /\ wait \in [Tasks -> Waits]
                /\ left \in [Tasks -> 0..Chunks]
                /\ queue \subseteq Tasks
                /\ at \in [Workers -> Stages]
                /\ task \in [Workers -> Tasks \cup {NoTask}]
                /\ waiters \in [Workers -> SUBSET Tasks]
                /\ outcome \in [Workers -> Outcomes]
                /\ backend \in [Tasks -> Outcomes \cup {"pending"}]
                /\ event \in [Tasks -> Nat]
                /\ faults \in 0..MaxFaults
                /\ cause \subseteq Tasks

Carrying(w, t) == task[w] = t /\ at[w] # "free"

\* A client that blocks although its result is there has the event coming: there is
\* one in the list, or a worker is about to push it, or a fault took it - a lost
\* worker, a failed push, a hard time limit (the heading of task_bridge.py).
LostWakeupHasCause ==
  \A t \in Tasks : wait[t] = "block" /\ Ready(t) /\ t \notin cause =>
     event[t] > 0 \/ \E w \in Workers : Carrying(w, t) /\ at[w] = "notify"

\* A task that was sent is in the queue, in a worker or has its result, whichever
\* workers were lost (task_acks_late and task_reject_on_worker_lost, celery_app.py).
TaskKept ==
  \A t \in Tasks : wait[t] # "idle" =>
     t \in queue \/ Ready(t) \/ \E w \in Workers : Carrying(w, t)

\* Every call ends with an answer or a timeout, even when no worker is left
\* (TASK_RESULT_TIMEOUT, run_task).
CallsEnd == \A t \in Tasks : wait[t] = "look" ~> wait[t] \in Over
=============================================================================
