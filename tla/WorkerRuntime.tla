----------------------------- MODULE WorkerRuntime -----------------------------
(***************************************************************************)
(* The runtime node: runtime/node.py with its scheduler, its worker pool,  *)
(* the registry and the workers.                                           *)
(*                                                                         *)
(* A task goes from the scheduler's queue to a pool task of its own, which *)
(* polls the registry for a worker, runs the task there and retries it.    *)
(* The dispatcher does not suspend between two tasks: one step empties the *)
(* queue, so that the order of priorities is not visible.  The lock of the *)
(* registry is never held across a suspension, so that finding, reserving  *)
(* and starting is one step as well.                                       *)
(***************************************************************************)
EXTENDS Integers, FiniteSets

CONSTANTS
  Task,
  Worker,
  Able,            \* Able[t]: the workers with the capabilities task t requires
  MaxDepth,        \* max_queue_depth; 0 is no limit
  MaxConcurrency,  \* max_concurrency of every worker
  MaxRetries,      \* max_retries of every task's policy
  MaxRestarts,     \* max_restart_attempts of the pool
  None

RuntimeAssumption ==
  /\ Able \in [Task -> SUBSET Worker]
  /\ MaxDepth \in Nat /\ MaxConcurrency \in Nat \ {0}
  /\ MaxRetries \in Nat /\ MaxRestarts \in Nat
  /\ None \notin Worker

VARIABLES
  phase,           \* of the node: "up", "stopping" or "stopped"
  pc,              \* where a task is
  status,          \* WorkerTask.status
  who,             \* the worker a running task runs on
  fails,           \* attempt: the failed executions of a pool task
  cancelled,       \* the tasks a CancelledError is on its way to
  reserved,        \* _reserved of the registry
  registered,      \* _workers of the registry
  wst,             \* WorkerStatus
  stopper,         \* who awaits worker.stop(): the monitor ("restart", "evict")
                   \* or the application ("remove")
  awaits,          \* the pool tasks that stop() has gathered
  restarts         \* _restart_counts

taskVars == <<pc, status, who, fails, cancelled>>
workerVars == <<registered, stopper, awaits, restarts>>
vars == <<phase, taskVars, reserved, wst, workerVars>>

InPool == {"waiting", "running", "sleeping"}
Active(w) == {t \in Task : pc[t] = "running" /\ who[t] = w}

Init ==
  /\ phase = "up"
  /\ pc = [t \in Task |-> "new"] /\ status = [t \in Task |-> "QUEUED"]
  /\ who = [t \in Task |-> None] /\ fails = [t \in Task |-> 0]
  /\ cancelled = {} /\ reserved = {} /\ registered = Worker
  /\ wst = [w \in Worker |-> "IDLE"] /\ stopper = [w \in Worker |-> "none"]
  /\ awaits = [w \in Worker |-> {}] /\ restarts = [w \in Worker |-> 0]

-------------------------------------------------------------------------------
(* Scheduler *)

\* submit_invoke, also after stop(); a full queue raises SchedulerFullError.
Submit(t) ==
  /\ pc[t] = "new"
  /\ MaxDepth > 0 => Cardinality({u \in Task : pc[u] = "queued"}) < MaxDepth
  /\ pc' = [pc EXCEPT ![t] = "queued"] /\ status' = [status EXCEPT ![t] = "QUEUED"]
  /\ UNCHANGED <<phase, who, fails, cancelled, reserved, wst, workerVars>>

\* cancel_task of the node: the scheduler marks a queued task, the pool cancels.
Cancel(t) ==
  /\ \/ /\ pc[t] = "queued" /\ status[t] = "QUEUED"
        /\ status' = [status EXCEPT ![t] = "CANCELLED"] /\ UNCHANGED cancelled
     \/ /\ pc[t] \in InPool
        /\ cancelled' = cancelled \cup {t} /\ UNCHANGED status
  /\ UNCHANGED <<phase, pc, who, fails, reserved, wst, workerVars>>

\* Mutant of DispatchAll.
DispatchCancelledToo ==
  /\ phase = "up" /\ \E t \in Task : pc[t] = "queued"
  /\ pc' = [t \in Task |-> IF pc[t] # "queued" THEN pc[t] ELSE "waiting"]
  /\ UNCHANGED <<phase, status, who, fails, cancelled, reserved, wst, workerVars>>

\* _dispatcher_loop wakes up.
DispatchAll ==
  /\ phase = "up" /\ \E t \in Task : pc[t] = "queued"
  /\ pc' = [t \in Task |-> IF pc[t] # "queued" THEN pc[t]
                           ELSE IF status[t] = "CANCELLED" THEN "done" ELSE "waiting"]
  /\ UNCHANGED <<phase, status, who, fails, cancelled, reserved, wst, workerVars>>

-------------------------------------------------------------------------------
(* Pool and worker *)

Available(t, w) ==
  /\ w \in registered \ reserved /\ w \in Able[t]
  /\ wst[w] = "IDLE" /\ Cardinality(Active(w)) < MaxConcurrency

\* find_and_reserve succeeds, and execute begins.
Assign(t, w) ==
  /\ pc[t] = "waiting" /\ t \notin cancelled /\ Available(t, w)
  /\ pc' = [pc EXCEPT ![t] = "running"] /\ who' = [who EXCEPT ![t] = w]
  /\ status' = [status EXCEPT ![t] = "RUNNING"]
  /\ reserved' = reserved \cup {w}
  /\ wst' = IF Cardinality(Active(w)) + 1 >= MaxConcurrency
            THEN [wst EXCEPT ![w] = "BUSY"] ELSE wst
  /\ UNCHANGED <<phase, fails, cancelled, workerVars>>

\* _wait_for_worker has polled for its maximal time.
GiveUp(t) ==
  /\ pc[t] = "waiting" /\ t \notin cancelled /\ ~\E w \in Worker : Available(t, w)
  /\ pc' = [pc EXCEPT ![t] = "done"] /\ status' = [status EXCEPT ![t] = "FAILED"]
  /\ UNCHANGED <<phase, who, fails, cancelled, reserved, wst, workerVars>>

\* Mutant of Leave.
LeaveUnreleased(t, s, next) ==
  /\ pc[t] = "running"
  /\ pc' = [pc EXCEPT ![t] = next] /\ status' = [status EXCEPT ![t] = s]
  /\ who' = [who EXCEPT ![t] = None]
  /\ wst' = [wst EXCEPT ![who[t]] = "IDLE"]
  /\ reserved' = IF s = "CANCELLED" THEN reserved ELSE reserved \ {who[t]}
  /\ UNCHANGED <<phase, workerVars>>

\* execute ends: the worker is idle (_mark_idle_if_free) and released.
Leave(t, s, next) ==
  /\ pc[t] = "running"
  /\ pc' = [pc EXCEPT ![t] = next] /\ status' = [status EXCEPT ![t] = s]
  /\ who' = [who EXCEPT ![t] = None]
  /\ wst' = [wst EXCEPT ![who[t]] = "IDLE"]
  /\ reserved' = reserved \ {who[t]}
  /\ UNCHANGED <<phase, workerVars>>

\* The agent completes or fails; LocalAIWorker raises neither.
Execute(t) ==
  /\ \E s \in {"COMPLETED", "FAILED"} : Leave(t, s, "done")
  /\ UNCHANGED <<fails, cancelled>>

\* wait_for expires, or a worker raises: retry or give up.
Fail(t) ==
  /\ t \notin cancelled
  /\ \E s \in {"TIMED_OUT", "FAILED"} :
       Leave(t, s, IF fails[t] + 1 > MaxRetries THEN "done" ELSE "sleeping")
  /\ fails' = [fails EXCEPT ![t] = @ + 1]
  /\ UNCHANGED cancelled

WakeUp(t) ==
  /\ pc[t] = "sleeping" /\ t \notin cancelled
  /\ pc' = [pc EXCEPT ![t] = "waiting"]
  /\ UNCHANGED <<phase, status, who, fails, cancelled, reserved, wst, workerVars>>

\* The CancelledError arrives; outside of execute no status is set.
CancelArrives(t) ==
  /\ t \in cancelled
  /\ \/ Leave(t, "CANCELLED", "done") /\ UNCHANGED fails
     \/ /\ pc[t] \in {"waiting", "sleeping"}
        /\ pc' = [pc EXCEPT ![t] = "done"]
        /\ UNCHANGED <<phase, status, who, fails, reserved, wst, workerVars>>
  /\ cancelled' = cancelled \ {t}

-------------------------------------------------------------------------------
(* Health monitor, removal and stop *)

\* Mutant of Stopped.
StoppedForgets(w, kind) ==
  /\ stopper' = [stopper EXCEPT ![w] = "none"] /\ awaits' = [awaits EXCEPT ![w] = {}]
  /\ wst' = [wst EXCEPT ![w] = "STOPPED"] /\ restarts' = [restarts EXCEPT ![w] = @ + 1]
  /\ UNCHANGED registered

\* worker.stop() has returned: a removed worker is gone, a restarted one starts
\* or raises.
Stopped(w, kind) ==
  /\ stopper' = [stopper EXCEPT ![w] = "none"] /\ awaits' = [awaits EXCEPT ![w] = {}]
  /\ \/ /\ kind \in {"evict", "remove"}
        /\ registered' = registered \ {w}
        /\ wst' = [wst EXCEPT ![w] = "STOPPED"]
        /\ restarts' = [restarts EXCEPT ![w] = 0]
     \/ /\ kind = "restart" /\ UNCHANGED registered
        /\ \/ wst' = [wst EXCEPT ![w] = "IDLE"] /\ restarts' = [restarts EXCEPT ![w] = 0]
           \/ /\ wst' = [wst EXCEPT ![w] = "STOPPED"]
              /\ restarts' = [restarts EXCEPT ![w] = IF stopper[w] = "none" THEN @ + 1 ELSE @]

BeginStop(w, kind) ==
  IF Active(w) = {} THEN Stopped(w, kind)
  ELSE /\ stopper' = [stopper EXCEPT ![w] = kind]
       /\ awaits' = [awaits EXCEPT ![w] = Active(w)]
       /\ wst' = [wst EXCEPT ![w] = "DRAINING"]
       /\ restarts' = IF kind = "restart" THEN [restarts EXCEPT ![w] = @ + 1] ELSE restarts
       /\ UNCHANGED registered

\* The monitor finds a worker stopped or its probe raising; one worker at a time.
\* (That it probes a worker the application is removing is left out.)
Probe(w) ==
  /\ phase = "up" /\ w \in registered /\ stopper[w] = "none"
  /\ \A v \in Worker : stopper[v] \in {"none", "remove"}
  /\ BeginStop(w, IF restarts[w] >= MaxRestarts THEN "evict" ELSE "restart")
  /\ UNCHANGED <<phase, taskVars, reserved>>

\* deregister_worker, called by the embedding application.
Deregister(w) ==
  /\ phase = "up" /\ w \in registered /\ stopper[w] = "none"
  /\ BeginStop(w, "remove")
  /\ UNCHANGED <<phase, taskVars, reserved>>

\* Mutant of EndStop.
EndStopIdle(w) ==
  /\ stopper[w] # "none" /\ awaits[w] = {}
  /\ Stopped(w, stopper[w]) /\ UNCHANGED <<phase, taskVars, reserved>>

\* The gathered pool tasks have ended, with all their retries.
EndStop(w) ==
  /\ stopper[w] # "none" /\ \A t \in awaits[w] : pc[t] = "done"
  /\ Stopped(w, stopper[w])
  /\ UNCHANGED <<phase, taskVars, reserved>>

\* stop() of the node: the dispatcher and the monitor are cancelled, and all pool tasks.
StopNode ==
  /\ phase = "up" /\ phase' = "stopping"
  /\ cancelled' = {t \in Task : pc[t] \in InPool}
  /\ stopper' = [w \in Worker |-> IF stopper[w] = "remove" THEN "remove" ELSE "none"]
  /\ awaits' = [w \in Worker |-> IF stopper[w] = "remove" THEN awaits[w] ELSE {}]
  /\ UNCHANGED <<pc, status, who, fails, reserved, registered, wst, restarts>>

\* Mutant of StopWorkers.
StopWorkersAtOnce ==
  /\ phase = "stopping" /\ phase' = "stopped"
  /\ wst' = [w \in Worker |-> IF w \in registered THEN "STOPPED" ELSE wst[w]]
  /\ UNCHANGED <<taskVars, reserved, workerVars>>

\* The pool tasks are gathered; the workers stop.
StopWorkers ==
  /\ phase = "stopping" /\ \A t \in Task : pc[t] \notin InPool
  /\ phase' = "stopped"
  /\ wst' = [w \in Worker |-> IF w \in registered THEN "STOPPED" ELSE wst[w]]
  /\ UNCHANGED <<taskVars, reserved, workerVars>>

-------------------------------------------------------------------------------
PoolStep(t) ==
  \/ \E w \in Worker : Assign(t, w)
  \/ GiveUp(t)
  \/ Execute(t)
  \/ Fail(t)
  \/ WakeUp(t)
  \/ CancelArrives(t)

Next ==
  \/ \E t \in Task : Submit(t) \/ Cancel(t) \/ PoolStep(t)
  \/ DispatchAll
  \/ \E w \in Worker : Probe(w) \/ Deregister(w) \/ EndStop(w)
  \/ StopNode
  \/ StopWorkers

\* Timers expire: the poll interval, the waits for a worker, the time-outs of the
\* tasks and their back-off; the loop runs what is ready.
Fairness ==
  /\ WF_vars(DispatchAll) /\ WF_vars(StopWorkers)
  /\ \A t \in Task : WF_vars(PoolStep(t))
  /\ \A w \in Worker : WF_vars(EndStop(w))

Spec == Init /\ [][Next]_vars
FairSpec == Spec /\ Fairness

-------------------------------------------------------------------------------
(* Properties. *)

TypeOK ==
  /\ phase \in {"up", "stopping", "stopped"}
  /\ pc \in [Task -> {"new", "queued", "done"} \cup InPool]
  /\ status \in [Task -> {"QUEUED", "RUNNING", "COMPLETED", "FAILED", "CANCELLED", "TIMED_OUT"}]
  /\ who \in [Task -> Worker \cup {None}]
  /\ fails \in [Task -> 0..MaxRetries + 1]
  /\ cancelled \subseteq Task /\ reserved \subseteq Worker /\ registered \subseteq Worker
  /\ wst \in [Worker -> {"IDLE", "BUSY", "DRAINING", "STOPPED"}]
  /\ stopper \in [Worker -> {"none", "restart", "evict", "remove"}]
  /\ awaits \in [Worker -> SUBSET Task]
  /\ restarts \in [Worker -> 0..MaxRestarts]

\* A worker is reserved exactly while a task runs on it, and for one task only,
\* although polls, restarts, time-outs and cancellations race (find_and_reserve and
\* the release in the finally of _execute_with_retry).
ReservationsHold ==
  /\ reserved = {who[t] : t \in {u \in Task : pc[u] = "running"}}
  /\ \A t, u \in Task : pc[t] = "running" /\ pc[u] = "running" /\ who[t] = who[u] => t = u

\* A task that was completed or cancelled stays so: the cancel of a queued task, of
\* a running one and the retries do not revive it.
FinalStays ==
  \A t \in Task : status[t] \in {"COMPLETED", "CANCELLED"} => status'[t] = status[t]

\* When stop() has returned, nothing runs and no worker takes tasks.
StopEndsAll ==
  phase = "stopped" =>
    /\ \A t \in Task : pc[t] \notin InPool
    /\ reserved = {} /\ \A w \in registered : wst[w] = "STOPPED"

\* A queued task is settled unless the node stops, also when its workers are
\* removed, restart or time out.
Unsettled(t) == pc[t] \notin {"new", "done"} /\ phase = "up"
===============================================================================
