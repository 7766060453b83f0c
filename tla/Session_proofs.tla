---------------------------- MODULE Session_proofs ----------------------------
(***************************************************************************)
(* Proofs about the process that serves: the session from start to end and *)
(* the pool of workers, for every value of the constants.                  *)
(***************************************************************************)
EXTENDS Serving, Integers, Sequences, FiniteSets, FiniteSetTheorems, SequenceTheorems, TLAPS

-------------------------------------------------------------------------------
(* The pool of workers: every set of tasks and workers, any capabilities and limits. *)

\* A worker is reserved if and only if one task runs on it.
HeldByOne ==
  /\ \A w \in PoolWorkers : w \in wReserved <=> \E t \in PoolTasks : wPc[t] = "running" /\ wWho[t] = w
  /\ \A t, u \in PoolTasks : wPc[t] = "running" /\ wPc[u] = "running" /\ wWho[t] = wWho[u] => t = u

TaskInv ==
  /\ wPc \in [PoolTasks -> {"new", "queued", "done"} \cup Pool!InPool]
  /\ wStatus \in [PoolTasks -> {"QUEUED", "RUNNING", "COMPLETED", "FAILED", "CANCELLED", "TIMED_OUT"}]
  /\ wWho \in [PoolTasks -> PoolWorkers \cup {None}]
  /\ wFails \in [PoolTasks -> Nat]
  /\ wCancelled \subseteq PoolTasks /\ wReserved \subseteq PoolWorkers
  /\ HeldByOne
  /\ \A t \in PoolTasks : wPc[t] = "running" => wWho[t] \in PoolWorkers
  /\ \A t \in PoolTasks : wStatus[t] = "COMPLETED" => wPc[t] = "done"
  /\ \A t \in PoolTasks : wStatus[t] = "CANCELLED" => wPc[t] \in {"queued", "done"}
  /\ \A t \in PoolTasks : wFails[t] <= MaxFailures + 1 /\ (wPc[t] # "done" => wFails[t] <= MaxFailures)

NodeInv ==
  /\ wPhase \in {"up", "stopping", "stopped"}
  /\ wRegistered \subseteq PoolWorkers
  /\ wWst \in [PoolWorkers -> {"IDLE", "BUSY", "DRAINING", "STOPPED"}]
  /\ wStopper \in [PoolWorkers -> {"none", "restart", "evict", "remove"}]
  /\ wAwaits \in [PoolWorkers -> SUBSET PoolTasks]
  /\ wRestarts \in [PoolWorkers -> Nat] /\ \A w \in PoolWorkers : wRestarts[w] <= MaxRestarts
  /\ wPhase # "up" => \A w \in PoolWorkers : wStopper[w] \in {"none", "remove"}
  /\ wPhase = "stopped" =>
       (\A t \in PoolTasks : wPc[t] \notin Pool!InPool) /\ \A w \in wRegistered : wWst[w] = "STOPPED"

-------------------------------------------------------------------------------
(* The tasks *)

LEMMA InitTasks == Pool!RuntimeAssumption /\ Pool!Init => TaskInv
BY DEF Pool!RuntimeAssumption, Pool!Init, TaskInv, HeldByOne, Pool!InPool

\* Steps that move a task between places outside of the workers.
LEMMA OutsideTasks ==
  ASSUME Pool!RuntimeAssumption, TaskInv, NEW t \in PoolTasks, Pool!Submit(t) \/ Pool!Cancel(t) \/ Pool!GiveUp(t) \/ Pool!WakeUp(t)
  PROVE  TaskInv'
<1>1. CASE Pool!Submit(t)
  BY <1>1 DEF Pool!Submit, TaskInv, HeldByOne, Pool!InPool
<1>2. CASE Pool!Cancel(t)
  BY <1>2 DEF Pool!Cancel, TaskInv, HeldByOne, Pool!InPool
<1>3. CASE Pool!GiveUp(t)
  BY <1>3 DEF Pool!GiveUp, TaskInv, HeldByOne, Pool!InPool
<1>4. CASE Pool!WakeUp(t)
  BY <1>4 DEF Pool!WakeUp, TaskInv, HeldByOne, Pool!InPool
<1> QED
  BY <1>1, <1>2, <1>3, <1>4

LEMMA DispatchTasks ==
  ASSUME Pool!RuntimeAssumption, TaskInv, Pool!DispatchAll
  PROVE  TaskInv'
BY DEF Pool!DispatchAll, TaskInv, HeldByOne, Pool!InPool

LEMMA AssignTasks ==
  ASSUME Pool!RuntimeAssumption, TaskInv, NEW t \in PoolTasks, NEW w \in PoolWorkers, Pool!Assign(t, w)
  PROVE  TaskInv'
<1>1. /\ wPc[t] = "waiting" /\ w \notin wReserved
      /\ wPc' = [wPc EXCEPT ![t] = "running"] /\ wWho' = [wWho EXCEPT ![t] = w]
      /\ wStatus' = [wStatus EXCEPT ![t] = "RUNNING"]
      /\ wReserved' = wReserved \cup {w}
      /\ UNCHANGED <<wFails, wCancelled>>
  BY DEF Pool!Assign, Pool!Available
<1>2. HeldByOne'
  <2>1. \A u \in PoolTasks : wPc'[u] = "running" <=> u = t \/ wPc[u] = "running"
    BY <1>1 DEF TaskInv
  <2>2. wWho'[t] = w /\ \A u \in PoolTasks \ {t} : wWho'[u] = wWho[u]
    BY <1>1 DEF TaskInv
  <2>3. \A u \in PoolTasks : wPc[u] = "running" => wWho[u] # w /\ u # t
    BY <1>1 DEF TaskInv, HeldByOne
  <2> QED
    BY <1>1, <2>1, <2>2, <2>3 DEF TaskInv, HeldByOne
<1> QED
  BY <1>1, <1>2 DEF TaskInv, Pool!InPool

\* A worker that a task leaves is free, and it held no other task.
LEMMA LeaveHeld ==
  ASSUME TaskInv, NEW t \in PoolTasks, NEW s, NEW next \in {"done", "sleeping"}, Pool!Leave(t, s, next)
  PROVE  /\ HeldByOne' /\ wReserved' \subseteq PoolWorkers
         /\ \A u \in PoolTasks : wPc'[u] = "running" => wWho'[u] \in PoolWorkers
<1>1. /\ wPc[t] = "running"
      /\ wPc' = [wPc EXCEPT ![t] = next] /\ wWho' = [wWho EXCEPT ![t] = None]
      /\ wReserved' = wReserved \ {wWho[t]}
  BY DEF Pool!Leave
<1>2. \A u \in PoolTasks : wPc'[u] = "running" <=> u # t /\ wPc[u] = "running"
  BY <1>1 DEF TaskInv
<1>3. \A u \in PoolTasks \ {t} : wWho'[u] = wWho[u]
  BY <1>1 DEF TaskInv
<1>4. \A u \in PoolTasks : wPc[u] = "running" /\ wWho[u] = wWho[t] => u = t
  BY <1>1 DEF TaskInv, HeldByOne
<1> QED
  BY <1>1, <1>2, <1>3, <1>4 DEF TaskInv, HeldByOne

LEMMA ExecuteTasks ==
  ASSUME Pool!RuntimeAssumption, TaskInv, NEW t \in PoolTasks, Pool!Execute(t)
  PROVE  TaskInv'
<1>1. PICK s \in {"COMPLETED", "FAILED"} : Pool!Leave(t, s, "done")
  BY DEF Pool!Execute
<1>2. /\ HeldByOne' /\ wReserved' \subseteq PoolWorkers
      /\ \A u \in PoolTasks : wPc'[u] = "running" => wWho'[u] \in PoolWorkers
  BY <1>1, LeaveHeld
<1> QED
  BY <1>1, <1>2 DEF Pool!Execute, Pool!Leave, TaskInv, Pool!InPool

LEMMA FailTasks ==
  ASSUME Pool!RuntimeAssumption, TaskInv, NEW t \in PoolTasks, Pool!Fail(t)
  PROVE  TaskInv'
<1> DEFINE next == IF wFails[t] + 1 > MaxFailures THEN "done" ELSE "sleeping"
<1>1. PICK s \in {"TIMED_OUT", "FAILED"} : Pool!Leave(t, s, next)
  BY DEF Pool!Fail
<1>2. next \in {"done", "sleeping"}
  OBVIOUS
<1>3. /\ HeldByOne' /\ wReserved' \subseteq PoolWorkers
      /\ \A u \in PoolTasks : wPc'[u] = "running" => wWho'[u] \in PoolWorkers
  BY <1>1, <1>2, LeaveHeld
<1>4. /\ wPc[t] = "running" /\ wPc' = [wPc EXCEPT ![t] = next]
      /\ wStatus' = [wStatus EXCEPT ![t] = s] /\ wWho' = [wWho EXCEPT ![t] = None]
      /\ wFails' = [wFails EXCEPT ![t] = wFails[t] + 1] /\ UNCHANGED wCancelled
  BY <1>1 DEF Pool!Fail, Pool!Leave, TaskInv
<1>5. wFails[t] \in Nat /\ wFails[t] <= MaxFailures /\ MaxFailures \in Nat
  BY <1>4 DEF TaskInv, Pool!RuntimeAssumption
<1>6. next # "done" => wFails[t] + 1 <= MaxFailures
  BY <1>5
<1> HIDE DEF next
<1>7. wFails' \in [PoolTasks -> Nat]
  BY <1>4, <1>5 DEF TaskInv
<1>8. \A u \in PoolTasks : wFails'[u] <= MaxFailures + 1 /\ (wPc'[u] # "done" => wFails'[u] <= MaxFailures)
  BY <1>4, <1>5, <1>6 DEF TaskInv
<1> QED
  BY <1>2, <1>3, <1>4, <1>7, <1>8 DEF TaskInv, Pool!InPool

LEMMA CancelTasks ==
  ASSUME Pool!RuntimeAssumption, TaskInv, NEW t \in PoolTasks, Pool!CancelArrives(t)
  PROVE  TaskInv'
<1>1. CASE Pool!Leave(t, "CANCELLED", "done") /\ UNCHANGED wFails
  <2>1. /\ HeldByOne' /\ wReserved' \subseteq PoolWorkers
        /\ \A u \in PoolTasks : wPc'[u] = "running" => wWho'[u] \in PoolWorkers
    BY <1>1, LeaveHeld
  <2> QED
    BY <1>1, <2>1 DEF Pool!CancelArrives, Pool!Leave, TaskInv, Pool!InPool
<1>2. CASE wPc[t] \in {"waiting", "sleeping"} /\ wPc' = [wPc EXCEPT ![t] = "done"]
           /\ UNCHANGED <<wStatus, wWho, wFails, wReserved>>
  BY <1>2 DEF Pool!CancelArrives, TaskInv, HeldByOne, Pool!InPool
<1> QED
  BY <1>1, <1>2 DEF Pool!CancelArrives

\* Steps of the monitor, of a removal and of the stop leave the tasks alone.
LEMMA OtherTasks ==
  ASSUME TaskInv, UNCHANGED <<wPc, wStatus, wWho, wFails, wReserved>>, wCancelled' \subseteq PoolTasks
  PROVE  TaskInv'
BY DEF TaskInv, HeldByOne

LEMMA NextTasks == Pool!RuntimeAssumption /\ TaskInv /\ [Pool!Next]_Pool!vars => TaskInv'
<1> SUFFICES ASSUME Pool!RuntimeAssumption, TaskInv, [Pool!Next]_Pool!vars
             PROVE  TaskInv'
  OBVIOUS
<1>1. CASE UNCHANGED Pool!vars
  BY <1>1, OtherTasks DEF Pool!vars, Pool!taskVars, TaskInv
<1>2. ASSUME NEW t \in PoolTasks, Pool!Submit(t) \/ Pool!Cancel(t) \/ Pool!PoolStep(t)
      PROVE  TaskInv'
  BY <1>2, OutsideTasks, AssignTasks, ExecuteTasks, FailTasks, CancelTasks DEF Pool!PoolStep
<1>3. CASE Pool!DispatchAll
  BY <1>3, DispatchTasks
<1>4. ASSUME NEW w \in PoolWorkers, Pool!Probe(w) \/ Pool!Deregister(w) \/ Pool!EndStop(w)
      PROVE  TaskInv'
  BY <1>4, OtherTasks DEF Pool!Probe, Pool!Deregister, Pool!EndStop, Pool!taskVars, TaskInv
<1>5. CASE Pool!StopNode
  BY <1>5, OtherTasks DEF Pool!StopNode
<1>6. CASE Pool!StopWorkers
  BY <1>6, OtherTasks DEF Pool!StopWorkers, Pool!taskVars, TaskInv
<1> QED
  BY <1>1, <1>2, <1>3, <1>4, <1>5, <1>6 DEF Pool!Next

LEMMA TasksInvariant ==
  ASSUME Pool!RuntimeAssumption
  PROVE  Pool!Spec => []TaskInv
<1>1. Pool!Init => TaskInv
  BY InitTasks
<1>2. TaskInv /\ [Pool!Next]_Pool!vars => TaskInv'
  BY NextTasks
<1> QED
  BY <1>1, <1>2, PTL DEF Pool!Spec

\* A worker is reserved exactly while one task runs on it, for any number of tasks
\* and workers that poll, restart, time out and are cancelled at once
\* (find_and_reserve and the release in the finally of _execute_with_retry).
THEOREM ReservationsAreHeld ==
  ASSUME Pool!RuntimeAssumption
  PROVE  Pool!Spec => []Pool!ReservationsHold
<1>1. TaskInv => Pool!ReservationsHold
  <2> SUFFICES ASSUME TaskInv PROVE Pool!ReservationsHold
    OBVIOUS
  <2>1. wReserved = {wWho[t] : t \in {u \in PoolTasks : wPc[u] = "running"}}
    BY DEF TaskInv, HeldByOne
  <2> QED
    BY <2>1 DEF TaskInv, HeldByOne, Pool!ReservationsHold
<1> QED
  BY <1>1, TasksInvariant, PTL

\* A completed or cancelled task is never revived: not by a retry, by the dispatcher
\* that finds it in the queue, nor by a cancel that comes too late.
THEOREM FinalIsFinal ==
  ASSUME Pool!RuntimeAssumption
  PROVE  Pool!Spec => [][Pool!FinalStays]_Pool!vars
<1>1. TaskInv /\ [Pool!Next]_Pool!vars => [Pool!FinalStays]_Pool!vars
  <2> SUFFICES ASSUME TaskInv, Pool!Next, NEW u \in PoolTasks, wStatus[u] \in {"COMPLETED", "CANCELLED"}
               PROVE  wStatus'[u] = wStatus[u]
    BY DEF Pool!FinalStays
  <2>1. wPc[u] \in {"queued", "done"} /\ DOMAIN wStatus = PoolTasks
    BY DEF TaskInv
  <2>2. ASSUME NEW t \in PoolTasks, Pool!Submit(t) \/ Pool!Cancel(t)
        PROVE  wStatus'[u] = wStatus[u]
    BY <2>1, <2>2 DEF Pool!Submit, Pool!Cancel, TaskInv, Pool!InPool
  <2>3. ASSUME NEW t \in PoolTasks, Pool!PoolStep(t)
        PROVE  wStatus'[u] = wStatus[u]
    <3>1. wPc[t] \in Pool!InPool
      BY <2>3 DEF Pool!PoolStep, Pool!Assign, Pool!GiveUp, Pool!Execute, Pool!Fail, Pool!WakeUp, Pool!CancelArrives, Pool!Leave, Pool!InPool
    <3>2. t # u
      BY <2>1, <3>1 DEF Pool!InPool
    <3>3. \/ UNCHANGED wStatus
          \/ \E s : wStatus' = [wStatus EXCEPT ![t] = s]
      BY <2>3 DEF Pool!PoolStep, Pool!Assign, Pool!GiveUp, Pool!Execute, Pool!Fail, Pool!WakeUp, Pool!CancelArrives, Pool!Leave
    <3> QED
      BY <2>1, <3>2, <3>3
  <2>4. CASE Pool!DispatchAll \/ Pool!StopNode \/ Pool!StopWorkers
    BY <2>4 DEF Pool!DispatchAll, Pool!StopNode, Pool!StopWorkers, Pool!taskVars
  <2>5. ASSUME NEW w \in PoolWorkers, Pool!Probe(w) \/ Pool!Deregister(w) \/ Pool!EndStop(w)
        PROVE  wStatus'[u] = wStatus[u]
    BY <2>5 DEF Pool!Probe, Pool!Deregister, Pool!EndStop, Pool!taskVars
  <2> QED
    BY <2>2, <2>3, <2>4, <2>5 DEF Pool!Next
<1> QED
  BY <1>1, TasksInvariant, PTL DEF Pool!Spec

-------------------------------------------------------------------------------
(* The node and its workers *)

LEMMA InitNode == Pool!RuntimeAssumption /\ Pool!Init => NodeInv
BY DEF Pool!RuntimeAssumption, Pool!Init, NodeInv, Pool!InPool

\* Before the node has stopped, NodeInv says nothing of the tasks' places.
LEMMA RunningNode ==
  ASSUME NodeInv, wPhase' = wPhase, wPhase # "stopped",
         UNCHANGED <<wRegistered, wStopper, wAwaits, wRestarts>>,
         wWst' \in [PoolWorkers -> {"IDLE", "BUSY", "DRAINING", "STOPPED"}]
  PROVE  NodeInv'
BY DEF NodeInv

LEMMA PoolNode ==
  ASSUME Pool!RuntimeAssumption, TaskInv, NodeInv, NEW t \in PoolTasks, Pool!PoolStep(t)
  PROVE  NodeInv'
<1>1. wPc[t] \in Pool!InPool
  BY DEF Pool!PoolStep, Pool!Assign, Pool!GiveUp, Pool!Execute, Pool!Fail, Pool!WakeUp, Pool!CancelArrives, Pool!Leave, Pool!InPool
<1>2. wPhase # "stopped"
  BY <1>1 DEF NodeInv
<1>3. UNCHANGED <<wPhase, wRegistered, wStopper, wAwaits, wRestarts>>
  BY DEF Pool!PoolStep, Pool!Assign, Pool!GiveUp, Pool!Execute, Pool!Fail, Pool!WakeUp, Pool!CancelArrives, Pool!Leave, Pool!workerVars
<1>4. wWst' \in [PoolWorkers -> {"IDLE", "BUSY", "DRAINING", "STOPPED"}]
  <2>1. ASSUME NEW w \in PoolWorkers, Pool!Assign(t, w)
        PROVE  wWst' \in [PoolWorkers -> {"IDLE", "BUSY", "DRAINING", "STOPPED"}]
    BY <2>1 DEF Pool!Assign, NodeInv
  <2>2. CASE wWst' = wWst \/ wWst' = [wWst EXCEPT ![wWho[t]] = "IDLE"]
    BY <2>2 DEF NodeInv
  <2> QED
    BY <2>1, <2>2 DEF Pool!PoolStep, Pool!GiveUp, Pool!Execute, Pool!Fail, Pool!WakeUp, Pool!CancelArrives, Pool!Leave
<1> QED
  BY <1>2, <1>3, <1>4, RunningNode

\* Submitting and cancelling leave the workers alone; a task of a stopped node can
\* be queued, and no more.
LEMMA OutsideNode ==
  ASSUME TaskInv, NodeInv, NEW t \in PoolTasks, Pool!Submit(t) \/ Pool!Cancel(t)
  PROVE  NodeInv'
BY DEF Pool!Submit, Pool!Cancel, Pool!workerVars, TaskInv, NodeInv, Pool!InPool

\* What the end of a stop leaves, for the worker and for the others.
LEMMA StoppedNode ==
  ASSUME Pool!RuntimeAssumption, NodeInv, NEW w \in PoolWorkers, NEW kind \in {"restart", "evict", "remove"},
         Pool!Stopped(w, kind), UNCHANGED <<wPhase, wPc>>,
         wPhase # "up" => kind = "remove",
         wStopper[w] = "none" /\ kind = "restart" => wRestarts[w] < MaxRestarts
  PROVE  NodeInv'
<1>1. /\ wStopper' = [wStopper EXCEPT ![w] = "none"] /\ wAwaits' = [wAwaits EXCEPT ![w] = {}]
      /\ wRegistered' \subseteq wRegistered
      /\ \/ wWst' = [wWst EXCEPT ![w] = "STOPPED"]
         \/ wPhase = "up" /\ wWst' = [wWst EXCEPT ![w] = "IDLE"]
  BY DEF Pool!Stopped
<1>2. \/ wRestarts' = [wRestarts EXCEPT ![w] = 0]
      \/ wRestarts' = wRestarts
      \/ wRestarts' = [wRestarts EXCEPT ![w] = wRestarts[w] + 1] /\ wRestarts[w] < MaxRestarts
  BY DEF Pool!Stopped, NodeInv
<1>3. wRestarts' \in [PoolWorkers -> Nat] /\ \A v \in PoolWorkers : wRestarts'[v] <= MaxRestarts
  <2>1. wRestarts[w] \in Nat /\ MaxRestarts \in Nat
    BY DEF NodeInv, Pool!RuntimeAssumption
  <2> QED
    BY <1>2, <2>1 DEF NodeInv
<1> QED
  BY <1>1, <1>3 DEF NodeInv

LEMMA BeginStopNode ==
  ASSUME Pool!RuntimeAssumption, TaskInv, NodeInv, NEW w \in PoolWorkers, wPhase = "up",
         NEW kind \in {"restart", "evict", "remove"}, Pool!BeginStop(w, kind),
         wStopper[w] = "none", UNCHANGED <<wPhase, wPc>>,
         kind = "restart" => wRestarts[w] < MaxRestarts
  PROVE  NodeInv'
<1>1. CASE Pool!Active(w) = {}
  BY <1>1, StoppedNode DEF Pool!BeginStop
<1>2. CASE Pool!Active(w) # {}
  <2>1. /\ wStopper' = [wStopper EXCEPT ![w] = kind]
        /\ wAwaits' = [wAwaits EXCEPT ![w] = Pool!Active(w)]
        /\ wWst' = [wWst EXCEPT ![w] = "DRAINING"]
        /\ \/ wRestarts' = wRestarts
           \/ wRestarts' = [wRestarts EXCEPT ![w] = wRestarts[w] + 1] /\ wRestarts[w] < MaxRestarts
        /\ UNCHANGED wRegistered
    BY <1>2 DEF Pool!BeginStop, NodeInv
  <2>2. wRestarts' \in [PoolWorkers -> Nat] /\ \A v \in PoolWorkers : wRestarts'[v] <= MaxRestarts
    <3>1. wRestarts[w] \in Nat /\ MaxRestarts \in Nat
      BY DEF NodeInv, Pool!RuntimeAssumption
    <3> QED
      BY <2>1, <3>1 DEF NodeInv
  <2>3. Pool!Active(w) \in SUBSET PoolTasks
    BY DEF Pool!Active
  <2> QED
    BY <2>1, <2>2, <2>3 DEF NodeInv
<1> QED
  BY <1>1, <1>2

LEMMA WorkerNode ==
  ASSUME Pool!RuntimeAssumption, TaskInv, NodeInv, NEW w \in PoolWorkers,
         Pool!Probe(w) \/ Pool!Deregister(w) \/ Pool!EndStop(w)
  PROVE  NodeInv'
<1>1. UNCHANGED <<wPhase, wPc>>
  BY DEF Pool!Probe, Pool!Deregister, Pool!EndStop, Pool!taskVars
<1>2. CASE Pool!Probe(w)
  <2>1. wRestarts[w] \in Nat /\ MaxRestarts \in Nat
    BY DEF NodeInv, Pool!RuntimeAssumption
  <2>2. CASE wRestarts[w] >= MaxRestarts
    BY <1>1, <1>2, <2>2, BeginStopNode DEF Pool!Probe
  <2>3. CASE ~(wRestarts[w] >= MaxRestarts)
    BY <1>1, <1>2, <2>1, <2>3, BeginStopNode DEF Pool!Probe
  <2> QED
    BY <2>2, <2>3
<1>3. CASE Pool!Deregister(w)
  BY <1>1, <1>3, BeginStopNode DEF Pool!Deregister
<1>4. CASE Pool!EndStop(w)
  <2>1. wStopper[w] \in {"restart", "evict", "remove"} /\ Pool!Stopped(w, wStopper[w])
    BY <1>4 DEF Pool!EndStop, NodeInv
  <2>2. wPhase # "up" => wStopper[w] = "remove"
    BY <2>1 DEF NodeInv
  <2> QED
    BY <1>1, <2>1, <2>2, StoppedNode
<1> QED
  BY <1>2, <1>3, <1>4

LEMMA NextNode == Pool!RuntimeAssumption /\ TaskInv /\ NodeInv /\ [Pool!Next]_Pool!vars => NodeInv'
<1> SUFFICES ASSUME Pool!RuntimeAssumption, TaskInv, NodeInv, [Pool!Next]_Pool!vars
             PROVE  NodeInv'
  OBVIOUS
<1>1. CASE UNCHANGED Pool!vars
  BY <1>1 DEF Pool!vars, Pool!taskVars, Pool!workerVars, NodeInv
<1>2. ASSUME NEW t \in PoolTasks, Pool!Submit(t) \/ Pool!Cancel(t)
      PROVE  NodeInv'
  BY <1>2, OutsideNode
<1>3. ASSUME NEW t \in PoolTasks, Pool!PoolStep(t)
      PROVE  NodeInv'
  BY <1>3, PoolNode
<1>4. CASE Pool!DispatchAll
  BY <1>4, RunningNode DEF Pool!DispatchAll, Pool!workerVars, NodeInv
<1>5. ASSUME NEW w \in PoolWorkers, Pool!Probe(w) \/ Pool!Deregister(w) \/ Pool!EndStop(w)
      PROVE  NodeInv'
  BY <1>5, WorkerNode
<1>6. CASE Pool!StopNode
  BY <1>6 DEF Pool!StopNode, NodeInv
<1>7. CASE Pool!StopWorkers
  BY <1>7 DEF Pool!StopWorkers, Pool!taskVars, Pool!workerVars, NodeInv
<1> QED
  BY <1>1, <1>2, <1>3, <1>4, <1>5, <1>6, <1>7 DEF Pool!Next

LEMMA NodeInvariant ==
  ASSUME Pool!RuntimeAssumption
  PROVE  Pool!Spec => [](TaskInv /\ NodeInv)
<1>1. Pool!Init => NodeInv
  BY InitNode
<1>2. TaskInv /\ NodeInv /\ [Pool!Next]_Pool!vars => NodeInv'
  BY NextNode
<1> QED
  BY <1>1, <1>2, TasksInvariant, PTL DEF Pool!Spec

\* The node keeps its types; a task fails at most once more than it is retried, and
\* a worker is restarted at most as often as its pool allows.
THEOREM RuntimeTypes ==
  ASSUME Pool!RuntimeAssumption
  PROVE  Pool!Spec => []Pool!TypeOK
<1>1. TaskInv /\ NodeInv => Pool!TypeOK
  <2> SUFFICES ASSUME TaskInv, NodeInv PROVE Pool!TypeOK
    OBVIOUS
  <2>1. wFails \in [PoolTasks -> 0..MaxFailures + 1]
    BY DEF TaskInv, Pool!RuntimeAssumption
  <2>2. wRestarts \in [PoolWorkers -> 0..MaxRestarts]
    BY DEF NodeInv, Pool!RuntimeAssumption
  <2> QED
    BY <2>1, <2>2 DEF TaskInv, NodeInv, Pool!TypeOK
<1> QED
  BY <1>1, NodeInvariant, PTL

\* When stop() of the node has returned, no task is in the pool, no worker is reserved
\* and every worker has stopped, although removals are still under way (node.stop).
THEOREM StopLeavesNothing ==
  ASSUME Pool!RuntimeAssumption
  PROVE  Pool!Spec => []Pool!StopEndsAll
<1>1. TaskInv /\ NodeInv => Pool!StopEndsAll
  <2> SUFFICES ASSUME TaskInv, NodeInv, wPhase = "stopped"
               PROVE  /\ \A t \in PoolTasks : wPc[t] \notin Pool!InPool
                      /\ wReserved = {} /\ \A w \in wRegistered : wWst[w] = "STOPPED"
    BY DEF Pool!StopEndsAll
  <2>1. \A t \in PoolTasks : wPc[t] \notin Pool!InPool
    BY DEF NodeInv
  <2>2. wReserved = {}
    BY <2>1 DEF TaskInv, HeldByOne, Pool!InPool
  <2> QED
    BY <2>1, <2>2 DEF NodeInv
<1> QED
  BY <1>1, NodeInvariant, PTL

-------------------------------------------------------------------------------
(* The session from start to end: every kind of session, whatever fails. *)

Types == {"session.opened", "session.resumed", "runtime.ready", "runtime.config",
          "runtime.mcp_servers", "runtime.tools", "error.transient", "error.fatal",
          "session.heartbeat", "message.assistant", "prompt.cancelled", "session.closed"}
Event == [type : Types, seq : Nat]

ServeState ==
    /\ sSession \in Sessions
    /\ sStage \in {"boot", "memory", "creating", "mcp", "serving", "tearing", "ended"}
    /\ sSent \in Seq(Event) /\ sSeq \in Nat
    /\ {sOpened, sClosed, sHeart, sTurn, sShutdown} \subseteq BOOLEAN
    /\ sAgents \in Int /\ sHandles \in Nat /\ sLeaks \in Nat

(* Which task runs in which stage, and the reason the session would end    *)
(* with. Only a WebSocket whose memory fails ends without closing.         *)
PhaseInv ==
    /\ sStage = "boot" => sSent = <<>> /\ sSeq = 0
    /\ sOpened \/ sStage \in {"boot", "ended"}
    /\ sOpened => sStage # "boot"
    /\ sHeart \/ sTurn => sOpened
    /\ sClosed => sStage = "ended" /\ sOpened
    /\ sStage = "ended" => ~sHeart /\ ~sTurn
    /\ sStage = "ended" /\ ~sClosed => ~Session!Stdio /\ sReason = "disconnect"
    /\ Session!Stdio /\ sStage # "boot" => sReason = "shutdown"
    /\ ~Session!Stdio /\ sStage \in {"boot", "memory", "creating", "mcp", "serving"} => sReason = "disconnect"
    /\ ~Session!Stdio /\ sStage \in {"boot", "memory", "creating"} => ~sHeart /\ ~sTurn

(* What is held in which stage.                                            *)
HeldInv ==
    /\ sStage \in {"boot", "memory", "creating", "ended"} => sAgent # "live"
    /\ sStage = "mcp" => sAgent = "live"
    /\ ~Session!Stdio /\ sStage = "serving" => sAgent = "live"
    /\ ~Session!Stdio /\ sStage \in {"boot", "memory"} => sHandles = 0
    /\ sStage = "ended" => sHandles = 0 /\ (Session!Stdio => ~sLtstore)
    /\ "setup" \notin sSession.failures => sLeaks = 0
    /\ ~(Session!Stdio /\ "mcp" \in sSession.failures) => sAgents = IF sAgent = "live" THEN 1 ELSE 0

(* What the client got: numbered on stdio, after the opening and           *)
(* runtime.ready, and session.closed at most once, at the end.             *)
SentInv ==
    /\ Session!Stdio => sSeq = Len(sSent) /\ \A i \in 1..Len(sSent) : sSent[i].seq = i
    /\ sOpened => Len(sSent) >= 2 /\ sSent[1].type \in {"session.opened", "session.resumed"}
                 /\ sSent[2].type = "runtime.ready"
    /\ ~sOpened => \A i \in 1..Len(sSent) : sSent[i].type = "error.transient"
    /\ \A i \in 1..Len(sSent) : sSent[i].type = "session.closed" => sClosed /\ sReason \in Session!CloseReasons /\ i = Len(sSent)
    /\ sClosed /\ sReason \in Session!CloseReasons => sSent[Len(sSent)].type = "session.closed"

ServeInv == ServeState /\ PhaseInv /\ HeldInv /\ SentInv

(* Lists of events. *)
LEMMA Appended ==
    ASSUME sSent \in Seq(Event), NEW more \in Seq(Event), sSent' = sSent \o more
    PROVE  /\ sSent' \in Seq(Event) /\ Len(sSent') = Len(sSent) + Len(more) /\ Len(sSent) \in Nat
           /\ \A i \in 1..Len(sSent) : sSent'[i] = sSent[i]
           /\ \A i \in 1..Len(more) : sSent'[Len(sSent) + i] = more[i]
OBVIOUS

(* What was sent stays, and the new events come behind it, numbered on.    *)
LEMMA Emitted ==
    ASSUME ServeState, NEW n \in Nat, NEW w \in [1..n -> Types], DOMAIN w = 1..n, Len(w) = n, Session!Emit(w)
    PROVE  /\ sSent' \in Seq(Event) /\ Len(sSent') = Len(sSent) + n /\ Len(sSent) \in Nat
           /\ sSeq' = sSeq + n /\ sSeq' \in Nat
           /\ \A i \in 1..Len(sSent) : sSent'[i] = sSent[i]
           /\ \A i \in 1..n : sSent'[Len(sSent) + i].type = w[i] /\ sSent'[Len(sSent) + i].seq = sSeq + i
<1>1. sSent \in Seq(Event) /\ sSeq \in Nat
    BY DEF ServeState
<1>2. sSeq' = sSeq + n /\ sSeq' \in Nat
    BY <1>1 DEF Session!Emit
<1> DEFINE said == [i \in 1..n |-> [type |-> w[i], seq |-> sSeq + i]]
<1>3. sSent' = sSent \o said
    BY DEF Session!Emit
<1>4. ASSUME NEW i \in 1..n
      PROVE  said[i] \in Event /\ said[i].type = w[i] /\ said[i].seq = sSeq + i
    <2>1. sSeq + i \in Nat /\ w[i] \in Types
        BY <1>1
    <2>2. said[i] = [type |-> w[i], seq |-> sSeq + i]
        OBVIOUS
    <2> QED
        BY <2>1, <2>2 DEF Event
<1>5. said \in Seq(Event) /\ Len(said) = n
    BY <1>4
<1> HIDE DEF said
<1>6. /\ sSent' \in Seq(Event) /\ Len(sSent') = Len(sSent) + Len(said) /\ Len(sSent) \in Nat
      /\ \A i \in 1..Len(sSent) : sSent'[i] = sSent[i]
      /\ \A i \in 1..Len(said) : sSent'[Len(sSent) + i] = said[i]
    <2>1. sSent \in Seq(Event) /\ said \in Seq(Event)
        BY <1>1, <1>5
    <2> QED
        BY ONLY <1>3, <2>1, Appended
<1> QED
    BY <1>2, <1>4, <1>5, <1>6

(* A step that says something between the opening and the end.             *)
LEMMA Speaks ==
    ASSUME ServeInv, sSession' = sSession, sOpened, ~sClosed, sOpened' = sOpened, sClosed' = sClosed,
           NEW n \in Nat, NEW w \in [1..n -> Types \ {"session.closed"}], DOMAIN w = 1..n, Len(w) = n, Session!Emit(w)
    PROVE  SentInv' /\ sSent' \in Seq(Event) /\ sSeq' \in Nat
<1>1. ServeState /\ SentInv /\ w \in [1..n -> Types]
    BY DEF ServeInv
<1>2. /\ sSent' \in Seq(Event) /\ Len(sSent') = Len(sSent) + n /\ Len(sSent) \in Nat
      /\ sSeq' = sSeq + n /\ sSeq' \in Nat
      /\ \A i \in 1..Len(sSent) : sSent'[i] = sSent[i]
      /\ \A i \in 1..n : sSent'[Len(sSent) + i].type = w[i] /\ sSent'[Len(sSent) + i].seq = sSeq + i
    BY <1>1, Emitted
<1>3. Session!Stdio' = Session!Stdio
    BY DEF Session!Stdio
<1>4. ASSUME NEW i \in 1..Len(sSent'), i \notin 1..Len(sSent)
      PROVE  \E j \in 1..n : i = Len(sSent) + j
    <2>1. i - Len(sSent) \in 1..n /\ i = Len(sSent) + (i - Len(sSent))
        BY <1>2, <1>4
    <2> QED
        BY <2>1
<1>5. ASSUME Session!Stdio', NEW i \in 1..Len(sSent') PROVE sSent'[i].seq = i
    <2>1. sSeq = Len(sSent) /\ \A k \in 1..Len(sSent) : sSent[k].seq = k
        BY <1>1, <1>3, <1>5 DEF SentInv
    <2>2. CASE i \in 1..Len(sSent)
        BY <1>2, <2>1, <2>2
    <2>3. CASE i \notin 1..Len(sSent)
        <3>1. PICK j \in 1..n : i = Len(sSent) + j
            BY <1>4, <1>5, <2>3
        <3>2. sSent'[i].seq = sSeq + j
            BY <1>2, <3>1
        <3> QED
            BY <2>1, <3>1, <3>2
    <2> QED
        BY <2>2, <2>3
<1>6. ASSUME NEW i \in 1..Len(sSent') PROVE sSent'[i].type # "session.closed"
    <2>1. CASE i \in 1..Len(sSent)
        BY <1>1, <1>2, <2>1 DEF SentInv
    <2>2. CASE i \notin 1..Len(sSent)
        <3>1. PICK j \in 1..n : i = Len(sSent) + j
            BY <1>4, <1>6, <2>2
        <3> QED
            BY <1>2, <3>1
    <2> QED
        BY <2>1, <2>2
<1>7. Len(sSent) >= 2 /\ 1 \in 1..Len(sSent) /\ 2 \in 1..Len(sSent)
    BY <1>1, <1>2 DEF SentInv
<1>8. Session!Stdio' => sSeq' = Len(sSent')
    BY <1>1, <1>2, <1>3 DEF SentInv
<1>9. Len(sSent') >= 2
    BY <1>2, <1>7
<1> QED
    BY <1>1, <1>2, <1>5, <1>6, <1>7, <1>8, <1>9 DEF SentInv

LEMMA SaysOne ==
    ASSUME ServeInv, sSession' = sSession, sOpened, ~sClosed, sOpened' = sOpened, sClosed' = sClosed,
           NEW a \in Types \ {"session.closed"}, Session!Emit(<<a>>)
    PROVE  SentInv' /\ sSent' \in Seq(Event) /\ sSeq' \in Nat
<1>1. <<a>> \in [1..1 -> Types \ {"session.closed"}] /\ DOMAIN <<a>> = 1..1 /\ Len(<<a>>) = 1
    OBVIOUS
<1> QED
    BY <1>1, Speaks

LEMMA SaysThree ==
    ASSUME ServeInv, sSession' = sSession, sOpened, ~sClosed, sOpened' = sOpened, sClosed' = sClosed,
           Session!Emit(<<"runtime.mcp_servers", "runtime.config", "runtime.tools">>)
    PROVE  SentInv' /\ sSent' \in Seq(Event) /\ sSeq' \in Nat
<1> DEFINE w == <<"runtime.mcp_servers", "runtime.config", "runtime.tools">>
<1>1. w \in [1..3 -> Types \ {"session.closed"}] /\ DOMAIN w = 1..3 /\ Len(w) = 3
    BY DEF Types
<1> QED
    BY <1>1, Speaks

(* A step that says nothing.                                               *)
LEMMA SaysNothing ==
    ASSUME ServeInv, sSession' = sSession, Session!NoEvent, sOpened' = sOpened, sClosed' = sClosed,
           sClosed => sReason' = sReason
    PROVE  SentInv' /\ sSent' \in Seq(Event) /\ sSeq' \in Nat
<1>1. ServeState /\ SentInv /\ sSent' = sSent /\ sSeq' = sSeq /\ Session!Stdio' = Session!Stdio
    BY DEF ServeInv, Session!NoEvent, Session!Stdio
<1>2. sClosed' /\ sReason' \in Session!CloseReasons <=> sClosed /\ sReason \in Session!CloseReasons
    BY DEF Session!CloseReasons
<1> QED
    BY <1>1, <1>2 DEF SentInv, ServeState
LEMMA SaysNone ==
    ASSUME ServeInv, sSession' = sSession, sOpened, ~sClosed, sOpened' = sOpened, sClosed' = sClosed, Session!Emit(<<>>)
    PROVE  SentInv' /\ sSent' \in Seq(Event) /\ sSeq' \in Nat
<1>1. <<>> \in [1..0 -> Types \ {"session.closed"}] /\ DOMAIN <<>> = 1..0 /\ Len(<<>>) = 0
    OBVIOUS
<1> QED
    BY <1>1, Speaks

(* An error out of the numbering, on a WebSocket.                          *)
LEMMA SaysZero ==
    ASSUME ServeInv, ~Session!Stdio, ~sClosed, sSession' = sSession, sOpened' = sOpened, sClosed' = sClosed,
           sSent' = Append(sSent, [type |-> "error.transient", seq |-> 0]), sSeq' = sSeq
    PROVE  SentInv' /\ sSent' \in Seq(Event) /\ sSeq' \in Nat
<1>1. ServeState /\ SentInv /\ ~Session!Stdio' /\ sSent \in Seq(Event)
    BY DEF ServeInv, ServeState, Session!Stdio
<1> DEFINE e == [type |-> "error.transient", seq |-> 0]
<1>2. e \in Event /\ e.type = "error.transient"
    BY DEF Event, Types
<1>3. sSent' = Append(sSent, e)
    OBVIOUS
<1> HIDE DEF e
<1>4. /\ sSent' \in Seq(Event) /\ Len(sSent') = Len(sSent) + 1 /\ Len(sSent) \in Nat
      /\ \A i \in 1..Len(sSent) : sSent'[i] = sSent[i]
      /\ sSent'[Len(sSent) + 1] = e
    BY ONLY <1>1, <1>2, <1>3
<1>5. ASSUME NEW i \in 1..Len(sSent')
      PROVE  sSent'[i].type # "session.closed" /\ (~sOpened => sSent'[i].type = "error.transient")
    <2>1. CASE i \in 1..Len(sSent)
        BY <1>1, <1>4, <2>1 DEF SentInv
    <2>2. CASE i \notin 1..Len(sSent)
        <3>1. i = Len(sSent) + 1
            BY <1>4, <1>5, <2>2
        <3> QED
            BY <1>2, <1>4, <3>1
    <2> QED
        BY <2>1, <2>2
<1>6. ASSUME sOpened
      PROVE  /\ Len(sSent') >= 2 /\ sSent'[1].type \in {"session.opened", "session.resumed"}
             /\ sSent'[2].type = "runtime.ready"
    <2>1. Len(sSent) >= 2 /\ 1 \in 1..Len(sSent) /\ 2 \in 1..Len(sSent)
        BY <1>1, <1>4, <1>6 DEF SentInv
    <2> QED
        BY <1>1, <1>4, <1>6, <2>1 DEF SentInv
<1> QED
    BY <1>1, <1>4, <1>5, <1>6 DEF SentInv, ServeState

(* The opening.                                                            *)
LEMMA Opens ==
    ASSUME ServeInv, sStage = "boot", sSession' = sSession, sOpened' = TRUE, sClosed' = sClosed,
           Session!Emit(<<Session!Opening, "runtime.ready">>)
    PROVE  SentInv' /\ sSent' \in Seq(Event) /\ sSeq' \in Nat
<1>1. ServeState /\ sSent = <<>> /\ sSeq = 0 /\ ~sClosed
    BY DEF ServeInv, PhaseInv
<1>2. Session!Opening \in {"session.opened", "session.resumed"}
    BY DEF Session!Opening
<1> DEFINE w == <<Session!Opening, "runtime.ready">>
<1>3. /\ w \in [1..2 -> Types] /\ DOMAIN w = 1..2 /\ Len(w) = 2
      /\ w[1] = Session!Opening /\ w[2] = "runtime.ready" /\ Session!Emit(w)
    <2>1. Session!Opening \in Types /\ "runtime.ready" \in Types
        BY <1>2 DEF Types
    <2> QED
        BY <2>1
<1> HIDE DEF w
<1>4. /\ sSent' \in Seq(Event) /\ Len(sSent') = Len(sSent) + 2 /\ Len(sSent) \in Nat
      /\ sSeq' = sSeq + 2 /\ sSeq' \in Nat
      /\ \A i \in 1..Len(sSent) : sSent'[i] = sSent[i]
      /\ \A i \in 1..2 : sSent'[Len(sSent) + i].type = w[i] /\ sSent'[Len(sSent) + i].seq = sSeq + i
    BY <1>1, <1>3, Emitted
<1>5. Len(sSent) = 0
    BY <1>1
<1>6. /\ Len(sSent') = 2 /\ sSeq' = 2
      /\ sSent'[1].type = Session!Opening /\ sSent'[1].seq = 1
      /\ sSent'[2].type = "runtime.ready" /\ sSent'[2].seq = 2
    BY <1>1, <1>3, <1>4, <1>5
<1> QED
    BY <1>1, <1>2, <1>4, <1>6 DEF SentInv

(* The end.                                                                *)
LEMMA Closes ==
    ASSUME ServeInv, sOpened, ~sClosed, sSession' = sSession, sOpened' = sOpened, sReason' = sReason, Session!CloseEmitter
    PROVE  SentInv' /\ sSent' \in Seq(Event) /\ sSeq' \in Nat
<1>1. ServeState /\ SentInv /\ Session!Stdio' = Session!Stdio /\ sClosed'
    BY DEF ServeInv, Session!Stdio, Session!CloseEmitter
<1>2. CASE sReason \notin Session!CloseReasons
    <2>1. sSent' = sSent /\ sSeq' = sSeq
        BY <1>2 DEF Session!CloseEmitter, Session!NoEvent
    <2> QED
        BY <1>1, <1>2, <2>1 DEF SentInv, ServeState
<1>3. CASE sReason \in Session!CloseReasons
    <2> DEFINE w == <<"session.closed">>
    <2>1. w \in [1..1 -> Types] /\ DOMAIN w = 1..1 /\ Len(w) = 1 /\ w[1] = "session.closed" /\ Session!Emit(w)
        BY <1>3 DEF Types, Session!CloseEmitter
    <2> HIDE DEF w
    <2>2. /\ sSent' \in Seq(Event) /\ Len(sSent') = Len(sSent) + 1 /\ Len(sSent) \in Nat
          /\ sSeq' = sSeq + 1 /\ sSeq' \in Nat
          /\ \A i \in 1..Len(sSent) : sSent'[i] = sSent[i]
          /\ \A i \in 1..1 : sSent'[Len(sSent) + i].type = w[i] /\ sSent'[Len(sSent) + i].seq = sSeq + i
        BY <1>1, <2>1, Emitted
    <2>3. sSent'[Len(sSent')].type = "session.closed" /\ sSent'[Len(sSent')].seq = sSeq + 1
        BY <2>1, <2>2
    <2>4. ASSUME NEW i \in 1..Len(sSent'), i # Len(sSent')
          PROVE  i \in 1..Len(sSent) /\ sSent'[i] = sSent[i]
        BY <2>2, <2>4
    <2>5. ASSUME NEW i \in 1..Len(sSent') PROVE sSent'[i].type = "session.closed" => i = Len(sSent')
        BY <1>1, <2>4 DEF SentInv
    <2>6. ASSUME Session!Stdio PROVE sSeq' = Len(sSent') /\ \A i \in 1..Len(sSent') : sSent'[i].seq = i
        <3>1. sSeq = Len(sSent) /\ \A i \in 1..Len(sSent) : sSent[i].seq = i
            BY <1>1, <2>6 DEF SentInv
        <3>2. ASSUME NEW i \in 1..Len(sSent') PROVE sSent'[i].seq = i
            <4>1. CASE i = Len(sSent')
                BY <2>2, <2>3, <3>1, <4>1
            <4>2. CASE i # Len(sSent')
                BY <2>4, <3>1, <4>2
            <4> QED
                BY <4>1, <4>2
        <3> QED
            BY <2>2, <3>1, <3>2
    <2>7. Len(sSent) >= 2 /\ 1 \in 1..Len(sSent) /\ 2 \in 1..Len(sSent)
        BY <1>1, <2>2 DEF SentInv
    <2>8. /\ Len(sSent') >= 2 /\ sSent'[1].type \in {"session.opened", "session.resumed"}
          /\ sSent'[2].type = "runtime.ready"
        BY <1>1, <2>2, <2>7 DEF SentInv
    <2> QED
        BY <1>1, <1>3, <2>2, <2>3, <2>5, <2>6, <2>8 DEF SentInv
<1> QED
    BY <1>2, <1>3

(* What each step of the session preserves.                                *)
LEMMA OneMore ==
    ASSUME NEW T, NEW s \in Seq(T), NEW a \in T, NEW r, r = Append(s, a)
    PROVE  r \in [1..(Len(s) + 1) -> T] /\ DOMAIN r = 1..(Len(s) + 1) /\ Len(r) = Len(s) + 1
<1>1. r \in Seq(T) /\ Len(r) = Len(s) + 1
    OBVIOUS
<1>2. r \in [1..Len(r) -> T] /\ DOMAIN r = 1..Len(r)
    BY <1>1, LenProperties
<1> QED
    BY <1>1, <1>2

LEMMA KeepsStartStdio ==
    ASSUME ServeInv, sSession' = sSession, Session!StartStdio
    PROVE  ServeInv'
<1>0. ServeState /\ PhaseInv /\ HeldInv /\ Session!Stdio' = Session!Stdio
    BY DEF ServeInv, Session!Stdio
<1>1. SentInv' /\ sSent' \in Seq(Event) /\ sSeq' \in Nat
    BY Opens DEF Session!StartStdio, Session!work, Session!io
<1>2. ServeState'
    BY <1>0, <1>1 DEF ServeState, Session!StartStdio, Session!work, Session!io
<1>3. PhaseInv'
    BY <1>0 DEF PhaseInv, Session!StartStdio, Session!work, Session!io
<1>4. HeldInv'
    BY <1>0 DEF HeldInv, PhaseInv, Session!StartStdio, Session!work, Session!io
<1> QED
    BY <1>1, <1>2, <1>3, <1>4 DEF ServeInv

LEMMA KeepsAccept ==
    ASSUME ServeInv, sSession' = sSession, Session!Accept
    PROVE  ServeInv'
<1>0. ServeState /\ PhaseInv /\ HeldInv /\ Session!Stdio' = Session!Stdio
    BY DEF ServeInv, Session!Stdio
<1>1. SentInv' /\ sSent' \in Seq(Event) /\ sSeq' \in Nat
    BY Opens DEF Session!Accept, Session!work, Session!io
<1>2. ServeState'
    BY <1>0, <1>1 DEF ServeState, Session!Accept, Session!work, Session!io
<1>3. PhaseInv'
    BY <1>0 DEF PhaseInv, Session!Accept, Session!work, Session!io
<1>4. HeldInv'
    BY <1>0 DEF HeldInv, PhaseInv, Session!Accept, Session!work, Session!io
<1> QED
    BY <1>1, <1>2, <1>3, <1>4 DEF ServeInv

LEMMA KeepsRefuse ==
    ASSUME ServeInv, sSession' = sSession, Session!Refuse
    PROVE  ServeInv'
<1>0. ServeState /\ PhaseInv /\ HeldInv /\ Session!Stdio' = Session!Stdio
    BY DEF ServeInv, Session!Stdio
<1>1. SentInv' /\ sSent' \in Seq(Event) /\ sSeq' \in Nat
    <2>1. ~Session!Stdio /\ ~sClosed /\ sOpened' = sOpened /\ sClosed' = sClosed
        BY <1>0 DEF PhaseInv, Session!Refuse, Session!work, Session!io
    <2> QED
        BY <2>1, SaysZero DEF Session!Refuse, Session!work, Session!io
<1>2. ServeState'
    BY <1>0, <1>1 DEF ServeState, Session!Refuse, Session!work, Session!io
<1>3. PhaseInv'
    BY <1>0 DEF PhaseInv, Session!Refuse, Session!work, Session!io
<1>4. HeldInv'
    BY <1>0 DEF HeldInv, PhaseInv, Session!Refuse, Session!work, Session!io
<1> QED
    BY <1>1, <1>2, <1>3, <1>4 DEF ServeInv

LEMMA KeepsOpenMemory ==
    ASSUME ServeInv, sSession' = sSession, Session!OpenMemory
    PROVE  ServeInv'
<1>0. ServeState /\ PhaseInv /\ HeldInv /\ Session!Stdio' = Session!Stdio
    BY DEF ServeInv, Session!Stdio
<1>1. SentInv' /\ sSent' \in Seq(Event) /\ sSeq' \in Nat
    <2>1. Session!NoEvent /\ sOpened' = sOpened /\ sClosed' = sClosed /\ (sClosed => sReason' = sReason)
        BY <1>0 DEF PhaseInv, Session!OpenMemory, Session!work, Session!io, Session!NoEvent
    <2> QED
        BY <2>1, SaysNothing
<1>2. ServeState'
    BY <1>0, <1>1 DEF ServeState, Session!OpenMemory, Session!work, Session!io, Session!NoEvent
<1>3. PhaseInv'
    BY <1>0 DEF PhaseInv, Session!OpenMemory, Session!work, Session!io, Session!NoEvent
<1>4. HeldInv'
    BY <1>0 DEF HeldInv, PhaseInv, Session!OpenMemory, Session!work, Session!io, Session!NoEvent
<1> QED
    BY <1>1, <1>2, <1>3, <1>4 DEF ServeInv

LEMMA KeepsMemoryFails ==
    ASSUME ServeInv, sSession' = sSession, Session!MemoryFails
    PROVE  ServeInv'
<1>0. ServeState /\ PhaseInv /\ HeldInv /\ Session!Stdio' = Session!Stdio
    BY DEF ServeInv, Session!Stdio
<1>1. SentInv' /\ sSent' \in Seq(Event) /\ sSeq' \in Nat
    <2>1. sOpened /\ ~sClosed /\ sOpened' = sOpened /\ sClosed' = sClosed
        BY <1>0 DEF PhaseInv, Session!MemoryFails, Session!work, Session!io, Session!NoEvent, Session!Reported, Session!AfterCommand
    <2>2. "error.transient" \in Types \ {"session.closed"}
        BY DEF Types
    <2>3. Session!NoEvent \/ Session!Emit(<<"error.transient">>) \/ Session!Emit(Append(<<"error.transient">>, "error.transient"))
        <3>1. Session!NoEvent \/ Session!Reported(<<"error.transient">>)
            BY DEF Session!MemoryFails
        <3> QED
            BY <3>1 DEF Session!Reported
    <2> DEFINE w == Append(<<"error.transient">>, "error.transient")
    <2>4. w \in [1..2 -> Types \ {"session.closed"}] /\ DOMAIN w = 1..2 /\ Len(w) = 2
        <3> DEFINE s1 == <<"error.transient">>
                   T1 == Types \ {"session.closed"}
        <3>1. s1 \in Seq(T1) /\ Len(s1) = 1 /\ "error.transient" \in T1
            BY <2>2
        <3>2. w = Append(s1, "error.transient")
            OBVIOUS
        <3> HIDE DEF w, s1, T1
        <3>3. w \in [1..(Len(s1) + 1) -> T1] /\ DOMAIN w = 1..(Len(s1) + 1) /\ Len(w) = Len(s1) + 1
            BY ONLY <3>1, <3>2, OneMore
        <3> QED
            BY <3>1, <3>3 DEF T1
    <2> HIDE DEF w
    <2>5. CASE Session!NoEvent
        BY <2>1, <2>5, SaysNothing
    <2>6. CASE Session!Emit(<<"error.transient">>)
        BY <2>1, <2>2, <2>6, SaysOne
    <2>7. CASE Session!Emit(w)
        BY <2>1, <2>4, <2>7, Speaks
    <2> QED
        BY <2>3, <2>5, <2>6, <2>7 DEF w
<1>2. ServeState'
    BY <1>0, <1>1 DEF ServeState, Session!MemoryFails, Session!work, Session!io, Session!NoEvent, Session!Reported, Session!AfterCommand
<1>3. PhaseInv'
    BY <1>0 DEF PhaseInv, Session!MemoryFails, Session!work, Session!io, Session!NoEvent, Session!Reported, Session!AfterCommand
<1>4. HeldInv'
    BY <1>0 DEF HeldInv, PhaseInv, Session!MemoryFails, Session!work, Session!io, Session!NoEvent, Session!Reported, Session!AfterCommand
<1> QED
    BY <1>1, <1>2, <1>3, <1>4 DEF ServeInv

LEMMA KeepsCreateAgent ==
    ASSUME ServeInv, sSession' = sSession, Session!CreateAgent
    PROVE  ServeInv'
<1>0. ServeState /\ PhaseInv /\ HeldInv /\ Session!Stdio' = Session!Stdio
    BY DEF ServeInv, Session!Stdio
<1>1. SentInv' /\ sSent' \in Seq(Event) /\ sSeq' \in Nat
    <2>1. sOpened /\ ~sClosed /\ sOpened' = sOpened /\ sClosed' = sClosed
        BY <1>0 DEF PhaseInv, Session!CreateAgent, Session!work, Session!io
    <2>2. "runtime.config" \in Types \ {"session.closed"}
        BY DEF Types
    <2> QED
        BY <2>1, <2>2, SaysOne DEF Session!CreateAgent, Session!work, Session!io
<1>2. ServeState'
    BY <1>0, <1>1 DEF ServeState, Session!CreateAgent, Session!work, Session!io
<1>3. PhaseInv'
    BY <1>0 DEF PhaseInv, Session!CreateAgent, Session!work, Session!io
<1>4. HeldInv'
    BY <1>0 DEF HeldInv, PhaseInv, Session!CreateAgent, Session!work, Session!io
<1> QED
    BY <1>1, <1>2, <1>3, <1>4 DEF ServeInv

LEMMA KeepsCreateFails ==
    ASSUME ServeInv, sSession' = sSession, Session!CreateFails
    PROVE  ServeInv'
<1>0. ServeState /\ PhaseInv /\ HeldInv /\ Session!Stdio' = Session!Stdio
    BY DEF ServeInv, Session!Stdio
<1>1. SentInv' /\ sSent' \in Seq(Event) /\ sSeq' \in Nat
    <2>1. sOpened /\ ~sClosed /\ sOpened' = sOpened /\ sClosed' = sClosed
        BY <1>0 DEF PhaseInv, Session!CreateFails, Session!work, Session!io, Session!Reported, Session!AfterCommand
    <2>2. "error.transient" \in Types \ {"session.closed"}
        BY DEF Types
    <2>3. CASE Session!Stdio
        <3>1. Session!Emit(<<>>) \/ Session!Emit(Append(<<>>, "error.transient"))
            BY <2>3 DEF Session!CreateFails, Session!Reported
        <3>2. Append(<<>>, "error.transient") = <<"error.transient">>
            OBVIOUS
        <3> QED
            BY <2>1, <2>2, <3>1, <3>2, SaysNone, SaysOne
    <2>4. CASE ~Session!Stdio
        <3>1. sSent' = Append(sSent, [type |-> "error.transient", seq |-> 0]) /\ sSeq' = sSeq
            BY <2>4 DEF Session!CreateFails
        <3> QED
            BY <2>1, <2>4, <3>1, SaysZero
    <2> QED
        BY <2>3, <2>4
<1>2. ServeState'
    BY <1>0, <1>1 DEF ServeState, Session!CreateFails, Session!work, Session!io, Session!Reported, Session!AfterCommand
<1>3. PhaseInv'
    BY <1>0 DEF PhaseInv, Session!CreateFails, Session!work, Session!io, Session!Reported, Session!AfterCommand
<1>4. HeldInv'
    BY <1>0 DEF HeldInv, PhaseInv, Session!CreateFails, Session!work, Session!io, Session!Reported, Session!AfterCommand
<1> QED
    BY <1>1, <1>2, <1>3, <1>4 DEF ServeInv

LEMMA KeepsConnectMcp ==
    ASSUME ServeInv, sSession' = sSession, Session!ConnectMcp
    PROVE  ServeInv'
<1>0. ServeState /\ PhaseInv /\ HeldInv /\ Session!Stdio' = Session!Stdio
    BY DEF ServeInv, Session!Stdio
<1>1. SentInv' /\ sSent' \in Seq(Event) /\ sSeq' \in Nat
    <2>1. sOpened /\ ~sClosed /\ sOpened' = sOpened /\ sClosed' = sClosed
        BY <1>0 DEF PhaseInv, Session!ConnectMcp, Session!work, Session!io, Session!NoEvent, Session!Dispatch, Session!AfterCommand
    <2>2. Session!NoEvent \/ Session!Emit(<<"runtime.mcp_servers", "runtime.config", "runtime.tools">>)
        BY DEF Session!ConnectMcp
    <2> QED
        BY <2>1, <2>2, SaysNothing, SaysThree
<1>2. ServeState'
    BY <1>0, <1>1 DEF ServeState, Session!ConnectMcp, Session!work, Session!io, Session!NoEvent, Session!Dispatch, Session!AfterCommand
<1>3. PhaseInv'
    BY <1>0 DEF PhaseInv, Session!ConnectMcp, Session!work, Session!io, Session!NoEvent, Session!Dispatch, Session!AfterCommand
<1>4. HeldInv'
    BY <1>0 DEF HeldInv, PhaseInv, Session!ConnectMcp, Session!work, Session!io, Session!NoEvent, Session!Dispatch, Session!AfterCommand
<1> QED
    BY <1>1, <1>2, <1>3, <1>4 DEF ServeInv

LEMMA KeepsMcpFails ==
    ASSUME ServeInv, sSession' = sSession, Session!McpFails
    PROVE  ServeInv'
<1>0. ServeState /\ PhaseInv /\ HeldInv /\ Session!Stdio' = Session!Stdio
    BY DEF ServeInv, Session!Stdio
<1>1. SentInv' /\ sSent' \in Seq(Event) /\ sSeq' \in Nat
    <2>1. sOpened /\ ~sClosed /\ sOpened' = sOpened /\ sClosed' = sClosed
        BY <1>0 DEF PhaseInv, Session!McpFails, Session!work, Session!io, Session!AfterCommand
    <2>2. "error.fatal" \in Types \ {"session.closed"}
        BY DEF Types
    <2> QED
        BY <2>1, <2>2, SaysOne DEF Session!McpFails, Session!work, Session!io, Session!AfterCommand
<1>2. ServeState'
    BY <1>0, <1>1 DEF ServeState, Session!McpFails, Session!work, Session!io, Session!AfterCommand
<1>3. PhaseInv'
    BY <1>0 DEF PhaseInv, Session!McpFails, Session!work, Session!io, Session!AfterCommand
<1>4. HeldInv'
    BY <1>0 DEF HeldInv, PhaseInv, Session!McpFails, Session!work, Session!io, Session!AfterCommand
<1> QED
    BY <1>1, <1>2, <1>3, <1>4 DEF ServeInv

LEMMA KeepsWrite ==
    ASSUME ServeInv, sSession' = sSession, Session!Write
    PROVE  ServeInv'
<1>0. ServeState /\ PhaseInv /\ HeldInv /\ Session!Stdio' = Session!Stdio
    BY DEF ServeInv, Session!Stdio
<1>1. SentInv' /\ sSent' \in Seq(Event) /\ sSeq' \in Nat
    <2>1. Session!NoEvent /\ sOpened' = sOpened /\ sClosed' = sClosed /\ (sClosed => sReason' = sReason)
        BY <1>0 DEF PhaseInv, Session!Write, Session!work, Session!io, Session!NoEvent
    <2> QED
        BY <2>1, SaysNothing
<1>2. ServeState'
    BY <1>0, <1>1 DEF ServeState, Session!Write, Session!work, Session!io, Session!NoEvent
<1>3. PhaseInv'
    BY <1>0 DEF PhaseInv, Session!Write, Session!work, Session!io, Session!NoEvent
<1>4. HeldInv'
    BY <1>0 DEF HeldInv, PhaseInv, Session!Write, Session!work, Session!io, Session!NoEvent
<1> QED
    BY <1>1, <1>2, <1>3, <1>4 DEF ServeInv

LEMMA KeepsEndInput ==
    ASSUME ServeInv, sSession' = sSession, Session!EndInput
    PROVE  ServeInv'
<1>0. ServeState /\ PhaseInv /\ HeldInv /\ Session!Stdio' = Session!Stdio
    BY DEF ServeInv, Session!Stdio
<1>1. SentInv' /\ sSent' \in Seq(Event) /\ sSeq' \in Nat
    <2>1. Session!NoEvent /\ sOpened' = sOpened /\ sClosed' = sClosed /\ (sClosed => sReason' = sReason)
        BY <1>0 DEF PhaseInv, Session!EndInput, Session!work, Session!io, Session!NoEvent
    <2> QED
        BY <2>1, SaysNothing
<1>2. ServeState'
    BY <1>0, <1>1 DEF ServeState, Session!EndInput, Session!work, Session!io, Session!NoEvent
<1>3. PhaseInv'
    BY <1>0 DEF PhaseInv, Session!EndInput, Session!work, Session!io, Session!NoEvent
<1>4. HeldInv'
    BY <1>0 DEF HeldInv, PhaseInv, Session!EndInput, Session!work, Session!io, Session!NoEvent
<1> QED
    BY <1>1, <1>2, <1>3, <1>4 DEF ServeInv

LEMMA KeepsSignal ==
    ASSUME ServeInv, sSession' = sSession, Session!Signal
    PROVE  ServeInv'
<1>0. ServeState /\ PhaseInv /\ HeldInv /\ Session!Stdio' = Session!Stdio
    BY DEF ServeInv, Session!Stdio
<1>1. SentInv' /\ sSent' \in Seq(Event) /\ sSeq' \in Nat
    <2>1. Session!NoEvent /\ sOpened' = sOpened /\ sClosed' = sClosed /\ (sClosed => sReason' = sReason)
        BY <1>0 DEF PhaseInv, Session!Signal, Session!work, Session!io, Session!NoEvent
    <2> QED
        BY <2>1, SaysNothing
<1>2. ServeState'
    BY <1>0, <1>1 DEF ServeState, Session!Signal, Session!work, Session!io, Session!NoEvent
<1>3. PhaseInv'
    BY <1>0 DEF PhaseInv, Session!Signal, Session!work, Session!io, Session!NoEvent
<1>4. HeldInv'
    BY <1>0 DEF HeldInv, PhaseInv, Session!Signal, Session!work, Session!io, Session!NoEvent
<1> QED
    BY <1>1, <1>2, <1>3, <1>4 DEF ServeInv

LEMMA KeepsTakeBad ==
    ASSUME ServeInv, sSession' = sSession, Session!TakeBad
    PROVE  ServeInv'
<1>0. ServeState /\ PhaseInv /\ HeldInv /\ Session!Stdio' = Session!Stdio
    BY DEF ServeInv, Session!Stdio
<1>1. SentInv' /\ sSent' \in Seq(Event) /\ sSeq' \in Nat
    <2>1. sOpened /\ ~sClosed /\ sOpened' = sOpened /\ sClosed' = sClosed
        BY <1>0 DEF PhaseInv, Session!TakeBad, Session!Taken, Session!work, Session!io, Session!AfterCommand
    <2>2. "error.transient" \in Types \ {"session.closed"}
        BY DEF Types
    <2> QED
        BY <2>1, <2>2, SaysOne DEF Session!TakeBad, Session!Taken, Session!work, Session!io, Session!AfterCommand
<1>2. ServeState'
    BY <1>0, <1>1 DEF ServeState, Session!TakeBad, Session!Taken, Session!work, Session!io, Session!AfterCommand
<1>3. PhaseInv'
    BY <1>0 DEF PhaseInv, Session!TakeBad, Session!Taken, Session!work, Session!io, Session!AfterCommand
<1>4. HeldInv'
    BY <1>0 DEF HeldInv, PhaseInv, Session!TakeBad, Session!Taken, Session!work, Session!io, Session!AfterCommand
<1> QED
    BY <1>1, <1>2, <1>3, <1>4 DEF ServeInv

LEMMA KeepsTakeQuit ==
    ASSUME ServeInv, sSession' = sSession, Session!TakeQuit
    PROVE  ServeInv'
<1>0. ServeState /\ PhaseInv /\ HeldInv /\ Session!Stdio' = Session!Stdio
    BY DEF ServeInv, Session!Stdio
<1>1. SentInv' /\ sSent' \in Seq(Event) /\ sSeq' \in Nat
    <2>1. Session!NoEvent /\ sOpened' = sOpened /\ sClosed' = sClosed /\ (sClosed => sReason' = sReason)
        BY <1>0 DEF PhaseInv, Session!TakeQuit, Session!work, Session!io, Session!NoEvent, Session!Taken
    <2> QED
        BY <2>1, SaysNothing
<1>2. ServeState'
    BY <1>0, <1>1 DEF ServeState, Session!TakeQuit, Session!work, Session!io, Session!NoEvent, Session!Taken
<1>3. PhaseInv'
    BY <1>0 DEF PhaseInv, Session!TakeQuit, Session!work, Session!io, Session!NoEvent, Session!Taken
<1>4. HeldInv'
    BY <1>0 DEF HeldInv, PhaseInv, Session!TakeQuit, Session!work, Session!io, Session!NoEvent, Session!Taken
<1> QED
    BY <1>1, <1>2, <1>3, <1>4 DEF ServeInv

LEMMA KeepsTakeEnd ==
    ASSUME ServeInv, sSession' = sSession, Session!TakeEnd
    PROVE  ServeInv'
<1>0. ServeState /\ PhaseInv /\ HeldInv /\ Session!Stdio' = Session!Stdio
    BY DEF ServeInv, Session!Stdio
<1>1. SentInv' /\ sSent' \in Seq(Event) /\ sSeq' \in Nat
    <2>1. Session!NoEvent /\ sOpened' = sOpened /\ sClosed' = sClosed /\ (sClosed => sReason' = sReason)
        BY <1>0 DEF PhaseInv, Session!TakeEnd, Session!work, Session!io, Session!NoEvent, Session!AtEnd
    <2> QED
        BY <2>1, SaysNothing
<1>2. ServeState'
    BY <1>0, <1>1 DEF ServeState, Session!TakeEnd, Session!work, Session!io, Session!NoEvent, Session!AtEnd
<1>3. PhaseInv'
    BY <1>0 DEF PhaseInv, Session!TakeEnd, Session!work, Session!io, Session!NoEvent, Session!AtEnd
<1>4. HeldInv'
    BY <1>0 DEF HeldInv, PhaseInv, Session!TakeEnd, Session!work, Session!io, Session!NoEvent, Session!AtEnd
<1> QED
    BY <1>1, <1>2, <1>3, <1>4 DEF ServeInv

LEMMA KeepsTakeInvoke ==
    ASSUME ServeInv, sSession' = sSession, Session!TakeInvoke
    PROVE  ServeInv'
<1>0. ServeState /\ PhaseInv /\ HeldInv /\ Session!Stdio' = Session!Stdio
    BY DEF ServeInv, Session!Stdio
<1>1. SentInv' /\ sSent' \in Seq(Event) /\ sSeq' \in Nat
    <2>1. Session!NoEvent /\ sOpened' = sOpened /\ sClosed' = sClosed /\ (sClosed => sReason' = sReason)
        BY <1>0 DEF PhaseInv, Session!TakeInvoke, Session!work, Session!io, Session!NoEvent, Session!Taken, Session!AfterCommand
    <2> QED
        BY <2>1, SaysNothing
<1>2. ServeState'
    BY <1>0, <1>1 DEF ServeState, Session!TakeInvoke, Session!work, Session!io, Session!NoEvent, Session!Taken, Session!AfterCommand
<1>3. PhaseInv'
    BY <1>0 DEF PhaseInv, Session!TakeInvoke, Session!work, Session!io, Session!NoEvent, Session!Taken, Session!AfterCommand
<1>4. HeldInv'
    BY <1>0 DEF HeldInv, PhaseInv, Session!TakeInvoke, Session!work, Session!io, Session!NoEvent, Session!Taken, Session!AfterCommand
<1> QED
    BY <1>1, <1>2, <1>3, <1>4 DEF ServeInv

LEMMA KeepsTakeFirst ==
    ASSUME ServeInv, sSession' = sSession, Session!TakeFirst
    PROVE  ServeInv'
<1>0. ServeState /\ PhaseInv /\ HeldInv /\ Session!Stdio' = Session!Stdio
    BY DEF ServeInv, Session!Stdio
<1>1. SentInv' /\ sSent' \in Seq(Event) /\ sSeq' \in Nat
    <2>1. Session!NoEvent /\ sOpened' = sOpened /\ sClosed' = sClosed /\ (sClosed => sReason' = sReason)
        BY <1>0 DEF HeldInv, PhaseInv, Session!TakeFirst, Session!work, Session!io, Session!NoEvent, Session!Taken
    <2> QED
        BY <2>1, SaysNothing
<1>2. ServeState'
    BY <1>0, <1>1 DEF ServeState, Session!TakeFirst, Session!work, Session!io, Session!NoEvent, Session!Taken
<1>3. PhaseInv'
    BY <1>0 DEF HeldInv, PhaseInv, Session!TakeFirst, Session!work, Session!io, Session!NoEvent, Session!Taken
<1>4. HeldInv'
    BY <1>0 DEF HeldInv, PhaseInv, Session!TakeFirst, Session!work, Session!io, Session!NoEvent, Session!Taken
<1> QED
    BY <1>1, <1>2, <1>3, <1>4 DEF ServeInv

LEMMA KeepsTakeNoModel ==
    ASSUME ServeInv, sSession' = sSession, Session!TakeNoModel
    PROVE  ServeInv'
<1>0. ServeState /\ PhaseInv /\ HeldInv /\ Session!Stdio' = Session!Stdio
    BY DEF ServeInv, Session!Stdio
<1>1. SentInv' /\ sSent' \in Seq(Event) /\ sSeq' \in Nat
    <2>1. sOpened /\ ~sClosed /\ sOpened' = sOpened /\ sClosed' = sClosed
        BY <1>0 DEF PhaseInv, Session!TakeNoModel, Session!Taken, Session!work, Session!io, Session!AfterCommand
    <2>2. "error.fatal" \in Types \ {"session.closed"} /\ "error.transient" \in Types \ {"session.closed"}
        BY DEF Types
    <2>3. Session!Emit(<<"error.fatal">>) \/ Session!Emit(<<"error.transient">>)
        BY DEF Session!TakeNoModel
    <2> QED
        BY <2>1, <2>2, <2>3, SaysOne
<1>2. ServeState'
    BY <1>0, <1>1 DEF ServeState, Session!TakeNoModel, Session!Taken, Session!work, Session!io, Session!AfterCommand
<1>3. PhaseInv'
    BY <1>0 DEF PhaseInv, Session!TakeNoModel, Session!Taken, Session!work, Session!io, Session!AfterCommand
<1>4. HeldInv'
    BY <1>0 DEF HeldInv, PhaseInv, Session!TakeNoModel, Session!Taken, Session!work, Session!io, Session!AfterCommand
<1> QED
    BY <1>1, <1>2, <1>3, <1>4 DEF ServeInv

LEMMA KeepsBeat ==
    ASSUME ServeInv, sSession' = sSession, Session!Beat
    PROVE  ServeInv'
<1>0. ServeState /\ PhaseInv /\ HeldInv /\ Session!Stdio' = Session!Stdio
    BY DEF ServeInv, Session!Stdio
<1>1. SentInv' /\ sSent' \in Seq(Event) /\ sSeq' \in Nat
    <2>1. sOpened /\ ~sClosed /\ sOpened' = sOpened /\ sClosed' = sClosed
        BY <1>0 DEF PhaseInv, Session!Beat, Session!work, Session!io
    <2>2. "session.heartbeat" \in Types \ {"session.closed"}
        BY DEF Types
    <2> QED
        BY <2>1, <2>2, SaysOne DEF Session!Beat, Session!work, Session!io
<1>2. ServeState'
    BY <1>0, <1>1 DEF ServeState, Session!Beat, Session!work, Session!io
<1>3. PhaseInv'
    BY <1>0 DEF PhaseInv, Session!Beat, Session!work, Session!io
<1>4. HeldInv'
    BY <1>0 DEF HeldInv, PhaseInv, Session!Beat, Session!work, Session!io
<1> QED
    BY <1>1, <1>2, <1>3, <1>4 DEF ServeInv

LEMMA KeepsTurnEnds ==
    ASSUME ServeInv, sSession' = sSession, Session!TurnEnds
    PROVE  ServeInv'
<1>0. ServeState /\ PhaseInv /\ HeldInv /\ Session!Stdio' = Session!Stdio
    BY DEF ServeInv, Session!Stdio
<1>1. SentInv' /\ sSent' \in Seq(Event) /\ sSeq' \in Nat
    <2>1. sOpened /\ ~sClosed /\ sOpened' = sOpened /\ sClosed' = sClosed
        BY <1>0 DEF PhaseInv, Session!TurnEnds, Session!work, Session!io
    <2>2. "message.assistant" \in Types \ {"session.closed"}
        BY DEF Types
    <2> QED
        BY <2>1, <2>2, SaysOne DEF Session!TurnEnds, Session!work, Session!io
<1>2. ServeState'
    BY <1>0, <1>1 DEF ServeState, Session!TurnEnds, Session!work, Session!io
<1>3. PhaseInv'
    BY <1>0 DEF PhaseInv, Session!TurnEnds, Session!work, Session!io
<1>4. HeldInv'
    BY <1>0 DEF HeldInv, PhaseInv, Session!TurnEnds, Session!work, Session!io
<1> QED
    BY <1>1, <1>2, <1>3, <1>4 DEF ServeInv

LEMMA KeepsStopTasks ==
    ASSUME ServeInv, sSession' = sSession, Session!StopTasks
    PROVE  ServeInv'
<1>0. ServeState /\ PhaseInv /\ HeldInv /\ Session!Stdio' = Session!Stdio
    BY DEF ServeInv, Session!Stdio
<1>1. SentInv' /\ sSent' \in Seq(Event) /\ sSeq' \in Nat
    <2>1. sOpened /\ ~sClosed /\ sOpened' = sOpened /\ sClosed' = sClosed
        BY <1>0 DEF PhaseInv, Session!StopTasks, Session!work, Session!io, Session!NoEvent
    <2>2. "prompt.cancelled" \in Types \ {"session.closed"}
        BY DEF Types
    <2>3. Session!NoEvent \/ Session!Emit(<<"prompt.cancelled">>)
        BY DEF Session!StopTasks
    <2> QED
        BY <2>1, <2>2, <2>3, SaysNothing, SaysOne
<1>2. ServeState'
    BY <1>0, <1>1 DEF ServeState, Session!StopTasks, Session!work, Session!io, Session!NoEvent
<1>3. PhaseInv'
    BY <1>0 DEF PhaseInv, Session!StopTasks, Session!work, Session!io, Session!NoEvent
<1>4. HeldInv'
    BY <1>0 DEF HeldInv, PhaseInv, Session!StopTasks, Session!work, Session!io, Session!NoEvent
<1> QED
    BY <1>1, <1>2, <1>3, <1>4 DEF ServeInv

LEMMA KeepsClose ==
    ASSUME ServeInv, sSession' = sSession, Session!Close
    PROVE  ServeInv'
<1>0. ServeState /\ PhaseInv /\ HeldInv /\ Session!Stdio' = Session!Stdio
    BY DEF ServeInv, Session!Stdio
<1>5. sOpened /\ ~sClosed /\ sClosed'
    BY <1>0 DEF PhaseInv, Session!Close, Session!CloseEmitter
<1>1. SentInv' /\ sSent' \in Seq(Event) /\ sSeq' \in Nat
    <2>1. sOpened /\ ~sClosed /\ sOpened' = sOpened /\ sReason' = sReason
        BY <1>0 DEF PhaseInv, Session!Close
    <2>2. Session!CloseEmitter
        BY <2>1 DEF Session!Close
    <2> QED
        BY <2>1, <2>2, Closes
<1>2. ServeState'
    BY <1>0, <1>1, <1>5 DEF ServeState, Session!Close, Session!work, Session!io
<1>3. PhaseInv'
    BY <1>0, <1>5 DEF PhaseInv, Session!Close, Session!work, Session!io
<1>4. HeldInv'
    <2>1. sAgent' # "live" /\ (sAgent # "live" => sAgents' = sAgents) /\ (sAgent = "live" => sAgents' = sAgents - 1)
        BY <1>0 DEF HeldInv, Session!Close
    <2>2. sLtstore' = ~Session!Stdio /\ sHandles' = 0 /\ sStage' = "ended" /\ sLeaks' = sLeaks
        BY DEF Session!Close
    <2>3. Session!Stdio' => ~sLtstore'
        BY <1>0, <2>2
    <2>4. "setup" \notin sSession.failures => sLeaks' = 0
        BY <1>0, <2>2 DEF HeldInv
    <2>5. ~(Session!Stdio /\ "mcp" \in sSession.failures) => sAgents' = 0
        BY <1>0, <2>1 DEF HeldInv
    <2> QED
        BY <1>0, <2>1, <2>2, <2>3, <2>4, <2>5 DEF HeldInv
<1> QED
    BY <1>1, <1>2, <1>3, <1>4 DEF ServeInv

THEOREM SessionHolds ==
    Session!Spec => []ServeInv
<1>1. Session!Init => ServeInv
    <2> SUFFICES ASSUME Session!Init PROVE ServeInv
        OBVIOUS
    <2>1. ServeState
        <3>1. sSent \in Seq(Event) /\ sSeq \in Nat /\ sAgents \in Int /\ sHandles \in Nat /\ sLeaks \in Nat
            BY DEF Session!Init
        <3>2. {sOpened, sClosed, sHeart, sTurn, sShutdown} \subseteq BOOLEAN
            BY DEF Session!Init
        <3> QED
            BY <3>1, <3>2 DEF Session!Init, ServeState
    <2>2. PhaseInv
        BY DEF Session!Init, PhaseInv
    <2>3. HeldInv
        BY DEF Session!Init, HeldInv
    <2>4. SentInv
        BY DEF Session!Init, SentInv
    <2> QED
        BY <2>1, <2>2, <2>3, <2>4 DEF ServeInv
<1>2. ServeInv /\ [Session!Next]_Session!vars => ServeInv'
    <2> SUFFICES ASSUME ServeInv, [Session!Next]_Session!vars PROVE ServeInv'
        OBVIOUS
    <2>1. CASE UNCHANGED Session!vars
        <3>1. ServeState' /\ PhaseInv'
            BY <2>1 DEF ServeInv, ServeState, PhaseInv, Session!vars, Session!Stdio
        <3>2. HeldInv' /\ SentInv'
            BY <2>1 DEF ServeInv, HeldInv, SentInv, Session!vars, Session!Stdio
        <3> QED
            BY <3>1, <3>2 DEF ServeInv
    <2>2. CASE Session!Next
        <3> USE <2>2
        <3>1. sSession' = sSession
            BY DEF Session!Next
        <3>2. CASE Session!Boot
            BY <3>1, <3>2, KeepsStartStdio, KeepsAccept, KeepsOpenMemory, KeepsCreateAgent, KeepsConnectMcp DEF Session!Boot
        <3>3. CASE Session!Fails
            BY <3>1, <3>3, KeepsRefuse, KeepsMemoryFails, KeepsCreateFails, KeepsMcpFails, KeepsTakeNoModel DEF Session!Fails
        <3>4. CASE Session!Serve
            BY <3>1, <3>4, KeepsTakeBad, KeepsTakeQuit, KeepsTakeEnd, KeepsTakeInvoke, KeepsTakeFirst DEF Session!Serve
        <3>5. CASE Session!Teardown
            BY <3>1, <3>5, KeepsStopTasks, KeepsClose DEF Session!Teardown
        <3>6. CASE Session!Write \/ Session!EndInput \/ Session!Signal
            BY <3>1, <3>6, KeepsWrite, KeepsEndInput, KeepsSignal
        <3>7. CASE Session!Beat \/ Session!TurnEnds
            BY <3>1, <3>7, KeepsBeat, KeepsTurnEnds
        <3> QED
            BY <3>2, <3>3, <3>4, <3>5, <3>6, <3>7 DEF Session!Next
    <2> QED
        BY <2>1, <2>2
<1> QED
    BY <1>1, <1>2, PTL DEF Session!Spec

(* What the client sees, of one state.                                     *)
(* An instance counts as its module does. *)
LEMMA SameCount == ASSUME NEW S PROVE Session!Cardinality(S) = Cardinality(S)
    BY DEF Session!Cardinality, Cardinality

LEMMA ShownSession ==
    ASSUME ServeInv
    PROVE  Session!SessionIsClosed /\ Session!ClosedIsLast /\ Session!ReadyFirst /\ Session!SeqRises /\ Session!NothingIsLeft
<1>1. ServeState /\ PhaseInv /\ HeldInv /\ SentInv
    BY DEF ServeInv
<1>2. sSent \in Seq(Event) /\ Len(sSent) \in Nat /\ DOMAIN sSent = 1..Len(sSent)
    BY <1>1 DEF ServeState
<1>3. Session!ClosedIsLast
    BY <1>1, <1>2 DEF SentInv, Session!ClosedIsLast
<1>4. Session!SessionIsClosed
    <2> SUFFICES ASSUME sStage = "ended", sOpened
        PROVE  /\ Cardinality({i \in DOMAIN sSent : sSent[i].type = "session.closed"})
                    = IF sReason \in Session!CloseReasons THEN 1 ELSE 0
               /\ Session!Stdio => sReason \in Session!CloseReasons
        BY SameCount DEF Session!SessionIsClosed
    <2>1. Session!Stdio => sReason \in Session!CloseReasons
        BY <1>1 DEF PhaseInv, Session!CloseReasons
    <2>2. CASE sReason \in Session!CloseReasons
        <3>1. sClosed
            BY <1>1, <2>2 DEF PhaseInv, Session!CloseReasons
        <3>2. Len(sSent) \in DOMAIN sSent /\ sSent[Len(sSent)].type = "session.closed"
            <4>1. Len(sSent) >= 2
                BY <1>1 DEF SentInv
            <4>2. sSent[Len(sSent)].type = "session.closed"
                BY <1>1, <2>2, <3>1 DEF SentInv
            <4> QED
                BY <1>2, <4>1, <4>2
        <3>3. {i \in DOMAIN sSent : sSent[i].type = "session.closed"} = {Len(sSent)}
            BY <1>1, <1>2, <3>2 DEF SentInv
        <3> QED
            BY <2>1, <2>2, <3>3, SameCount, FS_Singleton
    <2>3. CASE sReason \notin Session!CloseReasons
        <3>1. {i \in DOMAIN sSent : sSent[i].type = "session.closed"} = {}
            BY <1>1, <1>2, <2>3 DEF SentInv
        <3> QED
            BY <2>1, <2>3, <3>1, SameCount, FS_EmptySet
    <2> QED
        BY <2>2, <2>3
<1>5. Session!ReadyFirst
    <2> SUFFICES ASSUME NEW i \in DOMAIN sSent,
                        sSent[i].type \in {"runtime.config", "runtime.tools", "message.assistant", "session.heartbeat"}
                 PROVE  \E j \in 1..(i - 1) : sSent[j].type = "runtime.ready"
        BY DEF Session!ReadyFirst
    <2>1. i \in 1..Len(sSent) /\ sSent[i].type \notin {"error.transient", "session.opened", "session.resumed", "runtime.ready"}
        BY <1>2
    <2>2. sOpened
        BY <1>1, <2>1 DEF SentInv
    <2>3. i # 1 /\ i # 2 /\ sSent[2].type = "runtime.ready"
        BY <1>1, <2>1, <2>2 DEF SentInv
    <2>4. 2 \in 1..(i - 1)
        BY <1>2, <2>1, <2>3
    <2> QED
        BY <2>3, <2>4
<1>6. Session!SeqRises
    <2> SUFFICES ASSUME Session!Stdio, NEW i \in 2..Len(sSent) PROVE sSent[i - 1].seq < sSent[i].seq
        BY DEF Session!SeqRises
    <2>1. i \in 1..Len(sSent) /\ i - 1 \in 1..Len(sSent)
        BY <1>2
    <2>2. sSent[i - 1].seq = i - 1 /\ sSent[i].seq = i
        BY <1>1, <2>1 DEF SentInv
    <2> QED
        BY <2>1, <2>2
<1>7. Session!NothingIsLeft
    BY <1>1 DEF HeldInv, Session!NothingIsLeft
<1> QED
    BY <1>3, <1>4, <1>5, <1>6, <1>7

THEOREM SessionShows ==
    Session!Spec => [](Session!SessionIsClosed /\ Session!ClosedIsLast /\ Session!ReadyFirst /\ Session!SeqRises /\ Session!NothingIsLeft)
<1>1. ServeInv => Session!SessionIsClosed /\ Session!ClosedIsLast /\ Session!ReadyFirst /\ Session!SeqRises /\ Session!NothingIsLeft
    BY ShownSession
<1> QED
    BY <1>1, SessionHolds, PTL

-------------------------------------------------------------------------------
(* What the runs check of them. *)

\* The pool reserves, finishes and stops as it promises, for any tasks, workers,
\* capabilities, depths, retries and restarts (registry, scheduler, pool).
THEOREM PoolStaysWhole ==
  ASSUME Pool!RuntimeAssumption
  PROVE  Pool!Spec => PoolHolds
<1>1. Pool!ReservationsHold /\ Pool!StopEndsAll /\ Pool!TypeOK
        => Pool!TypeOK /\ ReservationsHold /\ StopEndsAll
  BY DEF ReservationsHold, StopEndsAll
<1>2. Pool!Spec => [](Pool!TypeOK /\ ReservationsHold /\ StopEndsAll)
  BY <1>1, RuntimeTypes, ReservationsAreHeld, StopLeavesNothing, PTL
<1> QED
  BY <1>2, FinalIsFinal DEF PoolHolds

\* A session, on stdio or a WebSocket, whatever of its bootstrap fails and whenever
\* it is stopped, is opened before anything is said of it, closed exactly once and at
\* the end for a reason of the schema, numbers what it says and leaves nothing
\* behind (runtime/__main__.py, ws.py, session_bootstrap.py).
THEOREM SessionStaysInOrder ==
  Session!Spec => []SessionCloses
<1>1. Session!SessionIsClosed /\ Session!ClosedIsLast /\ Session!ReadyFirst /\ Session!SeqRises /\ Session!NothingIsLeft
        => SessionCloses
  BY DEF SessionCloses, SessionIsClosed, ClosedIsLast, ReadyFirst, SeqRises, NothingIsLeft
<1> QED
  BY <1>1, SessionShows, PTL
===============================================================================
