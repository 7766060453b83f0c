---------------------------- MODULE CommandDispatch ----------------------------
(***************************************************************************)
(* The invocations of a session and the serve loop that starts, cancels    *)
(* and joins them: runtime/command_dispatch.py, runtime/bridge.py,         *)
(* runtime/session_bootstrap.py and the serve loops of runtime/__main__.py *)
(* and runtime/ws.py.                                                      *)
(*                                                                         *)
(* A step is what asyncio runs without giving up the loop.  The loop's     *)
(* ready queue is first-in first-out, so a task's first step and a         *)
(* finished task's done callbacks keep the order they were scheduled in    *)
(* (`ready'); the wake-ups of the serve loop and of running agents come at *)
(* any moment in between.                                                  *)
(***************************************************************************)
EXTENDS Naturals, Sequences

CONSTANTS
  Thread,          \* AGP threads
  Task,            \* asyncio tasks, one for each accepted invoke or assign
  NoThread, NoTask

VARIABLES
  main,            \* the serve loop: "serving" (reads a line), "awaiting" (inside a
                   \* handler), "leaving", "joining" (in the teardown) or "closed"
  clearing,        \* the thread whose memory the handler is clearing, or NoThread
  stop,            \* the shutdown event
  state,           \* a task: "unused", "created", "running", "done", "gone"
  on,              \* the thread the command of a task names
  ready,           \* tasks whose first step or done callbacks are scheduled
  thread_tasks,    \* thread -> task
  invocation_tasks,
  must_cancel,     \* tasks that get CancelledError at their next step
  reason,          \* HITLBridge._task_cancel_reason
  wire,            \* what was last published about a task
  joined,          \* the tasks the teardown waits for
  late,            \* those whose join timed out
  hit,             \* history: tasks a command.cancel reached
  swallowed        \* history: tasks whose agent caught CancelledError and went on

loopVars  == <<main, clearing, stop, joined, late>>
tableVars == <<thread_tasks, invocation_tasks>>
taskVars  == <<state, on, ready, must_cancel, reason, wire, hit, swallowed>>
dispatchVars == <<loopVars, tableVars, taskVars>>

ASSUME NullAssumption == NoTask \notin Task /\ NoThread \notin Thread

Reason  == {"user_aborted", "shutdown"}
Outcome == {"completed", "error"} \cup Reason

TypeOK ==
  /\ main \in {"serving", "awaiting", "leaving", "joining", "closed"}
  /\ clearing \in Thread \cup {NoThread}
  /\ stop \in BOOLEAN
  /\ state \in [Task -> {"unused", "created", "running", "done", "gone"}]
  /\ on \in [Task -> Thread]
  /\ ready \in Seq(Task)
  /\ thread_tasks \in [Thread -> Task \cup {NoTask}]
  /\ invocation_tasks \subseteq Task
  /\ must_cancel \subseteq Task
  /\ reason \in [Task -> Reason \cup {"none"}]
  /\ wire \in [Task -> {"silent", "busy"} \cup Outcome]
  /\ joined \subseteq Task
  /\ late \subseteq Task
  /\ hit \subseteq Task
  /\ swallowed \subseteq Task

Init ==
  /\ main = "serving"
  /\ clearing = NoThread
  /\ stop = FALSE
  /\ state = [t \in Task |-> "unused"]
  /\ on \in [Task -> Thread]
  /\ ready = <<>>
  /\ thread_tasks = [h \in Thread |-> NoTask]
  /\ invocation_tasks = {}
  /\ must_cancel = {}
  /\ reason = [t \in Task |-> "none"]
  /\ wire = [t \in Task |-> "silent"]
  /\ joined = {}
  /\ late = {}
  /\ hit = {}
  /\ swallowed = {}

\* Mutant: cancel without asking t.done().
LiveUntilForgotten(t) == state[t] \in {"created", "running", "done"}

Live(t) == state[t] \in {"created", "running"}       \* t exists and not t.done()

Busy(h) == thread_tasks[h] # NoTask /\ Live(thread_tasks[h])

\* Mutant: only the thread table is asked, as if a thread had one task at most.
SeenByThread == {thread_tasks[h] : h \in Thread} \ {NoTask}

\* Every task either table knows: `seen' of command.cancel and of the teardown.
Seen == invocation_tasks \cup ({thread_tasks[h] : h \in Thread} \ {NoTask})

-------------------------------------------------------------------------------
(* The serve loop *)

\* The event is looked at between two commands only: a line that arrives after
\* a signal is still dispatched.
AfterCommand == main' = IF stop THEN "leaving" ELSE "serving"

\* command.invoke and command.worker.assign: refused while the thread is busy;
\* no await separates the check from the update of the tables.
Invoke(t) ==
  /\ main = "serving"
  /\ state[t] = "unused"
  /\ ~Busy(on[t])
  /\ state' = [state EXCEPT ![t] = "created"]
  /\ ready' = Append(ready, t)
  /\ invocation_tasks' = invocation_tasks \cup {t}
  /\ thread_tasks' = [thread_tasks EXCEPT ![on[t]] = t]
  /\ AfterCommand
  /\ UNCHANGED <<clearing, stop, joined, late, on, must_cancel, reason, wire, hit, swallowed>>

\* Mutants: the teardown passes on its own close reason; a task that has not been
\* bound yet is overlooked.
CancelTasksRawReason(ts, why) ==
  /\ must_cancel' = must_cancel \cup {t \in ts : Live(t)}
  /\ reason' = [t \in Task |-> IF t \in ts /\ Live(t)
                               THEN (IF why = "shutdown" THEN "disconnect" ELSE why) ELSE reason[t]]
CancelBoundTasks(ts, why) ==
  /\ must_cancel' = must_cancel \cup {t \in ts : state[t] = "running"}
  /\ reason' = [t \in Task |-> IF t \in ts /\ Live(t) THEN why ELSE reason[t]]

\* prepare_invocation_cancel and task.cancel() on those of ts that are not done.
CancelTasks(ts, why) ==
  /\ must_cancel' = must_cancel \cup {t \in ts : Live(t)}
  /\ reason' = [t \in Task |-> IF t \in ts /\ Live(t) THEN why ELSE reason[t]]

UserCancel(ts) ==
  /\ main = "serving"
  /\ CancelTasks(ts, "user_aborted")
  /\ hit' = hit \cup {t \in ts : Live(t)}
  /\ AfterCommand
  /\ UNCHANGED <<clearing, stop, joined, late, tableVars, state, on, ready, wire, swallowed>>

CancelThread(h) == Busy(h) /\ UserCancel({thread_tasks[h]})
CancelEverything == UserCancel(Seen)

\* command.memory.clear and pop_last_turn: refused while the thread is busy,
\* then the store is awaited.
ClearMemory(h) ==
  /\ main = "serving"
  /\ ~Busy(h)
  /\ main' = "awaiting"
  /\ clearing' = h
  /\ UNCHANGED <<stop, joined, late, tableVars, taskVars>>

\* command.tool.invoke, plan.preview, session.resume: the handler awaits a tool,
\* a model or the event store, and nothing else is read meanwhile.
AwaitOther ==
  /\ main = "serving"
  /\ main' = "awaiting"
  /\ UNCHANGED <<clearing, stop, joined, late, tableVars, taskVars>>

HandlerReturns ==
  /\ main = "awaiting"
  /\ clearing' = NoThread
  /\ AfterCommand
  /\ UNCHANGED <<stop, joined, late, tableVars, taskVars>>

\* SIGINT or SIGTERM: the handler sets the event and wakes nobody.
Signal ==
  /\ ~stop
  /\ stop' = TRUE
  /\ UNCHANGED <<main, clearing, joined, late, tableVars, taskVars>>

\* command.runtime.shutdown, the end of stdin, or a WebSocket that closes.
Shutdown ==
  /\ main = "serving"
  /\ stop' = TRUE
  /\ main' = "leaving"
  /\ UNCHANGED <<clearing, joined, late, tableVars, taskVars>>

\* cancel_runtime_invocations, once the heartbeat task has gone.
CancelInvocations ==
  /\ main = "leaving"
  /\ main' = "joining"
  /\ CancelTasks(Seen, "shutdown")
  /\ joined' = Seen
  /\ UNCHANGED <<clearing, stop, late, tableVars, state, on, ready, wire, hit, swallowed>>

\* Mutant: the join has no timeout.
JoinForEver(t) == main = "joining" /\ t \in joined \ late /\ FALSE

\* wait_for(shield(t), INVOCATION_JOIN_TIMEOUT_S) gives up on t.
JoinTimesOut(t) ==
  /\ main = "joining"
  /\ t \in joined \ late
  /\ Live(t)
  /\ late' = late \cup {t}
  /\ UNCHANGED <<main, clearing, stop, joined, tableVars, taskVars>>

\* The gather returns; the emitter, the agent and its stores are closed.
CloseSession ==
  /\ main = "joining"
  /\ \A t \in joined : Live(t) => t \in late
  /\ main' = "closed"
  /\ UNCHANGED <<clearing, stop, joined, late, tableVars, taskVars>>

-------------------------------------------------------------------------------
(* An invocation's task *)

\* The first step of a task: it is bound to its emitter and publishes
\* agent.busy, unless it was cancelled before: then nothing of it ever runs.
Start(t) ==
  /\ ready # <<>> /\ t = Head(ready)
  /\ state[t] = "created"
  /\ IF t \in must_cancel
     THEN /\ state' = [state EXCEPT ![t] = "done"]
          /\ ready' = Append(Tail(ready), t)
          /\ must_cancel' = must_cancel \ {t}
          /\ UNCHANGED wire
     ELSE /\ state' = [state EXCEPT ![t] = "running"]
          /\ ready' = Tail(ready)
          /\ wire' = [wire EXCEPT ![t] = "busy"]
          /\ UNCHANGED must_cancel
  /\ UNCHANGED <<loopVars, tableVars, on, reason, hit, swallowed>>

Ends(t, outcome) ==
  /\ state' = [state EXCEPT ![t] = "done"]
  /\ ready' = Append(ready, t)
  /\ wire' = [wire EXCEPT ![t] = outcome]

\* The event stream ends, or raises.
Finish(t) ==
  /\ state[t] = "running"
  /\ t \notin must_cancel
  /\ \E outcome \in {"completed", "error"} : Ends(t, outcome)
  /\ UNCHANGED <<loopVars, tableVars, on, must_cancel, reason, hit, swallowed>>

\* Mutant: every CancelledError is taken for the user's.
AlwaysTheUser(t) == "user_aborted"

\* consume_invocation_cancel_reason
ConsumedReason(t) == IF reason[t] = "none" THEN "user_aborted" ELSE reason[t]

\* CancelledError reaches run_invocation.
Abort(t) ==
  /\ state[t] = "running"
  /\ t \in must_cancel
  /\ Ends(t, ConsumedReason(t))
  /\ must_cancel' = must_cancel \ {t}
  /\ reason' = [reason EXCEPT ![t] = "none"]
  /\ UNCHANGED <<loopVars, tableVars, on, hit, swallowed>>

\* CancelledError is caught by a pattern (patterns/hitl.py) and the stream goes on.
Swallow(t) ==
  /\ state[t] = "running"
  /\ t \in must_cancel
  /\ must_cancel' = must_cancel \ {t}
  /\ swallowed' = swallowed \cup {t}
  /\ UNCHANGED <<loopVars, tableVars, state, on, ready, reason, wire, hit>>

\* The done callbacks, in the order they were added: the thread's entry is
\* removed whichever task it names.  A task that never started was never bound
\* to the bridge, whose own callback drops the cancel reason.
DoneCallbacks(t) ==
  /\ ready # <<>> /\ t = Head(ready)
  /\ state[t] = "done"
  /\ ready' = Tail(ready)
  /\ state' = [state EXCEPT ![t] = "gone"]
  /\ invocation_tasks' = invocation_tasks \ {t}
  /\ thread_tasks' = [thread_tasks EXCEPT ![on[t]] = NoTask]
  /\ reason' = [reason EXCEPT ![t] = IF wire[t] = "silent" THEN @ ELSE "none"]
  /\ UNCHANGED <<loopVars, on, must_cancel, wire, hit, swallowed>>

AgentStep(t) == Finish(t) \/ Abort(t) \/ Swallow(t)
LoopStep == HandlerReturns \/ CancelInvocations \/ CloseSession

Next ==
  \/ \E t \in Task : Invoke(t) \/ Start(t) \/ AgentStep(t) \/ DoneCallbacks(t) \/ JoinTimesOut(t)
  \/ \E h \in Thread : CancelThread(h) \/ ClearMemory(h)
  \/ CancelEverything
  \/ AwaitOther
  \/ Signal
  \/ Shutdown
  \/ LoopStep

\* The loop runs what is ready, delivers a CancelledError and fires due timers.
\* Nothing obliges an agent to finish, a client to send, or a tool to return.
Fairness ==
  /\ \A t \in Task : /\ WF_dispatchVars(Start(t))
                     /\ WF_dispatchVars(DoneCallbacks(t))
                     /\ WF_dispatchVars(Abort(t) \/ Swallow(t))
                     /\ WF_dispatchVars(JoinTimesOut(t))
  /\ WF_dispatchVars(CancelInvocations)
  /\ WF_dispatchVars(CloseSession)

SafetySpec == Init /\ [][Next]_dispatchVars
Spec == SafetySpec /\ Fairness
-------------------------------------------------------------------------------
(* Properties *)

\* The agent, its memory and its stores are closed only after every invocation
\* has ended or was given the whole join timeout (teardown_runtime_session),
\* also those the thread table has lost track of.
AgentClosedLast == main = "closed" => \A t \in Task : Live(t) => t \in late

\* prompt.cancelled tells the client why: "user_aborted" only for an invocation
\* that a command.cancel reached, "shutdown" only from the teardown on, however
\* cancels, teardown and agents that ignore a cancel interleave
\* (prepare_invocation_cancel, consume_invocation_cancel_reason).
ReasonIsTrue ==
  \A t \in Task :
    /\ wire[t] = "user_aborted" => t \in hit
    /\ wire[t] = "shutdown" => main \in {"joining", "closed"}

\* An invocation that a command.cancel reached does not complete as if nothing
\* had happened, unless its agent caught the CancelledError.
AbortIsHonoured ==
  \A t \in hit : wire[t] \in {"completed", "error"} => t \in swallowed

\* Once the teardown cancels the invocations the session closes, even if an
\* agent ignores its cancel (INVOCATION_JOIN_TIMEOUT_S).
TeardownEnds == main = "leaving" ~> main = "closed"

\* A cancelled invocation ends, or its agent chose to go on.
AbortEndsInvocation ==
  \A t \in Task : t \in hit ~> (state[t] = "gone" \/ t \in swallowed)

\* tests/runtime/test_command_dispatch_memory_gate.py:26, "memory clear rejected
\* while invoke running": no memory is cleared under a live invocation.
NoClearUnderInvocation ==
  \A t \in Task : Live(t) => clearing # on[t]

\* docs/protocol/agp.md:763 on command.cancel: the CancelledError becomes an
\* end-of-invocation event, "so frontends see a clean boundary".
CancelIsAnnounced ==
  \A t \in hit : state[t] = "gone" => wire[t] # "silent"
===============================================================================
