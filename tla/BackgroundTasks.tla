-------------------------- MODULE BackgroundTasks --------------------------
(***************************************************************************)
(* BackgroundDelegationManager: delegations that run as tasks of their     *)
(* own, with clients that submit, await and cancel them, clean up, and     *)
(* close the agent (shutdown). The manager's lock is never held across an  *)
(* await, so what it guards is one step.                                   *)
(***************************************************************************)
EXTENDS Naturals, FiniteSets

CONSTANTS Tasks, Clients, Ops, None

(* None is no state of a task and no operation of a client.                *)
TasksAssumption ==
    None \notin {"scheduled", "running", "ended", "never ran", "completed", "failed", "cancelled",
                 "await", "await event", "cancel", "shutdown"}

VARIABLES bg, task, table, client

vars == <<bg, task, table, client>>

Terminal == {"completed", "failed", "cancelled"}
NoBg == [status |-> None, result |-> None, done |-> FALSE, stamped |-> FALSE]
Idle == [op |-> None, on |-> {}, at |-> "idle"]

Init ==
    /\ bg = [t \in Tasks |-> NoBg]
    /\ task = [t \in Tasks |-> [run |-> None, cancel |-> FALSE, deaf |-> FALSE]]   \* the asyncio task
    /\ table = {}
    /\ client = [c \in Clients |-> Idle]

Over(t) == task[t].run \in {"ended", "never ran"}

(* submit: tracked as running and scheduled; _run starts later.            *)
Submit(c, t) ==
    /\ client[c].at = "idle" /\ task[t].run = None
    /\ bg' = [bg EXCEPT ![t].status = "running"]
    /\ task' = [task EXCEPT ![t].run = "scheduled"]
    /\ table' = table \cup {t}
    /\ UNCHANGED client

\* Mutant of Start.
StartUncancelled(t) ==
    /\ task[t].run = "scheduled" /\ ~task[t].cancel
    /\ task' = [task EXCEPT ![t].run = "running"]
    /\ UNCHANGED <<bg, table, client>>

Start(t) ==
    /\ task[t].run = "scheduled"
    /\ task' = [task EXCEPT ![t].run = IF task[t].cancel THEN "never ran" ELSE "running"]
    /\ UNCHANGED <<bg, table, client>>

(* _run: how run_delegate ended, then the stamps and the event.            *)
Ended(t, status, result) ==
    /\ bg' = [bg EXCEPT ![t] = [status |-> status, result |-> result, done |-> TRUE, stamped |-> TRUE]]
    /\ task' = [task EXCEPT ![t].run = "ended"]
    /\ UNCHANGED <<table, client>>

\* Mutant of Finish.
FinishSilent(t) ==
    /\ task[t].run = "running" /\ ~task[t].cancel
    /\ bg' = [bg EXCEPT ![t].status = IF @ = "completed" THEN "failed" ELSE "completed"]
    /\ UNCHANGED <<task, table, client>>

Finish(t) ==
    /\ task[t].run = "running" /\ ~task[t].cancel
    /\ Ended(t, "completed", t) \/ Ended(t, "failed", None)

(* A cancelled turn ends; or it goes on: _run_parallel_workers swallows a  *)
(* cancel that arrives while it waits for its signal task.                 *)
Cancelled(t) ==
    /\ task[t].run = "running" /\ task[t].cancel
    /\ \/ Ended(t, "cancelled", None)
       \/ ~task[t].deaf /\ task' = [task EXCEPT ![t].cancel = FALSE, ![t].deaf = TRUE] /\ UNCHANGED <<bg, table, client>>

Begin(c, op, on) == client' = [client EXCEPT ![c] = [op |-> op, on |-> on, at |-> "waiting"]]
Answer(c, op) == client' = [client EXCEPT ![c] = [op |-> op, on |-> {}, at |-> "done"]]

(***************************************************************************)
(* await_result: the result of a task that is over by its status; else it  *)
(* waits for the task, or, when that is over already, for its event.       *)
(***************************************************************************)
Await(c, t) ==
    /\ client[c].at = "idle"
    /\ IF t \notin table \/ bg[t].status \in Terminal
       THEN Answer(c, "await")
       ELSE Begin(c, IF Over(t) THEN "await event" ELSE "await", {t})
    /\ UNCHANGED <<bg, task, table>>

Awaited(c, t) ==
    /\ client[c].at = "waiting" /\ client[c].on = {t}
    /\ \/ client[c].op = "await" /\ Over(t)
       \/ client[c].op = "await event" /\ bg[t].done
    /\ Answer(c, "await")
    /\ UNCHANGED <<bg, task, table>>

AwaitTimesOut(c) ==
    /\ client[c].at = "waiting" /\ client[c].op \in {"await", "await event"}
    /\ Answer(c, "await")
    /\ UNCHANGED <<bg, task, table>>

(* cancel: once the task is over, cancelled is what its status says.       *)
Cancel(c, t) ==
    /\ client[c].at = "idle"
    /\ IF t \in table /\ ~Over(t)
       THEN /\ task' = [task EXCEPT ![t].cancel = TRUE]
            /\ Begin(c, "cancel", {t})
       ELSE Answer(c, "cancel") /\ UNCHANGED task
    /\ UNCHANGED <<bg, table>>

CancelEnds(c, t) ==
    /\ client[c].at = "waiting" /\ client[c].op = "cancel" /\ client[c].on = {t} /\ Over(t)
    /\ bg' = [bg EXCEPT ![t].status = "cancelled", ![t].stamped = TRUE]
    /\ Answer(c, "cancel")
    /\ UNCHANGED <<task, table>>

\* Mutant of Cleanup.
CleanupAll(c, old) ==
    /\ client[c].at = "idle"
    /\ table' = table \ old
    /\ UNCHANGED <<bg, task, client>>

(* cleanup: what is stamped and old enough; then the task is unknown.      *)
Cleanup(c, old) ==
    /\ client[c].at = "idle"
    /\ table' = {t \in table : ~(bg[t].stamped /\ t \in old)}
    /\ UNCHANGED <<bg, task, client>>

(* shutdown: cancels and waits for what runs now, then forgets everything. *)
Shutdown(c) ==
    /\ client[c].at = "idle"
    /\ LET live == {t \in table : ~Over(t)}
       IN  /\ task' = [t \in Tasks |-> IF t \in live THEN [task[t] EXCEPT !.cancel = TRUE] ELSE task[t]]
           /\ Begin(c, "shutdown", live)
    /\ UNCHANGED <<bg, table>>

ShutdownEnds(c) ==
    /\ client[c].at = "waiting" /\ client[c].op = "shutdown" /\ \A t \in client[c].on : Over(t)
    /\ table' = {}
    /\ Answer(c, "shutdown")
    /\ UNCHANGED <<bg, task>>

TaskStep(t) == Start(t) \/ Finish(t) \/ Cancelled(t)
Wakes(c) == ShutdownEnds(c) \/ \E t \in Tasks : Awaited(c, t) \/ CancelEnds(c, t)

Next ==
    \/ \E t \in Tasks : TaskStep(t)
    \/ \E c \in Clients :
          \/ Wakes(c)
          \/ "await" \in Ops /\ ((\E t \in Tasks : Await(c, t)) \/ ("timeout" \in Ops /\ AwaitTimesOut(c)))
          \/ "cancel" \in Ops /\ \E t \in Tasks : Cancel(c, t)
          \/ "cleanup" \in Ops /\ \E old \in SUBSET Tasks : Cleanup(c, old)
          \/ "shutdown" \in Ops /\ Shutdown(c)
          \/ \E t \in Tasks : Submit(c, t)

Spec == Init /\ [][Next]_vars

(* A target's ainvoke returns or raises in the end, and a waiter whose     *)
(* future is done is woken. Nobody need call anything.                     *)
FairSpec == Spec /\ (\A t \in Tasks : WF_vars(TaskStep(t))) /\ \A c \in Clients : WF_vars(Wakes(c))

(***************************************************************************)
(* Properties.                                                             *)
(***************************************************************************)
(* Types, and what a status says of the task.                              *)
TypeOK ==
    /\ \A t \in Tasks :
          /\ bg[t].status \in {None, "running"} \cup Terminal
          /\ bg[t].status = "completed" => bg[t].result = t /\ bg[t].done
          /\ bg[t].status \in Terminal => Over(t)
    /\ table \subseteq {t \in Tasks : task[t].run # None}

(* cleanup, shutdown: only a task that is over is forgotten; nobody can    *)
(* reach a task the table has lost.                                        *)
ForgottenIsOver == \A t \in Tasks : task[t].run # None /\ t \notin table => Over(t)

(* BackgroundTaskStatus: completed, failed and cancelled are final.        *)
StaysEnded == \A t \in Tasks : bg[t].status \in Terminal => bg'[t].status = bg[t].status
EndsOnce == [][StaysEnded]_vars
=============================================================================
