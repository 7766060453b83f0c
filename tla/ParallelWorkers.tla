---------------------------- MODULE ParallelWorkers ----------------------------
(***************************************************************************)
(* A batch of parallel workers with its human gates: patterns/hitl.py,     *)
(* the worker's attempts (src/worker.py), its clarification tool           *)
(* (patterns/clarification_tool.py) and the recovery that the supervisor   *)
(* runs on the rows it gets back (orchestrator/hooks.py).                  *)
(*                                                                         *)
(* Four kinds of asyncio tasks interleave: the invocation that started the *)
(* batch (`caller'), one task for each worker, the listener that drains    *)
(* the signal queue, and the user.  A step is what one of them runs        *)
(* without giving up the loop.                                             *)
(***************************************************************************)
EXTENDS Naturals, Sequences, FiniteSets

CONSTANTS
  N,               \* the workers of the batch are 1..N, in the order of `configs'
  MaxConcurrent,   \* slots of the semaphore
  MaxAttempts,     \* max_retries + 1
  MaxAsks,         \* bound: questions a worker asks
  Before, After,   \* interrupt_before_workers, interrupt_after_workers
  Recovery         \* pattern spawns are enabled

BatchAssumption ==
  /\ N \in Nat /\ MaxConcurrent \in Nat \ {0}
  /\ MaxAttempts \in Nat \ {0} /\ MaxAsks \in Nat
  /\ Before \subseteq 1..N /\ After \subseteq 1..N
  /\ Recovery \in BOOLEAN

Worker == 1..N

VARIABLES
  caller,          \* "gating", "collecting", "reading", "joining", "closing",
                   \* "returned", or "aborted": an outer cancel ended it
  gate,            \* the worker whose before-gate is next
  approved, skipped,
  pending,         \* workers whose row has not been taken
  reading,         \* workers of the last wake-up whose after-gate is due
  rows,            \* worker -> the rows reported for it
  task,            \* worker -> "none", "queued", "working", "asking", "retrying", "ended"
  outcome,         \* worker -> how its task ended
  tried,           \* worker -> attempts begun
  cancelling,      \* tasks whose CancelledError is on its way
  halt,            \* halt_event
  signals,         \* signal_queue
  listener,        \* "none", "polling", "answering" or "gone"
  batch,           \* the questions the listener still has to put to the user
  asks,            \* worker -> questions asked so far
  answers,         \* worker -> its clarification queue: numbers of the questions answered
  halted,          \* history: a HALT_ALL was sent
  late,            \* history: workers whose row was made up while the task lived
  recovered        \* workers a recovery run was spawned for

callerVars == <<caller, gate, approved, skipped, pending, reading, rows, late>>
taskVars   == <<task, outcome, tried, cancelling>>
askVars    == <<asks, answers>>
queueVars  == <<halt, signals, listener, batch, halted>>
vars == <<callerVars, taskVars, askVars, queueVars, recovered>>

Halt == [kind |-> "HALT_ALL"]
Question(w, n) == [kind |-> "CLARIFICATION_REQUEST", worker |-> w, number |-> n]
Signal == {Halt} \cup {Question(w, n) : w \in Worker, n \in 1..MaxAsks}

Outcome == {"SUCCESS", "FAILED", "CANCELLED"}
Row     == {"SUCCESS", "FAILED", "HALTED"}

TypeOK ==
  /\ caller \in {"gating", "collecting", "reading", "joining", "closing", "returned", "aborted"}
  /\ gate \in 1..N + 1
  /\ approved \subseteq Worker /\ skipped \subseteq Worker
  /\ pending \subseteq approved /\ reading \subseteq approved
  /\ rows \in [Worker -> Seq(Row)]
  /\ task \in [Worker -> {"none", "queued", "working", "asking", "retrying", "ended"}]
  /\ outcome \in [Worker -> Outcome \cup {"none"}]
  /\ tried \in [Worker -> 0..MaxAttempts]
  /\ cancelling \subseteq Worker
  /\ halt \in BOOLEAN /\ halted \in BOOLEAN
  /\ signals \in Seq(Signal)
  /\ listener \in {"none", "polling", "answering", "gone"}
  /\ batch \in Seq(Signal)
  /\ asks \in [Worker -> 0..MaxAsks]
  /\ answers \in [Worker -> Seq(1..MaxAsks)]
  /\ late \subseteq Worker /\ recovered \subseteq Worker

Init ==
  /\ caller = "gating" /\ gate = 1
  /\ approved = {} /\ skipped = {} /\ pending = {} /\ reading = {}
  /\ rows = [w \in Worker |-> <<>>] /\ late = {}
  /\ task = [w \in Worker |-> "none"] /\ outcome = [w \in Worker |-> "none"]
  /\ tried = [w \in Worker |-> 0] /\ cancelling = {}
  /\ halt = FALSE /\ signals = <<>> /\ listener = "none" /\ batch = <<>> /\ halted = FALSE
  /\ asks = [w \in Worker |-> 0]
  /\ answers = [w \in Worker |-> <<>>]
  /\ recovered = {}

InState(states) == {w \in Worker : task[w] \in states}
Live == InState({"queued", "working", "asking", "retrying"})
Slots == InState({"working", "asking", "retrying"})

-------------------------------------------------------------------------------
(* The invocation: before-gates, then the tasks. *)

\* A worker that is not gated, is approved, or whose callback raised, goes on.
Approve ==
  /\ caller = "gating" /\ gate <= N
  /\ approved' = approved \cup {gate} /\ gate' = gate + 1
  /\ UNCHANGED <<caller, skipped, pending, reading, rows, late, taskVars, askVars,
                 queueVars, recovered>>

Skip ==
  /\ caller = "gating" /\ gate \in Before
  /\ skipped' = skipped \cup {gate} /\ gate' = gate + 1
  /\ UNCHANGED <<caller, approved, pending, reading, rows, late, taskVars, askVars,
                 queueVars, recovered>>

AllSkipped ==
  /\ caller = "gating" /\ gate = N + 1 /\ approved = {}
  /\ caller' = "returned"
  /\ UNCHANGED <<gate, approved, skipped, pending, reading, rows, late, taskVars, askVars,
                 queueVars, recovered>>

\* Mutant of SpawnTasks: tasks are made for all workers, not only for the approved
\* ones.
SpawnEverybody ==
  /\ caller = "gating" /\ gate = N + 1 /\ approved # {}
  /\ caller' = "collecting" /\ pending' = approved
  /\ task' = [w \in Worker |-> "queued"]
  /\ listener' = "polling"
  /\ UNCHANGED <<gate, approved, skipped, reading, rows, late, outcome, tried, cancelling,
                 askVars, halt, signals, batch, halted, recovered>>

SpawnTasks ==
  /\ caller = "gating" /\ gate = N + 1 /\ approved # {}
  /\ caller' = "collecting" /\ pending' = approved
  /\ task' = [w \in Worker |-> IF w \in approved THEN "queued" ELSE "none"]
  /\ listener' = "polling"
  /\ UNCHANGED <<gate, approved, skipped, reading, rows, late, outcome, tried, cancelling,
                 askVars, halt, signals, batch, halted, recovered>>

-------------------------------------------------------------------------------
(* A worker's task.  The semaphore serves its waiters in order. *)

Ends(w, how) ==
  /\ task' = [task EXCEPT ![w] = "ended"]
  /\ outcome' = [outcome EXCEPT ![w] = how]

Begin(w) ==
  /\ task[w] = "queued" /\ w \notin cancelling
  /\ \A v \in InState({"queued"}) : w <= v
  /\ Cardinality(Slots) < MaxConcurrent
  /\ IF halt
     THEN Ends(w, "FAILED") /\ UNCHANGED tried
     ELSE /\ task' = [task EXCEPT ![w] = "working"]
          /\ tried' = [tried EXCEPT ![w] = 1]
          /\ UNCHANGED outcome
  /\ UNCHANGED <<callerVars, cancelling, askVars, queueVars, recovered>>

\* An answer, a time-out or a recursion limit ends the worker.
Answer(w) ==
  /\ task[w] = "working" /\ w \notin cancelling
  /\ \E how \in {"SUCCESS", "FAILED"} : Ends(w, how)
  /\ UNCHANGED <<callerVars, tried, cancelling, askVars, queueVars, recovered>>

\* Any other exception is retried until the attempts are used up.
Raise(w) ==
  /\ task[w] = "working" /\ w \notin cancelling
  /\ IF tried[w] = MaxAttempts
     THEN Ends(w, "FAILED")
     ELSE task' = [task EXCEPT ![w] = "retrying"] /\ UNCHANGED outcome
  /\ UNCHANGED <<callerVars, tried, cancelling, askVars, queueVars, recovered>>

Retry(w) ==
  /\ task[w] = "retrying" /\ w \notin cancelling
  /\ task' = [task EXCEPT ![w] = "working"]
  /\ tried' = [tried EXCEPT ![w] = @ + 1]
  /\ UNCHANGED <<callerVars, outcome, cancelling, askVars, queueVars, recovered>>

Ask(w) ==
  /\ task[w] = "working" /\ w \notin cancelling /\ asks[w] < MaxAsks
  /\ task' = [task EXCEPT ![w] = "asking"]
  /\ asks' = [asks EXCEPT ![w] = @ + 1]
  /\ signals' = Append(signals, Question(w, asks'[w]))
  /\ UNCHANGED <<callerVars, outcome, tried, cancelling, answers, halt,
                 listener, batch, halted, recovered>>

GetAnswer(w) ==
  /\ task[w] = "asking" /\ w \notin cancelling /\ answers[w] # <<>>
  /\ task' = [task EXCEPT ![w] = "working"]
  /\ answers' = [answers EXCEPT ![w] = Tail(@)]
  /\ UNCHANGED <<callerVars, outcome, tried, cancelling, asks, queueVars, recovered>>

\* The 300 s of the tool are long for a listener that only has to look at its
\* queue: they pass while the user is being asked, or when nobody listens.
AskTimesOut(w) ==
  /\ task[w] = "asking" /\ w \notin cancelling /\ answers[w] = <<>>
  /\ listener # "polling"
  /\ task' = [task EXCEPT ![w] = "working"]
  /\ UNCHANGED <<callerVars, outcome, tried, cancelling, asks, answers, queueVars, recovered>>

CancelArrives(w) ==
  /\ w \in cancelling
  /\ Ends(w, "CANCELLED")
  /\ cancelling' = cancelling \ {w}
  /\ UNCHANGED <<callerVars, tried, askVars, queueVars, recovered>>

-------------------------------------------------------------------------------
(* The user and the listener. *)

SendHalt ==
  /\ ~halted /\ caller \in {"gating", "collecting", "reading"}
  /\ halted' = TRUE /\ signals' = Append(signals, Halt)
  /\ UNCHANGED <<callerVars, taskVars, askVars, halt, listener, batch, recovered>>

\* Mutant of ListenerTakes: workers that sleep between two attempts are not
\* cancelled.
ListenerCancelsBusy ==
  /\ listener = "polling" /\ signals # <<>>
  /\ signals' = <<>>
  /\ IF \E i \in DOMAIN signals : signals[i] = Halt
     THEN /\ halt' = TRUE /\ listener' = "gone"
          /\ cancelling' = cancelling \cup InState({"queued", "working", "asking"})
          /\ UNCHANGED batch
     ELSE /\ batch' = signals /\ listener' = "answering"
          /\ UNCHANGED <<halt, cancelling>>
  /\ UNCHANGED <<callerVars, task, outcome, tried, askVars, halted, recovered>>

\* The listener takes what the queue holds; a HALT_ALL goes before all questions.
ListenerTakes ==
  /\ listener = "polling" /\ signals # <<>>
  /\ signals' = <<>>
  /\ IF \E i \in DOMAIN signals : signals[i] = Halt
     THEN /\ halt' = TRUE /\ listener' = "gone"
          /\ cancelling' = cancelling \cup Live
          /\ UNCHANGED batch
     ELSE /\ batch' = signals /\ listener' = "answering"
          /\ UNCHANGED <<halt, cancelling>>
  /\ UNCHANGED <<callerVars, task, outcome, tried, askVars, halted, recovered>>

UserAnswers ==
  /\ listener = "answering"
  /\ LET q == Head(batch)
     IN  answers' = [answers EXCEPT ![q.worker] = Append(@, q.number)]
  /\ batch' = Tail(batch)
  /\ listener' = IF Len(batch) = 1 THEN "polling" ELSE "answering"
  /\ UNCHANGED <<callerVars, taskVars, asks, halt, signals, halted, recovered>>

ListenerEnds ==
  /\ listener = "polling" /\ signals = <<>> /\ Live = {}
  /\ listener' = "gone"
  /\ UNCHANGED <<callerVars, taskVars, askVars, halt, signals, batch, halted, recovered>>

-------------------------------------------------------------------------------
(* The invocation: collecting the rows. *)

\* Mutant of RowOf: a cancelled worker is reported as any other exception.
RowOfException(w) == IF outcome[w] = "CANCELLED" THEN "FAILED" ELSE outcome[w]

RowOf(w) == IF outcome[w] = "CANCELLED" THEN "HALTED" ELSE outcome[w]

Report(W, row(_)) ==
  rows' = [w \in Worker |-> IF w \in W THEN Append(rows[w], row(w)) ELSE rows[w]]

\* Mutant of Collect: the set of waiting tasks is not reduced to the unfinished
\* ones.
CollectAgain ==
  /\ caller = "collecting"
  /\ LET done == pending \cap InState({"ended"})
     IN  /\ done # {}
         /\ pending' = IF pending = done THEN {} ELSE pending
         /\ reading' = done \cap After
         /\ Report(done \ After, RowOf)
         /\ caller' = IF reading' # {} THEN "reading" ELSE "collecting"
  /\ UNCHANGED <<gate, approved, skipped, late, taskVars, askVars, queueVars, recovered>>

\* asyncio.wait returned: the rows of the finished workers, up to the after-gates.
Collect ==
  /\ caller = "collecting"
  /\ LET done == pending \cap InState({"ended"})
     IN  /\ done # {}
         /\ pending' = pending \ done
         /\ reading' = done \cap After
         /\ Report(done \ After, RowOf)
         /\ caller' = IF reading' # {} THEN "reading" ELSE "collecting"
  /\ UNCHANGED <<gate, approved, skipped, late, taskVars, askVars, queueVars, recovered>>

\* The user has seen the row; what the callback returns or raises is ignored.
AfterGate(w) ==
  /\ caller = "reading" /\ w \in reading
  /\ Report({w}, RowOf)
  /\ reading' = reading \ {w}
  /\ caller' = IF reading' = {} THEN "collecting" ELSE "reading"
  /\ UNCHANGED <<gate, approved, skipped, pending, late, taskVars, askVars, queueVars, recovered>>

Join ==
  /\ caller = "collecting" /\ halt /\ pending # {}
  /\ caller' = "joining"
  /\ cancelling' = cancelling \cup (pending \cap Live)
  /\ UNCHANGED <<gate, approved, skipped, pending, reading, rows, late, task, outcome, tried,
                 askVars, queueVars, recovered>>

Joined(w) ==
  /\ caller = "joining" /\ w \in pending /\ task[w] = "ended"
  /\ Report({w}, RowOf)
  /\ pending' = pending \ {w}
  /\ UNCHANGED <<caller, gate, approved, skipped, reading, late, taskVars, askVars, queueVars,
                 recovered>>

MadeUp(v) == "HALTED"

\* Mutant of GiveUp: the tasks are awaited without a time-out.
GiveUpNever(w) ==
  /\ caller = "joining" /\ w \in pending /\ w \in Live /\ pending = {}
  /\ UNCHANGED vars

\* _TASK_JOIN_TIMEOUT_S has passed, or a cancel of the invocation arrives in
\* this await and is taken for the worker's own.
GiveUp(w) ==
  /\ caller = "joining" /\ w \in pending /\ w \in Live
  /\ Report({w}, MadeUp)
  /\ pending' = pending \ {w}
  /\ late' = late \cup {w}
  /\ UNCHANGED <<caller, gate, approved, skipped, reading, taskVars, askVars, queueVars, recovered>>

StopListening ==
  /\ caller \in {"collecting", "joining"} /\ pending = {}
  /\ caller' = "closing"
  /\ UNCHANGED <<gate, approved, skipped, pending, reading, rows, late, taskVars, askVars,
                 queueVars, recovered>>

Return ==
  /\ caller = "closing"
  /\ caller' = "returned" /\ listener' = "gone" /\ batch' = <<>>
  /\ UNCHANGED <<gate, approved, skipped, pending, reading, rows, late, taskVars, askVars,
                 halt, signals, halted, recovered>>

\* A cancel of the invocation ends the caller where it waits, and nothing else.
OuterCancel ==
  /\ \/ caller \in {"collecting", "reading"}
     \/ caller = "gating" /\ gate \in Before
  /\ caller' = "aborted"
  /\ UNCHANGED <<gate, approved, skipped, pending, reading, rows, late, taskVars, askVars,
                 queueVars, recovered>>

\* recover_failed_workers: a recovery run for every row that is not a success.
Recover(w) ==
  /\ Recovery /\ caller = "returned" /\ w \in approved \ recovered
  /\ rows[w] # <<"SUCCESS">>
  /\ recovered' = recovered \cup {w}
  /\ UNCHANGED <<callerVars, taskVars, askVars, queueVars>>

-------------------------------------------------------------------------------
WorkerStep(w) ==
  Begin(w) \/ Answer(w) \/ Raise(w) \/ Retry(w) \/ Ask(w) \/ GetAnswer(w) \/ AskTimesOut(w)
    \/ CancelArrives(w)

ListenerStep == ListenerTakes \/ UserAnswers \/ ListenerEnds

CallerStep ==
  \/ Approve \/ Skip \/ AllSkipped \/ SpawnTasks
  \/ Collect \/ Join \/ StopListening \/ Return
  \/ \E w \in Worker : AfterGate(w) \/ Joined(w) \/ GiveUp(w) \/ Recover(w)

Next ==
  \/ CallerStep \/ ListenerStep \/ SendHalt \/ OuterCancel
  \/ \E w \in Worker : WorkerStep(w)

\* The loop runs what is ready and the join timer is due some day; users,
\* models and tools may take for ever, and a tool may ignore its cancel.
Gather == Collect \/ Join \/ StopListening \/ Return \/ \E w \in Worker : Joined(w) \/ GiveUp(w)
Fairness == WF_vars(Gather) /\ WF_vars(ListenerTakes)

Spec == Init /\ [][Next]_vars
FairSpec == Spec /\ Fairness

-------------------------------------------------------------------------------
(* Properties. *)

\* A batch that returns has one row for each approved worker, and every worker
\* was approved or skipped (results, skipped_ids of run_workers_with_hitl).
OneRowEach ==
  caller = "returned" =>
    /\ approved \cup skipped = Worker /\ approved \cap skipped = {}
    /\ \A w \in Worker : Len(rows[w]) = IF w \in approved THEN 1 ELSE 0

\* When a batch returns no worker of it is alive, but for those whose row was
\* made up because the join gave up on them (_TASK_JOIN_TIMEOUT_S).
NoneLeftRunning == caller = "returned" => Live \subseteq late

\* A row says HALTED only if the user sent HALT_ALL, and a row that was not made
\* up says what became of the worker.
RowsTellTheTruth ==
  \A w \in Worker : \A i \in DOMAIN rows[w] :
    /\ rows[w][i] = "HALTED" => halted
    /\ w \notin late =>
         /\ task[w] = "ended"
         /\ (rows[w][i] = "HALTED") = (outcome[w] = "CANCELLED")
         /\ (rows[w][i] = "SUCCESS") = (outcome[w] = "SUCCESS")

\* Once halt_event is set no worker begins an attempt, not even one that is
\* between two attempts, waits for a slot or for the user.
NoAttemptAfterHalt == [][halt => tried' = tried]_vars

\* A batch whose halt event is set comes back (or was cancelled, or waits for
\* the user at an after-gate): _TASK_JOIN_TIMEOUT_S bounds every join.
BackOrAsking == caller \in {"returned", "aborted"} \/ reading # {}
================================================================================
