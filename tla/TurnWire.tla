------------------------------ MODULE TurnWire ------------------------------
(***************************************************************************)
(* One turn of the agent on the wire. The kernel (astream_events) puts its *)
(* events on a queue; the consumer, run_invocation of runtime/bridge.py or *)
(* astream_agp_events, translates them one by one (runtime/translator.py)  *)
(* and emits protocol events (protocol/emitter.py), which the subscription *)
(* of the client may filter.                                               *)
(*                                                                         *)
(* An event of either kind is a record: its type, the worker or tool it is *)
(* about, and what the consumer looks at.                                  *)
(***************************************************************************)
EXTENDS Integers, Sequences, FiniteSets, SequencesExt

CONSTANTS
    Workers, Tools,    \* what the turn starts
    InProcess,         \* astream_agp_events instead of run_invocation
    Failing,           \* workers, tools and turns may fail
    Cancels,           \* the turn may be cancelled
    Filters,           \* the client may subscribe and unsubscribe
    None

VARIABLES kernel, done, events, turn, outcome, wire, filter

vars == <<kernel, done, events, turn, outcome, wire, filter>>

Things == Workers \cup Tools
Event(type, about, what) == [type |-> type, about |-> about, what |-> what]

(* kernel: "off", "on", what it returned, "raised" or "gone"; done: how    *)
(* each worker and tool really went.                                       *)
Init ==
    /\ kernel = "off"
    /\ done = [x \in Things |-> "not"]
    /\ events = <<>>               \* event_queue
    /\ turn = "idle"               \* the consumer: idle, open, failed, over
    /\ outcome = None              \* how the turn ended for the consumer
    /\ wire = <<>>
    /\ filter = FALSE              \* a subscription that leaves out the turn's own events

(***************************************************************************)
(* The emitter. A fork is opened already and closes without an event.      *)
(***************************************************************************)
Passthrough == {"session.opened", "session.closed", "error.fatal", "prompt.requested", "prompt.cancelled"}
SubscriptionAllows(type) == ~filter \/ type \in Passthrough

On(e) == [type |-> e.type, about |-> e.about, what |-> e.what, seen |-> SubscriptionAllows(e.type)]
Says(es) == wire' = wire \o [i \in DOMAIN es |-> On(es[i])]
Plain(type) == Event(type, None, None)
Fatal == <<Plain("error.fatal")>>
Prompt(type) == <<Plain(type)>>
Busy(type) == <<Plain(type)>>
Message(type, what) == <<Event(type, None, what)>>
ToolRow(type, t) == <<Event(type, t, None)>>
WorkerRow(type, w) == <<Event(type, w, None)>>
MemoryWrite == <<Plain("memory.session.write")>>

Open == IF InProcess THEN <<Plain("session.opened")>> ELSE <<>>
\* Mutant of Close.
CloseCompleted(reason) == <<Event("session.closed", None, "completed")>>

Close(reason) == IF InProcess THEN <<Event("session.closed", None, reason)>> ELSE <<>>

(***************************************************************************)
(* translate.                                                              *)
(***************************************************************************)
TokenWire(e) == Message("token.delta", e.what)

\* Mutant of DoneWire.
DoneEchoes(e) ==
    Message("message.assistant", IF e.what.output THEN "text" ELSE "blank")
    \o (IF e.what.success THEN <<>> ELSE Fatal)

(* The text of the result, or of its direct step; a failed result is fatal *)
DoneWire(e) ==
    Message("message.assistant", IF e.what.output \/ e.what.direct THEN "text" ELSE "blank")
    \o (IF e.what.success THEN <<>> ELSE Fatal)

\* Mutant of ToolWire.
ToolWireNewId(e) ==
    IF e.type = "tool_call" THEN ToolRow("tool.call.start", e.about) ELSE ToolRow("tool.call.result", None)

ToolWire(e) ==
    IF e.type = "tool_call" THEN ToolRow("tool.call.start", e.about) ELSE ToolRow("tool.call.result", e.about)

\* Mutant of WorkerWire.
WorkerCompletes(e) ==
    IF e.type = "worker_start" THEN WorkerRow("worker.spawned", e.about)
    ELSE IF e.what.error THEN WorkerRow("worker.failed", e.about)
    ELSE WorkerRow("worker.completed", e.about)

(* worker_end: halted by its signal, failed by its error, else completed.  *)
WorkerWire(e) ==
    IF e.type = "worker_start" THEN WorkerRow("worker.spawned", e.about)
    ELSE IF e.what.signal = "HALTED" THEN WorkerRow("worker.halted", e.about)
    ELSE IF e.what.error THEN WorkerRow("worker.failed", e.about)
    ELSE WorkerRow("worker.completed", e.about)

NoticeWire(e) == IF e.type = "error" THEN Fatal ELSE <<Plain(e.type)>>

Wire(e) ==
    IF e.type = "token" THEN TokenWire(e)
    ELSE IF e.type = "done" THEN DoneWire(e)
    ELSE IF e.type \in {"tool_call", "tool_result"} THEN ToolWire(e)
    ELSE IF e.type \in {"worker_start", "worker_end"} THEN WorkerWire(e)
    ELSE NoticeWire(e)
\* Mutant of EndsInvocation.
EndsOnError(e) == e.type = "error"

EndsInvocation(e) == e.type = "error" \/ (e.type = "done" /\ ~e.what.success)

(***************************************************************************)
(* The kernel.                                                             *)
(***************************************************************************)
Put(e) == events' = Append(events, e)
Running == kernel = "on" /\ turn \in {"open", "failed"}

WorkerStarts(w) ==
    /\ Running /\ done[w] = "not"
    /\ done' = [done EXCEPT ![w] = "running"]
    /\ Put(Event("worker_start", w, None))
    /\ UNCHANGED <<kernel, turn, outcome, wire, filter>>

(* emit_worker_end carries the signal, never an error.                     *)
WorkerEnds(w, signal) ==
    /\ Running /\ done[w] = "running"
    /\ signal \in {"SUCCESS", "HALTED"} \cup (IF Failing THEN {"FAILED"} ELSE {})
    /\ done' = [done EXCEPT ![w] = signal]
    /\ Put(Event("worker_end", w, [signal |-> signal, error |-> FALSE]))
    /\ UNCHANGED <<kernel, turn, outcome, wire, filter>>

ToolStarts(t) ==
    /\ Running /\ done[t] = "not"
    /\ done' = [done EXCEPT ![t] = "running"]
    /\ Put(Event("tool_call", t, None))
    /\ UNCHANGED <<kernel, turn, outcome, wire, filter>>

(* The event loops handle on_tool_start and on_tool_end; a tool that       *)
(* raises has neither.                                                     *)
ToolEnds(t, how) ==
    /\ Running /\ done[t] = "running"
    /\ how \in {"SUCCESS"} \cup (IF Failing THEN {"FAILED"} ELSE {})
    /\ done' = [done EXCEPT ![t] = how]
    /\ IF how = "SUCCESS" THEN Put(Event("tool_result", t, None)) ELSE UNCHANGED events
    /\ UNCHANGED <<kernel, turn, outcome, wire, filter>>

Tokens == SelectSeq(events \o wire, LAMBDA e : e.type \in {"token", "token.delta"})
Token(role) ==
    /\ Running /\ Len(Tokens) < 1
    /\ Put(Event("token", None, role))
    /\ UNCHANGED <<kernel, done, turn, outcome, wire, filter>>

(* _run_and_push: the turn is recorded and its checkpoint saved, without   *)
(* the queue; the memory speaks to the emitter of the invocation itself,   *)
(* ahead of what is queued, if there is one. Then done; a stream failure   *)
(* of the pattern is an error event before its failed result.              *)
Quiet == \A x \in Things : done[x] # "running"
\* Mutant of Recorded.
RecordedQuietly == UNCHANGED wire

Recorded == IF InProcess THEN UNCHANGED wire ELSE Says(MemoryWrite)
Result(success, output) ==
    Event("done", None, [success |-> success, output |-> output, direct |-> ~output /\ success])
\* Mutant of Finish.
FinishBackwards(success, streamed, output) ==
    /\ Running /\ Quiet
    /\ success \/ Failing
    /\ streamed => ~success
    /\ kernel' = "returned"
    /\ Recorded
    /\ events' = events \o <<None, Result(success, output)>>
    /\ UNCHANGED <<done, turn, outcome, filter>>

Finish(success, streamed, output) ==
    /\ Running /\ Quiet
    /\ success \/ Failing
    /\ streamed => ~success
    /\ kernel' = "returned"
    /\ Recorded
    /\ events' = events \o (IF streamed THEN <<Event("error", None, None)>> ELSE <<>>) \o <<Result(success, output), None>>
    /\ UNCHANGED <<done, turn, outcome, filter>>

\* Mutant of Raise.
RaiseSilently ==
    /\ Running /\ Failing
    /\ kernel' = "raised"
    /\ UNCHANGED <<events, done, turn, outcome, wire, filter>>

Raise ==
    /\ Running /\ Failing
    /\ kernel' = "raised"
    /\ events' = events \o <<Event("error", None, None), None>>
    /\ UNCHANGED <<done, turn, outcome, wire, filter>>

(***************************************************************************)
(* The consumer.                                                           *)
(***************************************************************************)
Begin ==
    /\ turn = "idle"
    /\ turn' = "open" /\ kernel' = "on"
    /\ Says(Open \o (IF InProcess THEN <<>>
                     ELSE Message("message.user", "text") \o Prompt("prompt.requested") \o Busy("agent.busy")))
    /\ UNCHANGED <<done, events, outcome, filter>>

Consume ==
    /\ turn \in {"open", "failed"} /\ events # <<>> /\ events[1] # None
    /\ Says(Wire(events[1]))
    /\ turn' = IF EndsInvocation(events[1]) THEN "failed" ELSE turn
    /\ events' = Tail(events)
    /\ UNCHANGED <<kernel, done, outcome, filter>>

(* The stream is over: idle, a reply if there was none, and the close.     *)
SawMessage == \E i \in DOMAIN wire : wire[i].type = "message.assistant"
\* Mutant of Complete.
CompleteTwice ==
    /\ turn \in {"open", "failed"} /\ events # <<>> /\ events[1] = None
    /\ outcome' = IF turn = "failed" THEN "error" ELSE "completed"
    /\ Says((IF InProcess THEN <<>> ELSE Busy("agent.idle") \o Message("message.assistant", "blank")) \o Close(outcome'))
    /\ turn' = "over" /\ events' = <<>>
    /\ UNCHANGED <<kernel, done, filter>>

Complete ==
    /\ turn \in {"open", "failed"} /\ events # <<>> /\ events[1] = None
    /\ outcome' = IF turn = "failed" THEN "error" ELSE "completed"
    /\ Says((IF InProcess THEN <<>>
             ELSE Busy("agent.idle") \o (IF SawMessage THEN <<>> ELSE Message("message.assistant", "blank")))
            \o Close(outcome'))
    /\ turn' = "over" /\ events' = <<>>
    /\ UNCHANGED <<kernel, done, filter>>

(* The task is cancelled: what is queued is not translated any more.       *)
Cancel ==
    /\ Cancels /\ turn \in {"open", "failed"}
    /\ outcome' = "user_aborted"
    /\ Says((IF InProcess THEN <<>> ELSE Busy("agent.idle") \o Prompt("prompt.cancelled")) \o Close("user_aborted"))
    /\ turn' = "over" /\ events' = <<>> /\ kernel' = "gone"
    /\ UNCHANGED <<done, filter>>

(* command.subscribe and command.unsubscribe.                              *)
Subscribe ==
    /\ Filters /\ turn # "over"
    /\ filter' = ~filter
    /\ UNCHANGED <<kernel, done, events, turn, outcome, wire>>

KernelStep ==
    \/ \E w \in Workers : WorkerStarts(w) \/ \E s \in {"SUCCESS", "HALTED", "FAILED"} : WorkerEnds(w, s)
    \/ \E t \in Tools : ToolStarts(t) \/ \E s \in {"SUCCESS", "FAILED"} : ToolEnds(t, s)
    \/ \E r \in {"assistant", "reasoning"} : Token(r)
    \/ \E s, m, o \in BOOLEAN : Finish(s, m, o)
    \/ Raise

Next == KernelStep \/ Begin \/ Consume \/ Complete \/ Cancel \/ Subscribe

(* The kernel goes on until it returns (its calls have timeouts) and the   *)
(* consumer's task is scheduled.                                           *)
Fairness == WF_vars(KernelStep) /\ WF_vars(Consume) /\ WF_vars(Complete)
Spec == Init /\ [][Next]_vars
FairSpec == Spec /\ Fairness

(***************************************************************************)
(* Properties.                                                             *)
(***************************************************************************)
Said(type) == {i \in DOMAIN wire : wire[i].type = type}
About(x) == SelectSeq(wire, LAMBDA e : e.about = x)
LastOf(x) == About(x)[Len(About(x))].type

(* Types, and the order of the consumer's states.                          *)
TypeOK ==
    /\ kernel \in {"off", "on", "returned", "raised", "gone"}
    /\ turn \in {"idle", "open", "failed", "over"} /\ (turn = "over" <=> outcome # None)
    /\ \A i \in DOMAIN events : events[i] = None => i = Len(events)

(* bridge.py: consumers get a clean turn boundary: a turn that was not     *)
(* cancelled has one reply, after all of its tokens, and one idle for its  *)
(* busy.                                                                   *)
TurnHasBoundary ==
    turn = "over" /\ ~InProcess =>
        /\ Cardinality(Said("agent.busy")) = 1 /\ Cardinality(Said("agent.idle")) = 1
        /\ outcome # "user_aborted" => Cardinality(Said("message.assistant")) = 1
        /\ \A i \in Said("message.assistant"), j \in Said("token.delta") : j < i

(* A result with a text, its own or that of its direct step, is shown.     *)
ReplyIsShown ==
    outcome = "completed" => \A i \in Said("message.assistant") : wire[i].what = "text"

(* A turn that went wrong says so with an error.fatal before it is over;   *)
(* one that did not, does not.                                             *)
FailureIsReported ==
    /\ outcome = "completed" => Said("error.fatal") = {}
    /\ outcome = "error" => Said("error.fatal") # {}

(* agp.md: the rows of a turn tell how its workers went.                   *)
Ending == [SUCCESS |-> {"worker.completed", "tool.call.result"}, HALTED |-> {"worker.halted"}, FAILED |-> {"worker.failed", "tool.call.error"}]
RowsAreTrue ==
    \A w \in Workers : About(w) # <<>> =>
        /\ About(w)[1].type = "worker.spawned" /\ Len(About(w)) <= 2
        /\ Len(About(w)) = 2 => LastOf(w) \in Ending[done[w]]

(* What the kernel did is on the wire when the turn is over.               *)
NothingIsMissing ==
    outcome = "completed" => \A x \in Things : done[x] # "not" => Len(About(x)) = 2

(* agp.md: error.fatal comes before session.closed with reason error.      *)
FatalEndsSession ==
    turn = "over" /\ Said("error.fatal") # {} =>
        \E i \in Said("session.closed") : wire[i].what = "error" /\ \A j \in Said("error.fatal") : j < i

(* What the turn wrote to the session memory, and to the checkpointer, is  *)
(* announced.                                                              *)
MemoryIsShown == outcome = "completed" => Said("memory.session.write") # {}
=============================================================================
