---------------------------- MODULE RuntimeServe ----------------------------
(* The life of one attachment to agloom-runtime: the stdio loop, which makes its *)
(* agent for the first command that needs one, and the WebSocket session, which  *)
(* makes it before the first command (runtime/__main__.py, runtime/ws.py,        *)
(* runtime/session_bootstrap.py).  Events are known by their type and sequence   *)
(* number; what an invocation does is left to CommandDispatch.                   *)
EXTENDS Integers, Sequences, FiniteSets, SequencesExt

CONSTANTS
    Sessions,    \* what an attachment may be, see ServeAssumption
    MaxLines, MaxBeats  \* bounds: lines the client writes, heartbeats

\* A session speaks stdio or WebSocket; the event store has events of it or not; it
\* has MCP servers or not; some steps of its bootstrap may fail.
ServeAssumption ==
    /\ Sessions \subseteq [transport : {"stdio", "ws"}, known : BOOLEAN, mcp : BOOLEAN,
                           failures : SUBSET {"llm", "memory", "setup", "create", "mcp"}]
    /\ MaxLines \in Nat /\ MaxBeats \in Nat

CloseReasons == {"completed", "user_aborted", "error", "shutdown"}

VARIABLES
    session,  \* what this one is; it never changes
    stage,    \* boot, memory, creating, mcp, serving, tearing, ended
    pending,  \* the command the stdio loop makes the agent for
    sent,     \* events the client got: type and seq
    seq,      \* _shared_seq
    opened, closed,  \* of the emitter
    agent,    \* none, live, closed, dropped
    agents,   \* agents created and not closed
    handles,  \* session memories open whose cleanup is in the list of the teardown
    leaks,    \* session memories open without one
    heart,    \* the heartbeat task runs
    turn,     \* an invocation runs
    input,    \* lines not taken yet, at last "eof", which stays
    shutdown, \* the event set by a signal and by the end
    reason,   \* close_reason
    ltstore,  \* the LangGraph store is open
    lines, beats
vars == <<session, stage, pending, sent, seq, opened, closed, agent, agents, handles, leaks, heart, turn,
          input, shutdown, reason, ltstore, lines, beats>>
io == <<input, shutdown, lines>>
work == <<agent, agents, handles, leaks>>

Stdio == session.transport = "stdio"

\* Mutant of Emit.
EmitFork(types) == /\ sent' = sent \o [i \in DOMAIN types |-> [type |-> types[i], seq |-> seq + i]]
                   /\ seq' = seq

\* Events of the emitter, in order, with the next sequence numbers.
Emit(types) == /\ sent' = sent \o [i \in DOMAIN types |-> [type |-> types[i], seq |-> seq + i]]
               /\ seq' = seq + Len(types)
NoEvent == UNCHANGED <<sent, seq>>

Init == /\ session \in Sessions
        /\ stage = "boot" /\ pending = "none"
        /\ sent = <<>> /\ seq = 0 /\ opened = FALSE /\ closed = FALSE
        /\ agent = "none" /\ agents = 0 /\ handles = 0 /\ leaks = 0
        /\ heart = FALSE /\ turn = FALSE
        /\ input = <<>> /\ shutdown = FALSE /\ reason = "disconnect"
        /\ ltstore = TRUE /\ lines = 0 /\ beats = 0

Opening == IF Stdio /\ session.known THEN "session.resumed" ELSE "session.opened"

\* Mutant of StartStdio.
StartStdioEarly == /\ Stdio /\ stage = "boot"
                   /\ Emit(<<Opening>>) /\ opened' = TRUE
                   /\ heart' = TRUE /\ stage' = "serving" /\ reason' = "shutdown"
                   /\ UNCHANGED <<pending, closed, work, turn, io, ltstore, beats>>

\* stdio: the session opens, or resumes, and is ready without an agent.
StartStdio == /\ Stdio /\ stage = "boot"
              /\ Emit(<<Opening, "runtime.ready">>) /\ opened' = TRUE
              /\ heart' = TRUE /\ stage' = "serving" /\ reason' = "shutdown"
              /\ UNCHANGED <<pending, closed, work, turn, io, ltstore, beats>>

\* ws: without a model an error with seq 0 goes out and the connection is over.
Refuse == /\ ~Stdio /\ stage = "boot" /\ "llm" \in session.failures
          /\ sent' = Append(sent, [type |-> "error.transient", seq |-> 0])
          /\ stage' = "ended"
          /\ UNCHANGED <<pending, seq, opened, closed, work, heart, turn, io, reason, ltstore, beats>>

\* Mutant of Accept.
AcceptEarly == /\ ~Stdio /\ stage = "boot"
               /\ Emit(<<Opening>>) /\ opened' = TRUE
               /\ stage' = "memory"
               /\ UNCHANGED <<pending, closed, work, heart, turn, io, reason, ltstore, beats>>

Accept == /\ ~Stdio /\ stage = "boot"
          /\ Emit(<<Opening, "runtime.ready">>) /\ opened' = TRUE
          /\ stage' = "memory"
          /\ UNCHANGED <<pending, closed, work, heart, turn, io, reason, ltstore, beats>>

\* The stdio loop is done with a command: shutdown is looked at before the next one.
AfterCommand == /\ stage' = (IF shutdown THEN "tearing" ELSE "serving")
                /\ pending' = "none"

\* open_isolated_session_memory
OpenMemory == /\ stage = "memory"
              /\ handles' = handles + 1
              /\ stage' = "creating"
              /\ NoEvent
              /\ UNCHANGED <<pending, opened, closed, agent, agents, leaks, heart, turn, io, reason, ltstore, beats>>

\* The dispatcher says nothing of a RuntimeError and reports any other error.
Reported(types) == Emit(types) \/ Emit(Append(types, "error.transient"))

\* stdio reports it; on a WebSocket it leaves the session loop, past every teardown.
\* A store that opens and fails its setup stays open.
MemoryFails == /\ stage = "memory" /\ session.failures \cap {"memory", "setup"} # {}
               /\ \E f \in session.failures \cap {"memory", "setup"} :
                      leaks' = (IF f = "setup" THEN leaks + 1 ELSE leaks)
               /\ IF Stdio
                  THEN Reported(<<"error.transient">>) /\ AfterCommand
                  ELSE NoEvent /\ stage' = "ended" /\ UNCHANGED pending
               /\ UNCHANGED <<opened, closed, agent, agents, handles, heart, turn, io, reason, ltstore, beats>>

\* Mutant of CreateAgent.
CreateAgentForgets == /\ stage = "creating"
                      /\ agent' = "none" /\ agents' = agents + 1
                      /\ heart' = TRUE
                      /\ Emit(<<"runtime.config">>)
                      /\ stage' = "mcp"
                      /\ UNCHANGED <<pending, opened, closed, handles, leaks, turn, io, reason, ltstore, beats>>

CreateAgent == /\ stage = "creating"
               /\ agent' = "live" /\ agents' = agents + 1
               /\ heart' = TRUE
               /\ Emit(<<"runtime.config">>)
               /\ stage' = "mcp"
               /\ UNCHANGED <<pending, opened, closed, handles, leaks, turn, io, reason, ltstore, beats>>

\* Mutant of CreateFails.
CreateFailsLeaving == /\ stage = "creating" /\ "create" \in session.failures
                      /\ IF Stdio
                         THEN /\ Reported(<<>>) /\ leaks' = leaks + 1 /\ handles' = 0 /\ AfterCommand /\ UNCHANGED reason
                         ELSE /\ sent' = Append(sent, [type |-> "error.transient", seq |-> 0])
                              /\ reason' = "error" /\ stage' = "tearing"
                              /\ UNCHANGED <<seq, handles, pending, leaks>>
                      /\ UNCHANGED <<opened, closed, agent, agents, heart, turn, io, ltstore, beats>>

\* stdio closes the memory it opened and the loop goes on; a WebSocket
\* session gets an error with seq 0 and is torn down.
CreateFails == /\ stage = "creating" /\ "create" \in session.failures
               /\ IF Stdio
                  THEN /\ Reported(<<>>) /\ handles' = 0 /\ AfterCommand /\ UNCHANGED reason
                  ELSE /\ sent' = Append(sent, [type |-> "error.transient", seq |-> 0])
                       /\ reason' = "error" /\ stage' = "tearing"
                       /\ UNCHANGED <<seq, handles, pending>>
               /\ UNCHANGED <<opened, closed, agent, agents, leaks, heart, turn, io, ltstore, beats>>

\* The command the agent was made for is dispatched.
Dispatch == IF Stdio THEN AfterCommand /\ turn' = TRUE
            ELSE stage' = "serving" /\ UNCHANGED <<pending, turn>>

ConnectMcp == /\ stage = "mcp"
              /\ IF session.mcp THEN Emit(<<"runtime.mcp_servers", "runtime.config", "runtime.tools">>) ELSE NoEvent
              /\ Dispatch
              /\ UNCHANGED <<opened, closed, work, heart, io, reason, ltstore, beats>>

\* A fatal error: stdio drops the agent and goes on, a WebSocket session is torn down.
McpFails == /\ stage = "mcp" /\ session.mcp /\ "mcp" \in session.failures
            /\ Emit(<<"error.fatal">>)
            /\ IF Stdio
               THEN agent' = "dropped" /\ handles' = 0 /\ AfterCommand /\ UNCHANGED reason
               ELSE /\ reason' = "bootstrap_failed" /\ stage' = "tearing"
                    /\ UNCHANGED <<agent, handles, pending>>
            /\ UNCHANGED <<opened, closed, agents, leaks, heart, turn, io, ltstore, beats>>

-----------------------------------------------------------------------------
\* The client writes a line: malformed, a command that needs the agent, or shutdown.
Write == /\ lines < MaxLines /\ input = <<>> /\ stage # "ended"
         /\ \E l \in {"bad", "invoke", "quit"} : input' = Append(input, l)
         /\ lines' = lines + 1
         /\ UNCHANGED <<stage, pending, sent, seq, opened, closed, work, heart, turn, shutdown, reason, ltstore, beats>>

\* The input ends, or the socket closes.
EndInput == /\ "eof" \notin ToSet(input)
            /\ input' = Append(input, "eof")
            /\ UNCHANGED <<stage, pending, sent, seq, opened, closed, work, heart, turn, shutdown, lines, reason, ltstore, beats>>

\* SIGINT or SIGTERM sets an event; only stdio has the handler.
Signal == /\ Stdio /\ stage \notin {"boot", "ended"} /\ ~shutdown
          /\ shutdown' = TRUE
          /\ UNCHANGED <<stage, pending, sent, seq, opened, closed, work, heart, turn, input, lines, reason, ltstore, beats>>

Taken(l) == stage = "serving" /\ input # <<>> /\ input[1] = l /\ input' = SubSeq(input, 2, Len(input))
AtEnd == stage = "serving" /\ input # <<>> /\ input[1] = "eof"

TakeBad == /\ Taken("bad")
           /\ Emit(<<"error.transient">>) /\ AfterCommand
           /\ UNCHANGED <<opened, closed, work, heart, turn, shutdown, lines, reason, ltstore, beats>>

TakeQuit == /\ Taken("quit")
            /\ stage' = "tearing" /\ reason' = "shutdown"
            /\ NoEvent
            /\ UNCHANGED <<pending, opened, closed, work, heart, turn, shutdown, lines, ltstore, beats>>

\* Mutant of TakeEnd.
TakeEndIgnored == /\ AtEnd /\ shutdown
                  /\ stage' = "tearing"
                  /\ NoEvent
                  /\ UNCHANGED <<pending, opened, closed, work, heart, turn, io, reason, ltstore, beats>>

TakeEnd == /\ AtEnd
           /\ stage' = "tearing"
           /\ NoEvent
           /\ UNCHANGED <<pending, opened, closed, work, heart, turn, io, reason, ltstore, beats>>

\* An agent is there: the command is dispatched.
TakeInvoke == /\ Taken("invoke") /\ agent = "live"
              /\ turn' = TRUE /\ AfterCommand /\ NoEvent
              /\ UNCHANGED <<opened, closed, work, heart, shutdown, lines, reason, ltstore, beats>>

\* _ensure_agent: the model is resolved, then the memory is opened.
TakeFirst == /\ Taken("invoke") /\ agent # "live"
             /\ stage' = "memory" /\ pending' = "invoke" /\ NoEvent
             /\ UNCHANGED <<opened, closed, work, heart, turn, shutdown, lines, reason, ltstore, beats>>

TakeNoModel == /\ Taken("invoke") /\ agent # "live" /\ "llm" \in session.failures
               /\ Emit(<<"error.fatal">>) \/ Emit(<<"error.transient">>)
               /\ AfterCommand
               /\ UNCHANGED <<opened, closed, work, heart, turn, shutdown, lines, reason, ltstore, beats>>

Beat == /\ heart /\ ~shutdown /\ beats < MaxBeats
        /\ Emit(<<"session.heartbeat">>) /\ beats' = beats + 1
        /\ UNCHANGED <<stage, pending, opened, closed, work, heart, turn, io, reason, ltstore>>

\* An invocation speaks and ends.
TurnEnds == /\ turn
            /\ Emit(<<"message.assistant">>) /\ turn' = FALSE
            /\ UNCHANGED <<stage, pending, opened, closed, work, heart, io, reason, ltstore, beats>>

-----------------------------------------------------------------------------
\* Mutant of StopTasks.
StopTasksButHeart == /\ stage = "tearing" /\ (turn \/ ~shutdown)
                     /\ shutdown' = TRUE /\ turn' = FALSE
                     /\ IF turn THEN Emit(<<"prompt.cancelled">>) ELSE NoEvent
                     /\ UNCHANGED <<stage, pending, opened, closed, work, heart, input, lines, reason, ltstore, beats>>

\* teardown_runtime_session: the heartbeat stops, invocations are cancelled and joined;
\* one that outlasts the join timeout is the concern of CommandDispatch.
StopTasks == /\ stage = "tearing" /\ (heart \/ turn \/ ~shutdown)
             /\ shutdown' = TRUE /\ heart' = FALSE /\ turn' = FALSE
             /\ IF turn THEN Emit(<<"prompt.cancelled">>) ELSE NoEvent
             /\ UNCHANGED <<stage, pending, opened, closed, work, input, lines, reason, ltstore, beats>>

\* Mutant of CloseEmitter.
CloseEmitterTwice == /\ opened /\ closed' = TRUE
                     /\ IF reason \in CloseReasons THEN Emit(<<"session.closed", "session.closed">>) ELSE NoEvent

\* emitter.close marks the emitter and builds the event; a reason the schema does
\* not know raises there, and the teardown goes on.
CloseEmitter == /\ opened /\ closed' = TRUE
                /\ IF reason \in CloseReasons THEN Emit(<<"session.closed">>) ELSE NoEvent

\* Mutant of Close.
CloseWithTasks == /\ stage = "tearing" /\ shutdown
                  /\ IF opened /\ ~closed THEN CloseEmitter ELSE NoEvent /\ UNCHANGED closed
                  /\ IF agent = "live" THEN agent' = "closed" /\ agents' = agents - 1 ELSE UNCHANGED <<agent, agents>>
                  /\ handles' = 0
                  /\ ltstore' = ~Stdio
                  /\ stage' = "ended"
                  /\ UNCHANGED <<pending, opened, leaks, heart, turn, io, reason, beats>>

Close == /\ stage = "tearing" /\ shutdown /\ ~heart /\ ~turn
         /\ IF opened /\ ~closed THEN CloseEmitter ELSE NoEvent /\ UNCHANGED closed
         /\ IF agent = "live" THEN agent' = "closed" /\ agents' = agents - 1 ELSE UNCHANGED <<agent, agents>>
         /\ handles' = 0
         /\ ltstore' = ~Stdio
         /\ stage' = "ended"
         /\ UNCHANGED <<pending, opened, leaks, heart, turn, io, reason, beats>>

Boot == StartStdio \/ Accept \/ OpenMemory \/ CreateAgent \/ ConnectMcp
Fails == Refuse \/ MemoryFails \/ CreateFails \/ McpFails \/ TakeNoModel
Serve == TakeBad \/ TakeQuit \/ TakeEnd \/ TakeInvoke \/ TakeFirst
Teardown == StopTasks \/ Close
Next == UNCHANGED session
        /\ (Boot \/ Fails \/ Serve \/ Teardown \/ Write \/ EndInput \/ Signal \/ Beat \/ TurnEnds)

Spec == Init /\ [][Next]_vars

\* The event loop runs what is ready and every step of the bootstrap returns or
\* raises; nothing is assumed of the client, of signals or of invocations.
Runs == UNCHANGED session /\ (Boot \/ Fails \/ Serve \/ Teardown)
FairSpec == Spec /\ WF_vars(Runs)

-----------------------------------------------------------------------------
\* Stages, counters and flags fit together: what the teardown releases is what the
\* bootstrap took.
TypeOK == /\ stage \in {"boot", "memory", "creating", "mcp", "serving", "tearing", "ended"}
          /\ agent \in {"none", "live", "closed", "dropped"} /\ agents \in 0..MaxLines /\ handles \in 0..1 /\ leaks \in 0..MaxLines
          /\ pending = (IF Stdio /\ stage \in {"memory", "creating", "mcp"} THEN "invoke" ELSE "none")
          /\ closed => opened
          /\ stage = "boot" => sent = <<>>

\* agp.md: session.closed is emitted exactly once at the end, for every session that
\* was opened and ends for a reason of the schema; on stdio it always does.
SessionIsClosed ==
    stage = "ended" /\ opened =>
        /\ Cardinality({i \in DOMAIN sent : sent[i].type = "session.closed"})
             = IF reason \in CloseReasons THEN 1 ELSE 0
        /\ Stdio => reason \in CloseReasons

\* Nothing follows session.closed: no heartbeat and no invocation speaks after it.
ClosedIsLast == \A i \in DOMAIN sent : sent[i].type = "session.closed" => i = Len(sent)

\* agp.md: runtime.ready comes before the first turn, a config only when there is an agent.
ReadyFirst == \A i \in DOMAIN sent :
                 sent[i].type \in {"runtime.config", "runtime.tools", "message.assistant", "session.heartbeat"}
                     => \E j \in 1..(i - 1) : sent[j].type = "runtime.ready"

\* agp.md: seq is monotonic per session. On a WebSocket errors go out with seq 0.
SeqRises == Stdio => \A i \in 2..Len(sent) : sent[i - 1].seq < sent[i].seq

\* Whatever failed on the way, the end finds no memory open, no agent without aclose
\* and, on stdio, no LangGraph store open; but for a store that fails its setup and an
\* agent that stdio drops when MCP fails.
NothingIsLeft ==
    stage = "ended" =>
        /\ handles = 0 /\ ("setup" \notin session.failures => leaks = 0)
        /\ ~(Stdio /\ "mcp" \in session.failures) => agents = 0
        /\ Stdio => ~ltstore

\* Once the input has ended the session ends, whatever it was doing.
InputEnded == input # <<>> /\ input[Len(input)] = "eof"
=============================================================================
