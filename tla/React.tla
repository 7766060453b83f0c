------------------------------- MODULE React -------------------------------
(***************************************************************************)
(* patterns/react.py: the ways handle_react runs the tool loop of          *)
(* LangChain, and what it does when a run of that graph fails.  A turn     *)
(* starts on one path: "stream" (an event queue), "hitl" (gated tools and  *)
(* no queue), "ainvoke", or "direct" (no tools); a failed stream continues *)
(* on "ainvoke".  Messages are <<"call", n>> and <<"result", n>>, n the    *)
(* n-th run of a tool; the size of a request is a number that a compaction *)
(* makes smaller.  What the model and the provider do is chosen.           *)
(***************************************************************************)
EXTENDS Integers, FiniteSets

CONSTANTS
  Setups,          \* how a turn may be set up, see ReactAssumption
  Retries,         \* _MAX_TOOL_RETRIES
  Cap,             \* REACT_ABSOLUTE_MAX_AINVOKE_ATTEMPTS
  StrayRetries,    \* _STRAY_TOOL_JSON_RETRIES
  TransportRetries,\* _MAX_TRANSPORT_RETRIES
  UserRounds,      \* react_tool_use_failed_user_rounds
  AutoRetries,     \* react_tool_use_failed_auto_retries_hitl
  MaxSize,         \* a bound: request sizes; MaxSize itself counts as oversized
  MaxTools,        \* a bound: tool runs in a turn
  None

\* start is the path a turn starts on, strict is strict_execution, user says that a
\* user_callback is set, gated that interrupt_before_tools names the tool, and pad that a
\* ToolScratchpad is set, so compaction is possible.
ReactAssumption ==
  /\ Setups \subseteq [start : {"stream", "hitl", "ainvoke", "direct"},
                      strict : BOOLEAN, user : BOOLEAN, gated : BOOLEAN, pad : BOOLEAN]
  /\ Retries \in Nat \ {0} /\ Cap \in Nat /\ Retries < Cap
  /\ StrayRetries \in Nat /\ TransportRetries \in 1..Cap - 1 /\ UserRounds \in Nat
  /\ AutoRetries \in 0..Retries /\ MaxSize \in Nat /\ MaxTools \in Nat

Message == {"call", "result"} \X (1..MaxTools)
Errors == {"tool_use_failed", "no_user_query", "context_window", "transport", "recursion", "budget", "other"}
Least(a, b) == IF a < b THEN a ELSE b

VARIABLES
  setup,           \* the turn's set-up; it never changes
  pc,              \* "next", "graph", "approval", "tool", "stray", "done", "raised"
  path,            \* the loop that runs the graph
  attempt, limit,  \* attempt and max_attempts
  stray,           \* stray_remaining
  transport,       \* transport_retries
  rounds,          \* user_recovery_budget
  silent,          \* silent_in_batch
  again,           \* stream_compact_retry_remaining
  size,            \* estimated tokens of the messages
  state,           \* messages the graph was started with
  seen,            \* messages of the running graph
  final,           \* the stream's final_response, or None
  wire,            \* wire[m], times message m was put on the event queue
  result,          \* the ExecutionResult, or None
  tools,           \* history: tool runs
  turns,           \* history: runs of the graph
  asked,           \* history: REACT_TOOL_USE_FAILED was asked
  cause            \* history: how the last run of the graph ended
budgets == <<limit, stray, transport, rounds, silent, again>>
data == <<size, state, seen, final>>
vars == <<setup, pc, path, attempt, budgets, data, wire, result, tools, turns, asked, cause>>

-------------------------------------------------------------------------------
(* handle_react, and what a loop returns *)

\* gated tools wait for the user
Approves == setup.gated /\ setup.user

Batch == AutoRetries + 1
Limit(p) == CASE p = "hitl" -> Batch [] p = "direct" -> TransportRetries + 1 [] OTHER -> Retries

Init ==
  /\ setup \in Setups /\ path = setup.start /\ pc = "next"
  /\ path = "hitl" => Approves
  /\ path = "ainvoke" => ~Approves
  /\ attempt = 0 /\ limit = Limit(path)
  /\ stray = StrayRetries /\ transport = 0 /\ rounds = UserRounds /\ silent = 0 /\ again = 1
  /\ size \in 0..MaxSize /\ state = {} /\ seen = {} /\ final = None
  /\ wire = [m \in Message |-> 0] /\ result = None
  /\ tools = 0 /\ turns = 0 /\ asked = 0 /\ cause = None

Return(success, class, recover) ==
  /\ pc' = "done"
  /\ result' = [success |-> success, class |-> class, recover |-> recover /\ ~setup.strict]
  /\ UNCHANGED <<path, attempt, budgets, data, wire>>
\* a failed turn is a success with its last text

\* Mutant of Fail.
FailHides(class) == Return(TRUE, class, TRUE)

\* _react_failure: maybe_recover_react_failure unless strict_execution is set
Fail(class) == Return(FALSE, class, TRUE)

-------------------------------------------------------------------------------
(* One run of the graph *)

\* the loops compare attempt and max_attempts; the streamed graph is started once
\* more only by its own retry
Start ==
  /\ pc = "next"
  /\ path = "stream" \/ attempt < limit
  /\ pc' = "graph" /\ turns' = turns + 1 /\ cause' = None
  /\ attempt' = IF path = "stream" THEN attempt ELSE attempt + 1
  /\ silent' = IF path = "hitl" THEN silent + 1 ELSE silent
  /\ seen' = state /\ final' = None
  /\ UNCHANGED <<path, limit, stray, transport, rounds, again, size, state, wire, result, tools, asked>>

\* one attempt more than there are

\* Mutant of Exhausted.
ExhaustedPast ==
  /\ pc = "next" /\ path # "stream" /\ attempt > limit
  /\ Fail("exhausted") /\ UNCHANGED <<tools, turns, asked, cause>>

Exhausted ==
  /\ pc = "next" /\ path # "stream" /\ attempt >= limit
  /\ Fail("exhausted") /\ UNCHANGED <<tools, turns, asked, cause>>

\* the model calls the tool; the stream may see the end of the model's node, whose
\* output replaces what it has; a gated tool waits for the user
CallTool ==
  /\ pc = "graph" /\ path # "direct" /\ tools < MaxTools
  /\ tools' = tools + 1
  /\ seen' = seen \cup {<<"call", tools + 1>>}
  /\ IF path = "stream" THEN final' \in {final, {<<"call", tools + 1>>}} ELSE UNCHANGED final
  /\ pc' = IF Approves THEN "approval" ELSE "tool"
  /\ UNCHANGED <<path, attempt, budgets, size, state, wire, result, turns, asked, cause>>

\* HumanApprovalMiddleware inside the tool node
Approve ==
  /\ pc = "approval" /\ pc' = "tool"
  /\ UNCHANGED <<path, attempt, budgets, data, wire, result, tools, turns, asked, cause>>

\* on_tool_start and on_tool_end go to the queue as they come
RunTool ==
  /\ pc = "tool" /\ pc' = "graph"
  /\ seen' = seen \cup {<<"result", tools>>}
  /\ IF path = "stream"
     THEN /\ wire' = [wire EXCEPT ![<<"call", tools>>] = @ + 1, ![<<"result", tools>>] = @ + 1]
          /\ final' \in {final, {<<"result", tools>>}}
     ELSE UNCHANGED <<wire, final>>
  /\ UNCHANGED <<path, attempt, budgets, size, state, result, tools, turns, asked, cause>>

-------------------------------------------------------------------------------
(* The graph returns *)

\* results alone

\* Mutant of EmitSteps.
EmitResults(messages) ==
  IF path = "ainvoke" /\ setup.start = "stream"
  THEN wire' = [m \in Message |-> IF m \in messages /\ m[1] = "result" THEN wire[m] + 1 ELSE wire[m]]
  ELSE UNCHANGED wire

\* _collect_tool_steps makes a step of every tool message of the response and
\* _emit_react_tool_steps_to_event_queue sends those without wire_emitted: all of them
EmitSteps(messages) ==
  IF path = "ainvoke" /\ setup.start = "stream"
  THEN wire' = [m \in Message |-> IF m \in messages THEN wire[m] + 1 ELSE wire[m]]
  ELSE UNCHANGED wire

\* every outcome of ainvoke but stray JSON with a budget left is a success
Answer(kind) ==
  /\ pc = "graph" /\ path # "stream"
  /\ ~(kind = "stray" /\ (stray > 0 \/ path = "direct"))
  /\ cause' = kind /\ pc' = "done"
  /\ result' = [success |-> TRUE, class |-> kind, recover |-> FALSE]
  /\ EmitSteps(seen)
  /\ UNCHANGED <<path, attempt, budgets, data, tools, turns, asked>>

\* the last assistant message is a tool call in JSON: nudge and start the graph again
NudgeStray ==
  /\ pc = "graph" /\ path \in {"ainvoke", "hitl"} /\ stray > 0
  /\ cause' = "stray" /\ stray' = stray - 1
  /\ pc' = "next" /\ state' = seen /\ size' \in {size, Least(size + 1, MaxSize)}
  /\ UNCHANGED <<path, attempt, limit, transport, rounds, silent, again, seen, final, wire, result, tools, turns, asked>>

\* the stream ends: its stray JSON is retried by ainvoke before anything is returned
StreamAnswer(kind) ==
  /\ pc \in {"graph", "stray"} /\ path = "stream"
  /\ cause' = kind
  /\ IF kind = "stray" /\ stray > 0
     THEN /\ pc' = "stray" /\ stray' = stray - 1 /\ turns' = turns + 1 /\ final' = seen
          /\ UNCHANGED <<path, attempt, limit, transport, rounds, silent, again, size, state, seen, wire, result, tools, asked>>
     ELSE Return(kind = "text", IF kind = "text" THEN kind ELSE "tool_error", FALSE)
          /\ UNCHANGED <<tools, turns, asked>>

-------------------------------------------------------------------------------
(* The graph fails *)

\* the user declines the tool.  The stream and the hitl loop return "Aborted"; the
\* ainvoke loop knows no UserAbort
Abort ==
  /\ pc = "approval" \/ (pc = "stray" /\ Approves)
  /\ cause' = "abort"
  /\ IF path = "ainvoke" THEN Fail("execution") ELSE Return(TRUE, "aborted", FALSE)
  /\ UNCHANGED <<tools, turns, asked>>

\* the wall clock of ainvoke (llm_timeout) or of the stream (react_graph_timeout)
\* runs while a tool or the user is waited for; without tools the error is raised
Timeout ==
  /\ pc \in {"graph", "approval", "tool", "stray"} /\ cause' = IF pc = "approval" THEN "timeout_of_user" ELSE "timeout"
  /\ IF path = "direct"
     THEN pc' = "raised" /\ UNCHANGED <<path, attempt, budgets, data, wire, result>>
     ELSE Fail("timeout")
  /\ UNCHANGED <<tools, turns, asked>>

\* the compaction adds its recap and is not compared

\* Mutant of Smaller.
SmallerRecap == IF setup.pad THEN 0..Least(size + 1, MaxSize) ELSE {}

Smaller == IF setup.pad \/ path = "direct" THEN 0..size - 1 ELSE {}
Oversized == size = MaxSize

\* a resent request keeps the messages of the run that failed

\* the same graph again, from a state
Again(messages, n) ==
  /\ pc' = "next" /\ state' = messages /\ size' = n
  /\ UNCHANGED <<path, seen, final, wire, result, attempt>>

\* the cap is not looked at

\* _user_decision_after_tool_use_failed and what "retry" adds to max_attempts
AskUser(more) ==
  /\ setup.user /\ rounds > 0
  /\ rounds' = rounds - 1 /\ asked' = asked + 1
  /\ \/ pc' = "done" /\ result' = [success |-> FALSE, class |-> "execution", recover |-> ~setup.strict]
        /\ UNCHANGED <<path, attempt, limit, stray, transport, silent, again, data, wire>>
     \/ /\ limit' = Least(limit + more, Cap)
        /\ IF limit' <= attempt
           THEN pc' = "done" /\ result' = [success |-> FALSE, class |-> "exhausted", recover |-> ~setup.strict]
                /\ UNCHANGED <<path, attempt, silent, data, wire>>
           ELSE Again(state, size) /\ silent' = IF path = "hitl" THEN 0 ELSE silent
        /\ UNCHANGED <<stray, transport, again>>

Raised(e) == pc = "graph" /\ cause' = e /\ UNCHANGED <<tools, turns>>

\* the user is asked before the automatic retries

\* Mutant of FailHitl.
FailHitlAskFirst(e) ==
  /\ path = "hitl" /\ Raised(e)
  /\ CASE e = "tool_use_failed" /\ setup.user /\ rounds > 0 -> AskUser(Batch)
       [] e = "tool_use_failed" /\ rounds = 0 /\ silent <= AutoRetries -> Again(state, size) /\ UNCHANGED <<budgets, asked>>
       [] OTHER -> Fail(IF e = "recursion" THEN e ELSE "execution") /\ UNCHANGED asked

\* _handle_react_hitl: automatic retries of a rejected turn, then the user
FailHitl(e) ==
  /\ path = "hitl" /\ Raised(e)
  /\ CASE e = "tool_use_failed" /\ silent <= AutoRetries -> Again(state, size) /\ UNCHANGED <<budgets, asked>>
       [] e = "tool_use_failed" /\ silent > AutoRetries /\ setup.user /\ rounds > 0 -> AskUser(Batch)
       [] OTHER -> Fail(IF e = "recursion" THEN e ELSE "execution") /\ UNCHANGED asked

\* _run_react_ainvoke_with_retries: nudge, compact or resend while an attempt is left
FailAinvoke(e) ==
  /\ path = "ainvoke" /\ Raised(e)
  /\ \/ e \in {"tool_use_failed", "no_user_query"} /\ attempt < limit
        /\ Again(state, size) /\ UNCHANGED <<budgets, asked>>
     \/ e = "context_window" /\ attempt < limit
        /\ \E n \in Smaller : Again(state, n)
        /\ UNCHANGED <<budgets, asked>>
     \/ e = "context_window" /\ attempt < limit /\ AskUser(Retries)
     \/ /\ e = "transport" /\ transport < TransportRetries /\ attempt < limit
        /\ transport' = transport + 1
        /\ \E n \in {size} \cup (IF Oversized THEN Smaller ELSE {}) : Again(state, n)
        /\ UNCHANGED <<limit, stray, rounds, silent, again, asked>>
     \/ /\ \/ e \in {"recursion", "other"}
           \/ e \in {"tool_use_failed", "no_user_query"} /\ attempt >= limit
           \/ e = "context_window" /\ (attempt >= limit \/ (~setup.user \/ rounds = 0))
           \/ e = "transport" /\ (transport >= TransportRetries \/ attempt >= limit)
        /\ Fail(IF e \in {"recursion", "transport"} THEN e ELSE "execution")
        /\ UNCHANGED asked
     \/ e = "budget" /\ Return(FALSE, "context", FALSE) /\ UNCHANGED asked

\* _run_react_no_tools_direct: only transport errors are retried, and the rest raised
FailDirect(e) ==
  /\ path = "direct" /\ Raised(e) /\ UNCHANGED asked
  /\ \/ /\ e = "transport" /\ transport < TransportRetries
        /\ transport' = transport + 1
        /\ \E n \in {size} \cup (IF Oversized THEN Smaller ELSE {}) : Again(state, n)
        /\ UNCHANGED <<limit, stray, rounds, silent, again>>
     \/ e = "transport" /\ transport >= TransportRetries /\ Fail("transport")
     \/ /\ e # "transport" /\ pc' = "raised"
        /\ UNCHANGED <<path, attempt, budgets, data, wire, result>>

\* the fallback: a new loop that starts from the last output the stream recorded,
\* and from the query alone when it recorded none
Fallback(n) ==
  /\ pc' = "next" /\ path' = "ainvoke" /\ attempt' = 0 /\ limit' = Retries
  /\ stray' = StrayRetries /\ transport' = 0 /\ rounds' = UserRounds /\ silent' = 0
  /\ state' = IF final = None THEN {} ELSE final
  /\ size' = n /\ UNCHANGED <<again, seen, final, wire, result>>

\* the stream's own retry may be taken again and again

\* Mutant of FailStream.
FailStreamAlways(e) ==
  /\ path = "stream" /\ pc \in {"graph", "stray"}
  /\ cause' = e /\ UNCHANGED <<tools, turns, asked>>
  /\ \/ e = "transport" /\ Again(IF final # None THEN final ELSE state, size) /\ UNCHANGED budgets
     \/ e # "transport" /\ Fail("transport")

\* _handle_react_streaming, its recovery of a stray answer included: one retry of its
\* own for a transport error, then ainvoke
FailStream(e) ==
  /\ path = "stream" /\ pc \in {"graph", "stray"}
  /\ cause' = e /\ UNCHANGED <<tools, turns, asked>>
  /\ \/ e = "recursion" /\ Fail("recursion")
     \/ e = "budget" /\ Return(FALSE, "context", FALSE)
     \/ /\ e = "transport" /\ again > 0 /\ again' = again - 1
        /\ \E n \in IF Oversized THEN Smaller ELSE {size} : Again(IF final # None THEN final ELSE state, n)
        /\ UNCHANGED <<limit, stray, transport, rounds, silent>>
     \/ /\ e \notin {"recursion", "budget"}
        /\ e = "transport" => again = 0 \/ Oversized
        /\ \/ setup.strict /\ Return(FALSE, "transport", FALSE)
           \/ ~setup.strict /\ \E n \in {size} \cup (IF e = "context_window" THEN Smaller ELSE {}) : Fallback(n)

Loop ==
  \/ Start \/ Exhausted \/ CallTool \/ Approve \/ RunTool \/ NudgeStray \/ Abort \/ Timeout
  \/ \E kind \in {"text", "empty", "stray"} : Answer(kind) \/ StreamAnswer(kind)
  \/ \E e \in Errors : FailHitl(e) \/ FailAinvoke(e) \/ FailDirect(e) \/ FailStream(e)
Next == UNCHANGED setup /\ Loop
Spec == Init /\ [][Next]_vars
\* one coroutine: the graph returns, fails or times out, and a user who is asked
\* may take until the timeout
FairSpec == Spec /\ WF_vars(Next)

-------------------------------------------------------------------------------
(* Properties *)

\* counters, messages and the result have their types
TypeOK ==
  /\ pc \in {"next", "graph", "approval", "tool", "stray", "done", "raised"}
  /\ path \in {"stream", "hitl", "ainvoke", "direct"}
  /\ attempt \in 0..Cap /\ limit \in 1..(Cap + 1) /\ stray \in 0..StrayRetries
  /\ transport \in 0..TransportRetries /\ rounds \in 0..UserRounds /\ silent \in 0..Cap /\ again \in 0..1
  /\ size \in 0..MaxSize /\ state \subseteq Message /\ seen \subseteq Message
  /\ final = None \/ final \in SUBSET Message
  /\ \A m \in Message : wire[m] \in Nat
  /\ result # None => {result.success, result.recover} \subseteq BOOLEAN

\* the model is asked at most so often: two streams, a recovery for each stray
\* answer, and the attempts of one loop, which no user can extend beyond the cap
LoopIsBounded ==
  /\ turns <= (IF setup.start = "stream" THEN 2 + StrayRetries ELSE 0) + Cap
  /\ attempt <= Least(Cap, Limit(path) * (1 + UserRounds))

\* a tool result is never shown without its call, on whichever path it came
ResultsFollowCalls == \A n \in 1..MaxTools : wire[<<"result", n>>] > 0 => wire[<<"call", n>>] > 0

\* the user is asked only after the automatic retries: with a fresh batch each time
AskedLast == path = "hitl" => asked * Batch <= attempt

\* no error is swallowed: a failed turn ends with a class, and a run that ended well
\* ended with an answer or an abort of the user
SuccessIsAnswered == pc = "done" /\ result.success => cause \in {"text", "empty", "stray", "abort"}

\* a compaction or a retry never makes the request of a retry larger
RetriesDoNotGrow == [][pc = "graph" /\ pc' = "next" /\ cause' # "stray" => size' <= size]_vars
===============================================================================
