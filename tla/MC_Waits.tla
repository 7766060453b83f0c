------------------------------ MODULE MC_Waits ------------------------------
(* Who waits for whom, under the fairness of the event loop: the bridge with
   one gate of each kind, a batch of workers, calls of the LLM through their
   breaker, background tasks, the entry of an agent, the session from start to
   end, the pool of workers, MCP calls and a turn on the wire. A behaviour
   runs the one component that part names; the others stay as they started. *)
EXTENDS HitlBridge, Serving

VARIABLES part, tKernel, tDone, tEvents, tTurn, tOutcome, tWire, tFilter
tVars == <<tKernel, tDone, tEvents, tTurn, tOutcome, tWire, tFilter>>
all == <<part, bridgeVars, uVars, pVars, gVars, bVars, eVars, sVars, wVars, mVars, tVars>>

\* Values of the constants that a configuration file cannot write.
NoLimits == [d \in Dim |-> None]
WorkersAndTheirTools == [c \in Caller |-> IF c % 2 = 1 THEN "worker" ELSE "structured"]
ToolOfEachWorker == [c \in Caller |-> IF c \in {1, 3} THEN {c + 1} ELSE {}]
OneServer == <<"s1">>
Offered == [s \in {"s1"} |-> {"query"}]

\* A bootstrap that fails at most steps, and a WebSocket.
TwoSessions ==
  {[transport |-> "stdio", known |-> FALSE, mcp |-> TRUE, failures |-> {"llm", "create", "mcp"}],
   [transport |-> "ws", known |-> FALSE, mcp |-> TRUE, failures |-> {}]}
EveryWorker == [t \in PoolTasks |-> PoolWorkers]

Wire == INSTANCE TurnWire WITH
    Workers <- {"w1"}, Tools <- {}, InProcess <- FALSE, Failing <- TRUE, Cancels <- TRUE,
    Filters <- FALSE,
    kernel <- tKernel, done <- tDone, events <- tEvents, turn <- tTurn, outcome <- tOutcome,
    wire <- tWire, filter <- tFilter

ASSUME ServingAssumption

AllInit == /\ part \in {"bridge", "batch", "breaker", "background", "streams", "session",
            "pool", "mcp", "turn"}
           /\ Init
           /\ IF part = "bridge" THEN TRUE ELSE saved = {}
           /\ Budget!Init
           /\ Batch!Init
           /\ Breaker!Init
           /\ Background!Init
           /\ Calls!Init
           /\ Session!Init
           /\ IF part = "session" THEN TRUE ELSE sSession = CHOOSE s \in Sessions : TRUE
           /\ Pool!Init
           /\ Mcp!Init
           /\ Wire!Init
Others ==
  /\ UNCHANGED <<part, uVars>>
  /\ IF part = "bridge" THEN TRUE ELSE UNCHANGED bridgeVars
  /\ IF part = "batch" THEN TRUE ELSE UNCHANGED pVars
  /\ IF part = "breaker" THEN TRUE ELSE UNCHANGED gVars
  /\ IF part = "background" THEN TRUE ELSE UNCHANGED bVars
  /\ IF part = "streams" THEN TRUE ELSE UNCHANGED eVars
  /\ IF part = "session" THEN TRUE ELSE UNCHANGED sVars
  /\ IF part = "pool" THEN TRUE ELSE UNCHANGED wVars
  /\ IF part = "mcp" THEN TRUE ELSE UNCHANGED mVars
  /\ IF part = "turn" THEN TRUE ELSE UNCHANGED tVars
AllNext ==
  /\ \/ part = "bridge" /\ Next
     \/ part = "batch" /\ Batch!Next
     \/ part = "breaker" /\ Breaker!Next
     \/ part = "background" /\ Background!Next
     \/ part = "streams" /\ Calls!Next
     \/ part = "session" /\ Session!Next
     \/ part = "pool" /\ Pool!Next
     \/ part = "mcp" /\ Mcp!Next
     \/ part = "turn" /\ Wire!Next
  /\ Others
\* What goes on by itself in each part: the loop runs what is ready, calls return or
\* fail, timers expire. Nothing is assumed of users, clients and signals.
Runs(i) ==
  CASE part = "bridge" -> i = 1 /\ \E r \in Request : TimerFires(r) \/ Resume(r)
    [] part = "batch" -> (i = 1 /\ Batch!Gather) \/ (i = 2 /\ Batch!ListenerTakes)
    [] part = "breaker" -> i \in 1..4 /\ Breaker!Proceed(i)
    [] part = "background" ->
         (i \in 1..2 /\ Background!TaskStep(i)) \/ (i \in 3..4 /\ Background!Wakes(i - 2))
    [] part = "streams" -> i \in 1..2 /\ Calls!Progress(i)
    [] part = "session" -> i = 1 /\ Session!Runs
    [] part = "pool" -> \/ i \in 1..2 /\ Pool!PoolStep(i)
                        \/ i \in 3..4 /\ Pool!EndStop(i - 2)
                        \/ i = 5 /\ Pool!DispatchAll
                        \/ i = 6 /\ Pool!StopWorkers
    [] part = "mcp" -> (i = 1 /\ Mcp!DialEnds) \/ (i = 2 /\ Mcp!CallGoesOn)
    [] part = "turn" -> \/ i = 1 /\ Wire!KernelStep
                        \/ (i = 2 /\ Wire!Consume) \/ (i = 3 /\ Wire!Complete)
\* A semaphore and the lock of an agent serve whoever waits, in order.
TakesTurn(i) ==
  \/ part = "breaker" /\ Breaker!Acquire(i)
  \/ part = "streams" /\ i \in 1..2 /\ Calls!TakeTurn(i)
AllSpec ==
  /\ AllInit
  /\ [][AllNext]_all
  /\ \A i \in 1..6 : WF_all(Runs(i) /\ Others)
  /\ \A i \in 1..4 : SF_all(TakesTurn(i) /\ Others)

-----------------------------------------------------------------------------
(* Properties.  Others are in HitlBridge and Serving. *)

\* Every wait ends. A call of the LLM returns whoever holds the permits, a cancel or
\* shutdown of background tasks is answered, a call of an agent ends without keeping
\* its lock, a queued task settles unless the node stops, an MCP call returns,
\* a turn on the wire is over.
CallOpen(i) ==
  \/ part = "breaker" /\ Breaker!Active(i)
  \/ part = "background" /\ i \in 1..2 /\ bClient[i].at = "waiting"
  \/ part = "streams" /\ i \in 1..2 /\ Calls!Running(i)
  \/ part = "pool" /\ i \in 1..2 /\ Pool!Unsettled(i)
  \/ part = "mcp" /\ i = 1 /\ mCall # None
  \/ part = "turn" /\ i = 1 /\ tTurn \in {"open", "failed"}
EveryCallEnds == \A i \in 1..4 : []<>~CallOpen(i)

\* Whoever was told to stop does stop: a batch after HALT_ALL (or it waits for the
\* user), a worker whose stop() is awaited, a session whose input has ended; and a
\* half-open breaker makes up its mind.
Stopping(i) ==
  \/ part = "batch" /\ i = 1 /\ pHalt /\ ~Batch!BackOrAsking
  \/ part = "pool" /\ i \in 1..2 /\ wStopper[i] # "none"
  \/ part = "session" /\ i = 1 /\ sStage # "ended" /\ (sStage = "tearing" \/ Session!InputEnded)
  \/ part = "breaker" /\ i = 1 /\ gState = "half"
EveryStopEnds == \A i \in 1..2 : []<>~Stopping(i)

-----------------------------------------------------------------------------
(* What the run checks. *)

\* Every wait ends: of the agent for a gate, of callers for calls, of those who stop
\* something for its end.
EveryWaitEnds == ResolvedGateCloses /\ TimedGateCloses /\ EveryCallEnds /\ EveryStopEnds
=============================================================================
