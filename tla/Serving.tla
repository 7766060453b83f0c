------------------------------- MODULE Serving -------------------------------
(***************************************************************************)
(* What serves a session beside its dispatcher, one instance of each: the  *)
(* budget that the dispatcher asks, a batch of workers, the breaker of the *)
(* LLM, background delegations, the entry of an agent, its MCP client, the *)
(* session from start to end and the pool of workers.                      *)
(* Each has constants and variables of its own; what must hold of several  *)
(* together is stated here, for every value of the constants.              *)
(***************************************************************************)
CONSTANTS
    None,
    Dim, Turn, Started, Limit, Delta, MaxUsed, MaxPatches, MaxRuns,   \* SessionBudget
    N, MaxConcurrent, MaxAttempts, MaxAsks, InterruptBefore, InterruptAfter, Recovery,  \* ParallelWorkers
    Caller, CallKind, Inner, Threshold, Permits, Strategies, BusyRetries, Retries,
    MayCancel,                                                        \* LlmGate
    Tasks, Clients, Ops,                                              \* BackgroundTasks
    Callers, Kinds, Gates, Learns,                                    \* AgentEntry
    McpCallers, Servers, Offers, Resources, Sse, Own, Reserved, MaxRetries,
    MaxClients,                                                       \* McpSession
    Sessions, MaxLines, MaxBeats,                                     \* RuntimeServe
    PoolTasks, PoolWorkers, Able, MaxDepth, MaxRunning, MaxFailures,
    MaxRestarts                                                       \* WorkerRuntime

VARIABLES uTracker, uLimit, uUsed, uAt80, uAt100, uRunning, uShown, uSpent, uPatches, uRuns,
    pCaller, pGate, pApproved, pSkipped, pPending, pReading, pRows, pTask, pOutcome, pTried,
    pCancelling, pHalt, pSignals, pListener, pBatch, pAsks, pAnswers, pHalted, pLate, pRecovered,
    gState, gFailures, gCooled, gFree, gPc, gLeft, gBusy, gProbe, bBg, bTask, bTable, bClient,
    eAt, eJob, eLock, eBoot, eTracker, eQueue, eReader, eWire, mCfg, mPc, mDial, mMade, mCall,
    sSession, sStage, sPending, sSent, sSeq, sOpened, sClosed, sAgent, sAgents, sHandles, sLeaks,
    sHeart, sTurn, sInput, sShutdown, sReason, sLtstore, sLines, sBeats,
    wPhase, wPc, wStatus, wWho, wFails, wCancelled, wReserved, wRegistered, wWst, wStopper,
    wAwaits, wRestarts
uVars == <<uTracker, uLimit, uUsed, uAt80, uAt100, uRunning, uShown, uSpent, uPatches, uRuns>>
pVars == <<pCaller, pGate, pApproved, pSkipped, pPending, pReading, pRows, pTask, pOutcome, pTried,
    pCancelling, pHalt, pSignals, pListener, pBatch, pAsks, pAnswers, pHalted, pLate,
    pRecovered>>
gVars == <<gState, gFailures, gCooled, gFree, gPc, gLeft, gBusy, gProbe>>
bVars == <<bBg, bTask, bTable, bClient>>
eVars == <<eAt, eJob, eLock, eBoot, eTracker, eQueue, eReader, eWire>>
mVars == <<mCfg, mPc, mDial, mMade, mCall>>
sVars == <<sSession, sStage, sPending, sSent, sSeq, sOpened, sClosed, sAgent, sAgents, sHandles,
    sLeaks, sHeart, sTurn, sInput, sShutdown, sReason, sLtstore, sLines, sBeats>>
wVars == <<wPhase, wPc, wStatus, wWho, wFails, wCancelled, wReserved, wRegistered, wWst, wStopper,
    wAwaits, wRestarts>>

Budget == INSTANCE SessionBudget WITH
    tracker <- uTracker, limit <- uLimit, used <- uUsed, at80 <- uAt80, at100 <- uAt100,
    running <- uRunning, shown <- uShown, spent <- uSpent, patches <- uPatches, runs <- uRuns

Batch == INSTANCE ParallelWorkers WITH
    Before <- InterruptBefore, After <- InterruptAfter,
    caller <- pCaller, gate <- pGate, approved <- pApproved, skipped <- pSkipped,
    pending <- pPending, reading <- pReading, rows <- pRows, task <- pTask,
    outcome <- pOutcome, tried <- pTried, cancelling <- pCancelling, halt <- pHalt,
    signals <- pSignals, listener <- pListener, batch <- pBatch, asks <- pAsks,
    answers <- pAnswers, halted <- pHalted, late <- pLate, recovered <- pRecovered

Breaker == INSTANCE LlmGate WITH
    Kind <- CallKind, Slots <- Permits,
    state <- gState, failures <- gFailures, cooled <- gCooled, free <- gFree, pc <- gPc,
    left <- gLeft, busy <- gBusy, probe <- gProbe

Background == INSTANCE BackgroundTasks WITH
    bg <- bBg, task <- bTask, table <- bTable, client <- bClient

Calls == INSTANCE AgentEntry WITH
    at <- eAt, job <- eJob, lock <- eLock, boot <- eBoot, tracker <- eTracker,
    queue <- eQueue, reader <- eReader, wire <- eWire

Mcp == INSTANCE McpSession WITH
    Callers <- McpCallers,
    cfg <- mCfg, pc <- mPc, dial <- mDial, made <- mMade, call <- mCall

Session == INSTANCE RuntimeServe WITH
    session <- sSession, stage <- sStage, pending <- sPending, sent <- sSent, seq <- sSeq,
    opened <- sOpened, closed <- sClosed, agent <- sAgent, agents <- sAgents,
    handles <- sHandles, leaks <- sLeaks, heart <- sHeart, turn <- sTurn, input <- sInput,
    shutdown <- sShutdown, reason <- sReason, ltstore <- sLtstore, lines <- sLines,
    beats <- sBeats

Pool == INSTANCE WorkerRuntime WITH
    Task <- PoolTasks, Worker <- PoolWorkers, MaxConcurrency <- MaxRunning,
    MaxRetries <- MaxFailures,
    phase <- wPhase, pc <- wPc, status <- wStatus, who <- wWho, fails <- wFails,
    cancelled <- wCancelled, reserved <- wReserved, registered <- wRegistered, wst <- wWst,
    stopper <- wStopper, awaits <- wAwaits, restarts <- wRestarts

ServingAssumption ==
    /\ Budget!BudgetAssumption
    /\ Batch!BatchAssumption
    /\ Breaker!GateAssumption
    /\ Background!TasksAssumption
    /\ Calls!EntryAssumption
    /\ Mcp!McpAssumption
    /\ Session!ServeAssumption
    /\ Pool!RuntimeAssumption

-----------------------------------------------------------------------------
(* Properties. *)

\* A latch that stays set stands for a limit that is still reached.
LatchesAreHonest == Budget!LatchesAreHonest
\* Without a change of limits, a session that refuses invocations has said which
\* dimension is exhausted.
RefusalIsTold == Budget!RefusalIsTold
\* The tracker never has less than what its process spent.
NothingEscapes == Budget!NothingEscapes

\* A batch that returns has one row for each approved worker.
OneRowEach == Batch!OneRowEach
\* When a batch returns, none of its workers is alive but those the join gave up on.
NoneLeftRunning == Batch!NoneLeftRunning
\* A row says HALTED only if the user sent it, and says what became of the worker.
RowsTellTheTruth == Batch!RowsTellTheTruth
\* Once halt_event is set no worker begins an attempt.
NoAttemptAfterHalt == Batch!NoAttemptAfterHalt

\* The breaker is closed exactly while fewer calls than the threshold failed in a row.
ClosedIsHealthy == Breaker!ClosedIsHealthy

\* Only a background task that is over is forgotten by the table.
ForgottenIsOver == Background!ForgottenIsOver
\* completed, failed and cancelled are final, where nothing is cancelled.
EndsOnce == Background!EndsOnce

\* Turns of one agent are serialized, however they were called.
OneTurn == Calls!OneTurn
\* The skills are seeded by one caller at a time, and once (_skills_lock).
SeededOnce == Calls!SeededOnce
\* What a consumer sees ends with done or error, once and truly.
StreamEnds == Calls!StreamEnds
\* astream_agp_events starts with opened and ends with closed and the true reason.
AgpStreamIsClosed == Calls!SessionIsClosed
\* A consumer that goes away takes the producer and its lock with it.
NoTaskLeft == Calls!NoTaskLeft

\* No two tools of the agent have one name, whatever the servers call theirs.
NamesAreUnique == Mcp!NamesAreUnique
\* Nobody dials while a client is there.
OneConnection == Mcp!OneConnection
\* A connect that fails or is cancelled leaves no tool, row or client.
AllOrNothing == Mcp!AllOrNothing
\* A caller goes on only with the client it connected or found.
ReadyIsConnected == Mcp!ReadyIsConnected

\* session.closed is written once and last, on stdio with a reason of the schema.
SessionIsClosed == Session!SessionIsClosed
ClosedIsLast == Session!ClosedIsLast
\* Nothing is written before runtime.ready but what opens the session.
ReadyFirst == Session!ReadyFirst
\* Sequence numbers rise on the wire of stdio, through every fork of the emitter.
SeqRises == Session!SeqRises
\* A session that ended has closed its agents and handles, also if its bootstrap failed.
NothingIsLeft == Session!NothingIsLeft

\* A worker is reserved exactly while a task runs on it, and for one task only.
ReservationsHold == Pool!ReservationsHold
\* When stop() has returned, nothing runs and no worker takes tasks.
StopEndsAll == Pool!StopEndsAll

\* What the tracker says and refuses is what the session spent (SessionBudgetTracker).
BudgetIsHonest == LatchesAreHonest /\ RefusalIsTold /\ NothingEscapes
\* A batch tells of each worker once and truly, and leaves none running
\* (run_workers_with_hitl).
BatchIsTold == OneRowEach /\ NoneLeftRunning /\ RowsTellTheTruth
\* What callers share stays whole: the turn lock, the MCP client and its tools, the
\* table of background tasks, the state of the breaker.
SharedIsWhole == OneTurn /\ OneConnection /\ NamesAreUnique /\ ForgottenIsOver /\ ClosedIsHealthy
\* A stream of an agent ends as it should, and leaves nothing behind (astream_events
\* and astream_agp_events).
StreamsEnd == StreamEnds /\ AgpStreamIsClosed /\ NoTaskLeft
\* A session opens, numbers its events and closes in order, and leaves nothing open
\* (_serve_stdio, _session_loop).
SessionCloses == SessionIsClosed /\ ClosedIsLast /\ ReadyFirst /\ SeqRises /\ NothingIsLeft
\* The pool reserves, finishes and stops as it promises (registry, scheduler, pool).
PoolHolds ==
    /\ [](Pool!TypeOK /\ ReservationsHold /\ StopEndsAll)
    /\ [][Pool!FinalStays]_(Pool!vars)
\* No step undoes what was settled: a halt, an outcome, the seeds, a connect.
NothingIsUndone == NoAttemptAfterHalt /\ EndsOnce /\ SeededOnce /\ AllOrNothing /\ ReadyIsConnected
=============================================================================
