----------------------------- MODULE MC_Engines -----------------------------
(* The pattern engines, the dispatcher above them, the turn of an agent and
   its handoffs, each in the configurations that matter. A behaviour runs the
   one component that part names; the others stay as they started. *)
EXTENDS Integers, Sequences, FiniteSets
CONSTANTS
  Pattern, Task, Agents, MaxSpawns,                       \* Orchestrator
  FanWorkers, FanFallback, FanSetups,                     \* FanOut
  MaxIterations, Threshold, Scores, Gates,                \* Reflection
  ReactSetups, Retries, Cap, StrayRetries, TransportRetries, UserRounds, AutoRetries,
  MaxSize, MaxTools,                                      \* React
  Handing, Callers, HandTargets, HandTools, MaxAsks,      \* Handoffs
  Queries, NeedsTools, Registered, Ttl, Merging, TurnSetups, MaxAge,  \* AgentTurn
  MayHalt, None

\* what engines.cfg gives them: agents at their limits, every set-up of a fan-out of
\* three workers that recovers in its own way, and every set-up of a ReAct turn
PatternTypes == {"REACT", "SWARM", "REFLECTION", "BLACKBOARD", "HYBRID_DAG"}
LimitedAgents ==
  {[depth |-> 2, calls |-> 2, escalation |-> TRUE, aggressive |-> TRUE, complexity |-> {1, 9},
    suggested |-> {None, -1, 0, 1, 2, 7}, patterns |-> PatternTypes \ {"HYBRID_DAG"}],
   [depth |-> 3, calls |-> 2, escalation |-> TRUE, aggressive |-> FALSE, complexity |-> {9},
    suggested |-> {None}, patterns |-> {"REACT", "SWARM"}]}
FanOuts ==
  {[mode |-> "supervisor", gated |-> 1..3, spawns |-> FALSE],
   [mode |-> "supervisor", gated |-> 1..3, spawns |-> TRUE],
   [mode |-> "swarm", gated |-> {1, 2}, spawns |-> TRUE]}
Judged == {{}, {"generator", "critic"}}
ReactTurns == [start : {"stream", "hitl", "ainvoke", "direct"}, strict : BOOLEAN,
               user : BOOLEAN, gated : BOOLEAN, pad : BOOLEAN]

\* the dependencies of three workers, none of which depends on itself
Graphs == {g \in [1..3 -> SUBSET (1..3)] : \A w \in 1..3 : w \notin g[w]}
\* a tree of handoffs, with a tool of the planner that asks the reviewer
Family == {"planner", "coder", "reviewer"}
Targets == [a \in Family |->
             CASE a = "planner" -> <<"coder", "reviewer">> [] a = "coder" -> <<"reviewer">> [] OTHER -> <<>>]
AskedAbout == [a \in Family |-> IF a = "planner" THEN {"reviewer"} ELSE {}]
\* what is registered, how long its results are kept, and agents with a cache, with a
\* frozen plan that expires, with a DIRECT of their own, and with a callable prompt
Handlers == {"DIRECT", "REACT", "SUPERVISOR", "REFLECTION"}
Patterns == Handlers \cup {"CUSTOM"}
Ttls == [p \in Patterns |-> CASE p = "DIRECT" -> 3 [] p \in {"REFLECTION", "CUSTOM"} -> 0 [] OTHER -> 1]
LiveAgent ==
  [planned |-> Patterns, before |-> {"REACT", "SUPERVISOR"}, after |-> {"DIRECT"}, cache |-> TRUE,
   frozen |-> FALSE, expires |-> FALSE, callable |-> FALSE, custom |-> FALSE, targets |-> TRUE, turns |-> 2]
AgentSetups ==
  {LiveAgent,
   [LiveAgent EXCEPT !.planned = {"DIRECT", "REACT", "SUPERVISOR"}, !.before = {"REACT"}, !.after = {},
                     !.frozen = TRUE, !.expires = TRUE, !.targets = FALSE, !.turns = 3],
   [LiveAgent EXCEPT !.before = {"DIRECT"}, !.after = {"REACT", "SUPERVISOR"}, !.cache = FALSE,
                     !.custom = TRUE, !.targets = FALSE],
   [LiveAgent EXCEPT !.planned = {"REACT", "SUPERVISOR"}, !.frozen = TRUE, !.callable = TRUE,
                     !.cache = FALSE, !.targets = FALSE]}

VARIABLES part, oAgent, oPlan, oFrames, cDeps, cTodo, cPc, cLevel, cLive, cRow, cHalt, cQueued, cResult,
    cDeclined, cSent, cStopped, fSetup, fPc, fPlans, fLive, fRow, fSkipped, fWire, fQueued, fUsage,
    fResult, fSpent, fSent, eGated, ePc, eIteration, eBest, eBestScore, eQueued, eUsage, eResult,
    eVerdict, eSpent, eSent, eStopped, bDeps, bPc, bRound, bEligible, bCurrent, bAttempted,
    bFilled, bFailed, bRow, bQueued, bHalted, bResult, bSent, rSetup, rPc, rPath, rAttempt, rLimit,
    rStray, rTransport, rRounds, rSilent, rAgain, rSize, rState, rSeen, rFinal, rWire,
    rResult, rTools, rTurns, rAsked, rCause, hStack, hLock, hCall, tSetup, tAgent, tTurn, tCache,
    tMemory, tCkpt, tN, tSeen
oVars == <<oAgent, oPlan, oFrames>>
cVars == <<cDeps, cTodo, cPc, cLevel, cLive, cRow, cHalt, cQueued, cResult, cDeclined, cSent,
    cStopped>>
fVars == <<fSetup, fPc, fPlans, fLive, fRow, fSkipped, fWire, fQueued, fUsage, fResult, fSpent, fSent>>
eVars == <<eGated, ePc, eIteration, eBest, eBestScore, eQueued, eUsage, eResult, eVerdict, eSpent, eSent,
    eStopped>>
bVars == <<bDeps, bPc, bRound, bEligible, bCurrent, bAttempted, bFilled, bFailed, bRow, bQueued,
    bHalted, bResult, bSent>>
rVars == <<rSetup, rPc, rPath, rAttempt, rLimit, rStray, rTransport, rRounds, rSilent, rAgain, rSize,
    rState, rSeen, rFinal, rWire, rResult, rTools, rTurns, rAsked, rCause>>
hVars == <<hStack, hLock, hCall>>
tVars == <<tSetup, tAgent, tTurn, tCache, tMemory, tCkpt, tN, tSeen>>
all == <<part, oVars, cVars, fVars, eVars, bVars, rVars, hVars, tVars>>

Turn == INSTANCE Orchestrator WITH agent <- oAgent, plan <- oPlan, frames <- oFrames

Pipeline == INSTANCE WorkerChains WITH
    N <- 3, Mode <- "pipeline", Edges <- Graphs, Gated <- {}, Spawns <- FALSE,
    Dynamic <- FALSE, Dispatched <- {}, MayHalt <- TRUE,
    deps <- cDeps, todo <- cTodo, pc <- cPc, level <- cLevel, live <- cLive, row <- cRow,
    halt <- cHalt, queued <- cQueued, result <- cResult, declined <- cDeclined,
    sent <- cSent, stopped <- cStopped
Planner == INSTANCE WorkerChains WITH
    N <- 3, Mode <- "planner", Edges <- Graphs, Gated <- {}, Spawns <- FALSE,
    Dynamic <- FALSE, Dispatched <- {}, MayHalt <- TRUE,
    deps <- cDeps, todo <- cTodo, pc <- cPc, level <- cLevel, live <- cLive, row <- cRow,
    halt <- cHalt, queued <- cQueued, result <- cResult, declined <- cDeclined,
    sent <- cSent, stopped <- cStopped
Levels == INSTANCE WorkerChains WITH
    N <- 3, Mode <- "dag", Edges <- Graphs, Gated <- 1..3, Spawns <- FALSE,
    Dynamic <- FALSE, Dispatched <- {}, MayHalt <- TRUE,
    deps <- cDeps, todo <- cTodo, pc <- cPc, level <- cLevel, live <- cLive, row <- cRow,
    halt <- cHalt, queued <- cQueued, result <- cResult, declined <- cDeclined,
    sent <- cSent, stopped <- cStopped
Recovery == INSTANCE WorkerChains WITH
    N <- 3, Mode <- "dag", Edges <- Graphs, Gated <- {1}, Spawns <- TRUE, Dynamic <- FALSE,
    Dispatched <- {}, MayHalt <- TRUE,
    deps <- cDeps, todo <- cTodo, pc <- cPc, level <- cLevel, live <- cLive, row <- cRow,
    halt <- cHalt, queued <- cQueued, result <- cResult, declined <- cDeclined,
    sent <- cSent, stopped <- cStopped
DynamicLevels == INSTANCE WorkerChains WITH
    N <- 3, Mode <- "dag", Edges <- Graphs, Gated <- {1}, Spawns <- TRUE, Dynamic <- TRUE,
    Dispatched <- {3}, MayHalt <- TRUE,
    deps <- cDeps, todo <- cTodo, pc <- cPc, level <- cLevel, live <- cLive, row <- cRow,
    halt <- cHalt, queued <- cQueued, result <- cResult, declined <- cDeclined,
    sent <- cSent, stopped <- cStopped

Fan == INSTANCE FanOut WITH
    Worker <- FanWorkers, Fallback <- FanFallback, Setups <- FanSetups,
    setup <- fSetup, pc <- fPc, plans <- fPlans, live <- fLive, row <- fRow,
    skipped <- fSkipped, wire <- fWire, queued <- fQueued, usage <- fUsage,
    result <- fResult, spent <- fSpent, sent <- fSent

Reflect == INSTANCE Reflection WITH
    gated <- eGated, pc <- ePc, iteration <- eIteration, best <- eBest,
    bestScore <- eBestScore, queued <- eQueued, usage <- eUsage, result <- eResult,
    verdict <- eVerdict, spent <- eSpent, sent <- eSent, stopped <- eStopped

Board == INSTANCE Blackboard WITH
    N <- 3, Edges <- [1..3 -> SUBSET (1..3)], MaxRounds <- 10, MayHalt <- TRUE,
    deps <- bDeps, pc <- bPc, round <- bRound, eligible <- bEligible, current <- bCurrent,
    attempted <- bAttempted, filled <- bFilled, failed <- bFailed, row <- bRow,
    queued <- bQueued, halted <- bHalted, result <- bResult, sent <- bSent
Rounds == INSTANCE Blackboard WITH
    N <- 3, Edges <- {[s \in 1..3 |-> {s - 1} \ {0}], [s \in 1..3 |-> {}]}, MaxRounds <- 2,
    MayHalt <- TRUE,
    deps <- bDeps, pc <- bPc, round <- bRound, eligible <- bEligible, current <- bCurrent,
    attempted <- bAttempted, filled <- bFilled, failed <- bFailed, row <- bRow,
    queued <- bQueued, halted <- bHalted, result <- bResult, sent <- bSent

Asking == INSTANCE React WITH
    Setups <- ReactSetups,
    setup <- rSetup, pc <- rPc, path <- rPath, attempt <- rAttempt, limit <- rLimit,
    stray <- rStray, transport <- rTransport, rounds <- rRounds, silent <- rSilent,
    again <- rAgain, size <- rSize, state <- rState, seen <- rSeen, final <- rFinal,
    wire <- rWire, result <- rResult, tools <- rTools, turns <- rTurns, asked <- rAsked,
    cause <- rCause

Hand == INSTANCE Handoffs WITH
    Agents <- Handing, Targets <- HandTargets, Tools <- HandTools,
    stack <- hStack, lock <- hLock, call <- hCall

Agent == INSTANCE AgentTurn WITH
    Setups <- TurnSetups, setup <- tSetup,
    agent <- tAgent, turn <- tTurn, cache <- tCache, memory <- tMemory, ckpt <- tCkpt,
    n <- tN, seen <- tSeen

\* the constants of the components theorems are about, and of the others
ASSUME EnginesAssumption == /\ Turn!LimitAssumption
                            /\ Fan!FanOutAssumption
                            /\ Reflect!ReflectionAssumption
                            /\ Asking!ReactAssumption
                            /\ Hand!HandoffAssumption
                            /\ Agent!TurnAssumption
ASSUME /\ Pipeline!ChainAssumption
       /\ Planner!ChainAssumption
       /\ Levels!ChainAssumption
       /\ Recovery!ChainAssumption
       /\ DynamicLevels!ChainAssumption
       /\ Board!BlackboardAssumption
       /\ Rounds!BlackboardAssumption

cParts == {"pipeline", "planner", "levels", "recovery", "dynamic"}
bParts == {"board", "rounds"}
Parts == {"turn", "fanout", "reflection", "react", "handoffs", "agent"} \cup cParts \cup bParts

\* a component that does not run has one initial state
AllInit ==
  /\ part \in Parts
  /\ part = "turn" \/ oAgent = CHOOSE a \in Agents : TRUE
  /\ part = "fanout" \/ fSetup = CHOOSE s \in FanSetups : TRUE
  /\ part = "reflection" \/ eGated = CHOOSE g \in Gates : TRUE
  /\ part = "react" \/ (rSize = 0 /\ rSetup = CHOOSE s \in ReactSetups : s.start = "stream")
  /\ part = "agent" \/ tSetup = CHOOSE s \in TurnSetups : ~s.frozen
  /\ part \in cParts \/ cDeps = [w \in 1..3 |-> {}]
  /\ part \in bParts \/ bDeps = [s \in 1..3 |-> {}]
  /\ Turn!Init /\ (part = "turn" \/ oPlan = CHOOSE p \in Turn!TurnPlans : TRUE)
  /\ Fan!Init /\ Reflect!Init /\ Asking!Init /\ Pipeline!Init /\ Hand!Init /\ Agent!Init
  /\ IF part = "rounds" THEN Rounds!Init ELSE Board!Init
Others ==
  /\ UNCHANGED part
  /\ IF part = "turn" THEN TRUE ELSE UNCHANGED oVars
  /\ IF part \in cParts THEN TRUE ELSE UNCHANGED cVars
  /\ IF part = "fanout" THEN TRUE ELSE UNCHANGED fVars
  /\ IF part = "reflection" THEN TRUE ELSE UNCHANGED eVars
  /\ IF part \in bParts THEN TRUE ELSE UNCHANGED bVars
  /\ IF part = "react" THEN TRUE ELSE UNCHANGED rVars
  /\ IF part = "handoffs" THEN TRUE ELSE UNCHANGED hVars
  /\ IF part = "agent" THEN TRUE ELSE UNCHANGED tVars
AllNext ==
  /\ \/ part = "turn" /\ Turn!Next
     \/ part = "fanout" /\ Fan!Next
     \/ part = "reflection" /\ Reflect!Next
     \/ part = "react" /\ Asking!Next
     \/ part = "pipeline" /\ Pipeline!Next
     \/ part = "planner" /\ Planner!Next
     \/ part = "levels" /\ Levels!Next
     \/ part = "recovery" /\ Recovery!Next
     \/ part = "dynamic" /\ DynamicLevels!Next
     \/ part = "board" /\ Board!Next
     \/ part = "rounds" /\ Rounds!Next
     \/ part = "handoffs" /\ Hand!Next
     \/ part = "agent" /\ Agent!Next
  /\ Others
AllRuns == AllInit /\ [][AllNext]_all
AllFairness ==
  /\ WF_oVars(part = "turn" /\ UNCHANGED oAgent /\ \E f \in DOMAIN oFrames : Turn!FrameStep(f))
  /\ WF_cVars((part = "pipeline" /\ Pipeline!Engine) \/ (part = "planner" /\
       Planner!Engine) \/ (part = "levels" /\ Levels!Engine) \/ (part = "recovery" /\
       Recovery!Engine) \/ (part = "dynamic" /\ DynamicLevels!Engine))
  /\ \A w \in 1..3 : WF_cVars((part = "pipeline" /\ Pipeline!Run(w)) \/ (part = "planner"
       /\ Planner!Run(w)) \/ (part = "levels" /\ Levels!Run(w)) \/ (part = "recovery" /\
       Recovery!Run(w)) \/ (part = "dynamic" /\ DynamicLevels!Run(w)))
  /\ WF_fVars(part = "fanout" /\ UNCHANGED fSetup /\ Fan!Engine)
  /\ \A w \in FanWorkers : WF_fVars(part = "fanout" /\ UNCHANGED fSetup /\ Fan!Run(w))
  /\ WF_eVars(part = "reflection" /\ UNCHANGED eGated /\ Reflect!Engine)
  /\ WF_bVars((part = "board" /\ Board!Engine) \/ (part = "rounds" /\ Rounds!Engine))
  /\ WF_rVars(part = "react" /\ Asking!Next)
  /\ \A c \in Callers : WF_hVars(part = "handoffs" /\ hStack[c] # <<>> /\
       Hand!Work(c))
  /\ \A c \in Callers : SF_hVars(part = "handoffs" /\ hStack[c] # <<>> /\
       Hand!TakeTurn(c))
AllSpec == AllRuns /\ AllFairness

-----------------------------------------------------------------------------
(* Properties.  One that holds in every configuration of a component is stated *)
(* by one instance; the others name the part they are about.                   *)

\* Types of every engine.
EnginesTypeOK ==
  /\ Turn!TypeOK /\ Levels!TypeOK /\ Fan!TypeOK /\ Reflect!TypeOK /\ Board!TypeOK
  /\ Asking!TypeOK /\ Hand!TypeOK /\ Agent!TypeOK

\* "Hard safety limits so runs cannot recurse forever": the chain of frames above a
\* frame is no longer than the agent's ceiling, whatever the classifier said.
ChainsAreShort == Turn!ChainsAreShort
\* No pair of pattern and task comes twice on a chain (check_cycle).
ChainsDoNotRepeat == Turn!ChainsDoNotRepeat
\* What a frame has been charged for stays within the turn's limit.
OwnBudgetHolds == Turn!OwnBudgetHolds

\* No worker runs before each of its dependencies has a row (topological_sort and
\* group_by_level), and a step of a pipeline is given the outputs of all of them.
DependenciesFirst ==
  /\ part = "pipeline" => Pipeline!DependenciesFirst
  /\ Levels!DependenciesFirst
\* A plan is refused exactly if its graph has a cycle (the ValueError of both).
CyclesAreRefused == Levels!CyclesAreRefused
\* When an engine ends every worker of its plan has a row, however it ended.
RowsAreComplete == Levels!RowsAreComplete
\* A user who declines every level gets a success, and a worker the user has declined
\* does not run, not even to recover. A dynamic node that is declined counts as failed
\* and recovers.
DeclineIsRespected ==
  /\ part = "levels" => Levels!DeclineIsSuccess
  /\ part # "dynamic" => Levels!DeclinedDoesNotRun

\* A success of a fan-out rests on a worker that succeeded, or on a user who declined
\* them all, who gets a success; a worker the user has declined does not run, not even
\* to recover. Without recovery the result counts the tokens of every run, and
\* worker_end says what the row says. In a swarm every worker_start has its worker_end.
FanOutIsTrue ==
  /\ Fan!SuccessIsEarned /\ Fan!DeclineIsSuccess /\ Fan!DeclinedDoesNotRun
  /\ Fan!UsageIsWhole /\ Fan!EventsAgree /\ Fan!EventsBracket

\* best_draft is the first draft with the highest score a draft was trusted with.
BestIsBest == Reflect!BestIsBest
\* Without a halt or a declined critic, success needs a verdict that accepts.
SuccessIsJudged == Reflect!SuccessIsJudged

\* A source of the board runs once, after all it depends on.
SourcesRunOnce == Board!SourcesRunOnce
\* The board splits what was attempted into content and failures, as the rows do.
BoardIsSplit == Board!BoardIsSplit
\* Only a cycle or the limit of rounds keeps a source from running.
NothingIsSkipped ==
  IF part = "rounds" THEN Rounds!NothingIsSkipped ELSE Board!NothingIsSkipped

\* The model is asked at most so often, whatever fails and whatever the user says.
LoopIsBounded == Asking!LoopIsBounded /\ Reflect!LoopIsBounded
\* A tool result is never shown without its call, on whichever path it came.
ResultsFollowCalls == Asking!ResultsFollowCalls
\* The user is asked after the automatic retries only, with a fresh batch each time.
AskedLast == Asking!AskedLast
\* A run of ReAct that ended well ended with an answer or an abort of the user.
SuccessIsAnswered == Asking!SuccessIsAnswered

\* An agent is locked exactly while one turn is on it, however deep an error was.
LocksAreHeld == Hand!LocksAreHeld

\* Whatever way a turn ends, its question is in the session memory exactly once,
\* and not at all when the user refused it before the handler.
RecordedOnce == Agent!RecordedOnce
\* A handler runs only after the user agreed to its pattern, where the planner
\* itself chose that pattern.
ChosenIsAsked == Agent!ChosenIsAsked
\* What the cache keeps of a handler is a success, and nothing of a frozen agent.
CacheHoldsWork == Agent!CacheHoldsWork
\* The turn's usage counts every token of the workers.
WorkersAreBilled == Agent!WorkersAreBilled
\* frozen-agents.md: the planner runs once per lock, and while a plan is in force a
\* turn that replays runs its pattern.
PlanIsReplayed == Agent!ClassifiesOnce /\ Agent!ReplayFollowsPlan

\* A HALT_ALL that has ended workers starts nothing more: no step of a chain, no
\* level, no source; a pipeline starts nothing after a failure; a batch ends whole.
\* A dynamic node has a halt of its own.
HaltReachesAll ==
  /\ [][part = "pipeline" => Pipeline!StartsNothingMore]_all
  /\ [][part = "planner" => Planner!StartsNothingMore]_all
  /\ [][part # "dynamic" => Levels!HaltReachesLevels]_all
  /\ Fan!HaltEndsAll /\ Board!HaltStops
\* A compaction or a retry never makes the request of a retry larger.
RetriesDoNotGrow == Asking!RetriesDoNotGrow
\* Only its expiry or reset_frozen releases a frozen plan: no turn takes it away.
PlanStays == Agent!PlanStays

\* Every run of every engine ends, whatever its workers, models and users do.
Over ==
  /\ part = "turn" => oFrames = <<>> \/ oFrames[1].status = "done"
  /\ part \in cParts => cPc \in {"done", "refused"}
  /\ part = "fanout" => fPc = "done"
  /\ part = "reflection" => ePc = "done"
  /\ part \in bParts => bPc = "done"
  /\ part = "react" => rPc \in {"done", "raised"}
EnginesEnd == []<>Over
\* Every call of an agent ends when the handoffs form a tree.
EveryCallEnds == Hand!EveryCallEnds

-----------------------------------------------------------------------------
(* What the run checks. *)

\* The limits on recursion, calls and retries hold, whoever asks for more.
LimitsHold == ChainsAreShort /\ ChainsDoNotRepeat /\ OwnBudgetHolds /\ LoopIsBounded
\* What a fan-out, a reflection and a ReAct turn return is what their workers, critics
\* and models did, and what the user was asked and has said.
ResultsAreTrue ==
  /\ FanOutIsTrue /\ SuccessIsJudged /\ BestIsBest
  /\ SuccessIsAnswered /\ ResultsFollowCalls /\ AskedLast
\* The workers of a chain and the sources of a board run level by level, once, after
\* what they depend on; the rows are theirs, and a no of the user is a no.
LevelsAreKept ==
  /\ DependenciesFirst /\ CyclesAreRefused /\ RowsAreComplete /\ DeclineIsRespected
  /\ SourcesRunOnce /\ BoardIsSplit /\ NothingIsSkipped
\* A turn asks for, records, caches, bills and replays what it was, under its lock.
TurnIsKept ==
  /\ ChosenIsAsked /\ RecordedOnce /\ CacheHoldsWork /\ WorkersAreBilled /\ PlanIsReplayed
  /\ LocksAreHeld
\* A halt, a retry and a frozen plan bind the steps that follow them.
StepsAreBound == HaltReachesAll /\ RetriesDoNotGrow /\ PlanStays
\* Every run of every engine, and every call of an agent, ends.
EverythingEnds == EnginesEnd /\ EveryCallEnds
=============================================================================
