----------------------------- MODULE MC_Serving -----------------------------
(* The safety of what serves a session: the dispatcher, the process from
   start to end, and what Serving has beside them. A behaviour runs the one
   component that part names; the others stay as they started. *)
EXTENDS CommandDispatch, Serving, TLC

VARIABLE part
all == <<part, dispatchVars, uVars, sVars, pVars, gVars, bVars, eVars, mVars, wVars>>

\* Values of the constants that a configuration file cannot write.
StartedLimits == [d \in Dim |-> IF d = "tokens" THEN 5 ELSE 3]
WorkersAndTheirTools == [c \in Caller |-> IF c % 2 = 1 THEN "worker" ELSE "structured"]
ToolOfEachWorker == [c \in Caller |-> IF c \in {1, 3} THEN {c + 1} ELSE {}]
TwoServers == <<"s1", "s2">>
Offered == [s \in {"s1", "s2"} |-> {"query", "agloom_save"} \cup (IF s = "s1" THEN {} ELSE {"fetch"})]

\* stdio with every failure, a session that is resumed, a WebSocket.
ThreeSessions ==
  {[transport |-> "stdio", known |-> FALSE, mcp |-> TRUE,
    failures |-> {"llm", "memory", "setup", "create", "mcp"}],
   [transport |-> "stdio", known |-> TRUE, mcp |-> TRUE, failures |-> {"llm", "memory", "create"}],
   [transport |-> "ws", known |-> FALSE, mcp |-> TRUE,
    failures |-> {"llm", "memory", "create", "mcp"}]}
NoWorkers == [t \in {} |-> {}]

Resumed == INSTANCE SessionBudget WITH
    Dim <- {"tokens", "cost"}, Turn <- {"t1", "t2"},
    Started <- [d \in {"tokens", "cost"} |-> IF d = "tokens" THEN 5 ELSE 3],
    Limit <- {0, 3, 8}, Delta <- {0, 4}, MaxUsed <- 9, MaxPatches <- 1, MaxRuns <- 2,
    tracker <- uTracker, limit <- uLimit, used <- uUsed, at80 <- uAt80, at100 <- uAt100,
    running <- uRunning, shown <- uShown, spent <- uSpent, patches <- uPatches,
    runs <- uRuns

ASSUME ServingAssumption /\ Resumed!BudgetAssumption

uParts == {"budget", "resumed"}
\* Tasks and threads of the dispatcher are interchangeable.
Symmetry == Permutations(Task) \cup Permutations(Thread)
AllInit == /\ part \in {"dispatch", "budget", "resumed", "session", "batch", "breaker",
            "background", "calls", "mcp"}
           /\ Init
           /\ IF part = "dispatch" THEN TRUE ELSE (\A t, u \in Task : on[t] = on[u])
           /\ Budget!Init
           /\ Session!Init
           /\ IF part = "session" THEN TRUE ELSE sSession = CHOOSE s \in Sessions : TRUE
           /\ Batch!Init
           /\ Breaker!Init
           /\ Background!Init
           /\ Calls!Init
           /\ Mcp!Init
           /\ Pool!Init
Others ==
  /\ UNCHANGED <<part, wVars>>
  /\ IF part = "dispatch" THEN TRUE ELSE UNCHANGED dispatchVars
  /\ IF part \in uParts THEN TRUE ELSE UNCHANGED uVars
  /\ IF part = "session" THEN TRUE ELSE UNCHANGED sVars
  /\ IF part = "batch" THEN TRUE ELSE UNCHANGED pVars
  /\ IF part = "breaker" THEN TRUE ELSE UNCHANGED gVars
  /\ IF part = "background" THEN TRUE ELSE UNCHANGED bVars
  /\ IF part = "calls" THEN TRUE ELSE UNCHANGED eVars
  /\ IF part = "mcp" THEN TRUE ELSE UNCHANGED mVars
AllNext ==
  /\ \/ part = "dispatch" /\ Next
     \/ part = "budget" /\ Budget!Next
     \/ part = "resumed" /\ Resumed!Next
     \/ part = "session" /\ Session!Next
     \/ part = "batch" /\ Batch!Next
     \/ part = "breaker" /\ Breaker!Next
     \/ part = "background" /\ Background!Next
     \/ part = "calls" /\ Calls!Next
     \/ part = "mcp" /\ Mcp!Next
  /\ Others
AllSpec ==
  /\ AllInit
  /\ [][AllNext]_all

-----------------------------------------------------------------------------
(* Properties.  Others are in CommandDispatch and Serving. *)

\* Types of the dispatcher and of what serves a session beside it.
ServingTypeOK ==
  /\ TypeOK
  /\ Budget!TypeOK /\ Batch!TypeOK /\ Breaker!TypeOK /\ Calls!TypeOK /\ Mcp!TypeOK
  /\ Session!TypeOK
=============================================================================
