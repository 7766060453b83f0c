---------------------------- MODULE Serving_proofs ----------------------------
(***************************************************************************)
(* Proofs about the components of Serving, for every value of the          *)
(* constants: first each of them by itself, then what is stated of several *)
(* together, for any behaviour of all of them at once.                     *)
(***************************************************************************)
EXTENDS Serving, Integers, Sequences, FiniteSets, FiniteSetTheorems, NaturalsInduction,
        WellFoundedInduction, TLAPS

-------------------------------------------------------------------------------
(* The budget of a session. *)

\* Without a tracker there are no limits and no latches.
BudgetInv ==
  /\ Budget!TypeOK
  /\ Budget!LatchesAreHonest
  /\ ~uTracker => \A d \in Dim : uLimit[d] = None /\ ~uAt80[d] /\ ~uAt100[d]

\* Two dimensions, whose names the translator and the client know.
DimAssumption == Dim = {"tokens", "cost"}

LEMMA PositiveType ==
  ASSUME Budget!BudgetAssumption, NEW n \in Nat \cup {None}
  PROVE  Budget!Positive(n) \in Nat \cup {None} /\ Budget!Positive(n) # 0
BY DEF Budget!Positive, Budget!BudgetAssumption

\* What EventOf announces for one dimension.
LEMMA EventMeans ==
  ASSUME Budget!BudgetAssumption, Budget!TypeOK, NEW d \in Dim, NEW n \in Nat
  PROVE  /\ Budget!EventOf(d, n) \in {"nothing", "approaching", "exhausted"}
         /\ Budget!EventOf(d, n) = "exhausted" =>
              uTracker /\ uLimit[d] # None /\ uUsed[d] + n >= uLimit[d]
         /\ Budget!EventOf(d, n) = "approaching" =>
              uTracker /\ uLimit[d] # None /\ 5 * (uUsed[d] + n) >= 4 * uLimit[d]
         /\ uTracker /\ n # 0 /\ uLimit[d] # None /\ uUsed[d] + n >= uLimit[d] /\ ~uAt100[d] =>
              Budget!EventOf(d, n) = "exhausted"
<1>1. CASE ~uTracker \/ n = 0 \/ uLimit[d] = None
  BY <1>1 DEF Budget!EventOf
<1>2. CASE ~(~uTracker \/ n = 0 \/ uLimit[d] = None)
  <2>1. uLimit[d] \in Nat /\ uUsed[d] \in Nat
    BY <1>2 DEF Budget!TypeOK
  <2>2. CASE uUsed[d] + n >= uLimit[d] /\ ~uAt100[d]
    BY <1>2, <2>1, <2>2 DEF Budget!EventOf
  <2>3. CASE ~(uUsed[d] + n >= uLimit[d] /\ ~uAt100[d])
    BY <1>2, <2>1, <2>3 DEF Budget!EventOf
  <2> QED
    BY <2>2, <2>3
<1> QED
  BY <1>1, <1>2

LEMMA InitBudget ==
  ASSUME Budget!BudgetAssumption, Budget!Init
  PROVE  BudgetInv
<1>1. uLimit \in [Dim -> Nat \cup {None}]
  BY PositiveType DEF Budget!Init, Budget!BudgetAssumption
<1> QED
  BY <1>1 DEF Budget!Init, BudgetInv, Budget!TypeOK, Budget!LatchesAreHonest

LEMMA RestartBudget ==
  ASSUME Budget!BudgetAssumption, BudgetInv, Budget!Restart
  PROVE  BudgetInv'
<1>1. uLimit' \in [Dim -> Nat \cup {None}]
  BY PositiveType DEF Budget!Restart, Budget!Fresh, Budget!BudgetAssumption
<1> QED
  BY <1>1 DEF Budget!Restart, Budget!Fresh, BudgetInv, Budget!TypeOK, Budget!LatchesAreHonest

LEMMA RecordBudget ==
  ASSUME Budget!BudgetAssumption, DimAssumption, BudgetInv,
         NEW t \in Turn, NEW n \in [Dim -> Delta], Budget!Record(t, n)
  PROVE  BudgetInv'
<1> DEFINE e == [d \in Dim |-> Budget!EventOf(d, n[d])]
<1>1. \A d \in Dim : n[d] \in Nat
  BY DEF Budget!BudgetAssumption
<1>2. \A d \in Dim :
        /\ e[d] \in {"nothing", "approaching", "exhausted"}
        /\ e[d] = "exhausted" => uTracker /\ uLimit[d] # None /\ uUsed[d] + n[d] >= uLimit[d]
        /\ e[d] = "approaching" =>
             uTracker /\ uLimit[d] # None /\ 5 * (uUsed[d] + n[d]) >= 4 * uLimit[d]
  BY <1>1, EventMeans DEF BudgetInv
<1>3. /\ uUsed' = IF uTracker THEN [d \in Dim |-> uUsed[d] + n[d]] ELSE uUsed
      /\ uSpent' = [d \in Dim |-> uSpent[d] + n[d]]
      /\ uAt100' = [d \in Dim |-> uAt100[d] \/ e[d] = "exhausted"]
      /\ uAt80' = [d \in Dim |-> uAt80[d] \/ e[d] = "approaching"]
      /\ uShown' = Budget!LastShown(e)
      /\ UNCHANGED <<uTracker, uLimit, uRunning>>
  BY DEF Budget!Record
<1> HIDE DEF e
<1>4. uShown' \in {"ok", "approaching", "exhausted"}
  BY <1>2, <1>3 DEF Budget!LastShown, BudgetInv, Budget!TypeOK, DimAssumption
<1>5. uUsed' \in [Dim -> Nat] /\ uSpent' \in [Dim -> Nat]
  BY <1>1, <1>3 DEF BudgetInv, Budget!TypeOK
<1>6. Budget!TypeOK'
  BY <1>3, <1>4, <1>5 DEF BudgetInv, Budget!TypeOK
<1>7. Budget!LatchesAreHonest'
  <2> SUFFICES ASSUME NEW d \in Dim, uLimit'[d] # None
               PROVE  /\ uAt100'[d] => uUsed'[d] >= uLimit'[d]
                      /\ uAt80'[d] => 5 * uUsed'[d] >= 4 * uLimit'[d]
    BY DEF Budget!LatchesAreHonest
  <2>1. uLimit[d] \in Nat /\ uUsed[d] \in Nat /\ n[d] \in Nat /\ uLimit'[d] = uLimit[d]
    BY <1>1, <1>3 DEF BudgetInv, Budget!TypeOK
  <2>2. CASE uTracker
    <3>1. uUsed'[d] = uUsed[d] + n[d]
      BY <1>3, <2>2
    <3>2. /\ uAt100[d] => uUsed[d] >= uLimit[d]
          /\ uAt80[d] => 5 * uUsed[d] >= 4 * uLimit[d]
      BY <1>3, <2>1 DEF BudgetInv, Budget!LatchesAreHonest
    <3>3. /\ uAt100'[d] => uAt100[d] \/ e[d] = "exhausted"
          /\ uAt80'[d] => uAt80[d] \/ e[d] = "approaching"
      BY <1>3
    <3>4. /\ e[d] = "exhausted" => uUsed[d] + n[d] >= uLimit[d]
          /\ e[d] = "approaching" => 5 * (uUsed[d] + n[d]) >= 4 * uLimit[d]
      BY <1>2
    <3>5. /\ uUsed[d] >= uLimit[d] => uUsed[d] + n[d] >= uLimit[d]
          /\ 5 * uUsed[d] >= 4 * uLimit[d] => 5 * (uUsed[d] + n[d]) >= 4 * uLimit[d]
      BY <2>1
    <3> QED
      BY <2>1, <3>1, <3>2, <3>3, <3>4, <3>5
  <2>3. CASE ~uTracker
    BY <1>3, <2>3 DEF BudgetInv
  <2> QED
    BY <2>2, <2>3
<1>8. ~uTracker' => \A d \in Dim : uLimit'[d] = None /\ ~uAt80'[d] /\ ~uAt100'[d]
  BY <1>2, <1>3 DEF BudgetInv, Budget!TypeOK
<1> QED
  BY <1>6, <1>7, <1>8 DEF BudgetInv

LEMMA PatchBudget ==
  ASSUME Budget!BudgetAssumption, BudgetInv, NEW ds \in SUBSET Dim, NEW n \in Limit, Budget!PatchLimits(ds, n)
  PROVE  BudgetInv'
<1>1. Budget!Positive(n) \in Nat \cup {None}
  BY PositiveType DEF Budget!BudgetAssumption
<1>2. CASE uTracker
  BY <1>1, <1>2 DEF Budget!PatchLimits, BudgetInv, Budget!TypeOK, Budget!LatchesAreHonest
<1>3. CASE ~uTracker
  BY <1>3 DEF Budget!PatchLimits, BudgetInv, Budget!TypeOK, Budget!LatchesAreHonest
<1> QED
  BY <1>2, <1>3

LEMMA NextBudget == Budget!BudgetAssumption /\ DimAssumption /\ BudgetInv /\ [Budget!Next]_Budget!vars => BudgetInv'
<1> SUFFICES ASSUME Budget!BudgetAssumption, DimAssumption, BudgetInv, [Budget!Next]_Budget!vars
             PROVE  BudgetInv'
  OBVIOUS
<1>1. CASE UNCHANGED Budget!vars
  BY <1>1 DEF Budget!vars, BudgetInv, Budget!TypeOK, Budget!LatchesAreHonest
<1>2. ASSUME NEW t \in Turn, Budget!Invoke(t) \/ Budget!Finish(t)
      PROVE  BudgetInv'
  BY <1>2 DEF Budget!Invoke, Budget!Finish, BudgetInv, Budget!TypeOK, Budget!LatchesAreHonest
<1>3. ASSUME NEW t \in Turn, NEW n \in [Dim -> Delta], Budget!Record(t, n)
      PROVE  BudgetInv'
  BY <1>3, RecordBudget
<1>4. ASSUME NEW ds \in SUBSET Dim \ {{}}, NEW n \in Limit, Budget!PatchLimits(ds, n)
      PROVE  BudgetInv'
  BY <1>4, PatchBudget
<1>5. CASE Budget!Restart
  BY <1>5, RestartBudget
<1> QED
  BY <1>1, <1>2, <1>3, <1>4, <1>5 DEF Budget!Next

\* Types and latches in every state, over restarts and changes of the limits.
THEOREM BudgetInvariant ==
  ASSUME Budget!BudgetAssumption, DimAssumption
  PROVE  Budget!Spec => []BudgetInv
<1>1. Budget!Init => BudgetInv
  BY InitBudget
<1>2. BudgetInv /\ [Budget!Next]_Budget!vars => BudgetInv'
  BY NextBudget
<1> QED
  BY <1>1, <1>2, PTL DEF Budget!Spec

\* A latch that stays set stands for a limit that is still reached, whatever
\* limits are set, raised or cleared while invocations run (patch_limits).
THEOREM HonestLatches ==
  ASSUME Budget!BudgetAssumption, DimAssumption
  PROVE  Budget!Spec => []Budget!LatchesAreHonest
<1>1. BudgetInv => Budget!LatchesAreHonest
  BY DEF BudgetInv
<1> QED
  BY <1>1, BudgetInvariant, PTL

-------------------------------------------------------------------------------
\* The counters of a process, and of a session that was not resumed.
CountInv ==
  /\ uPatches \in Nat /\ uRuns \in Nat /\ uRuns >= 1
  /\ Budget!NothingEscapes
  /\ \A d \in Dim : uLimit[d] # 0
  /\ Budget!RefusalIsTold

LEMMA InitCount ==
  ASSUME Budget!BudgetAssumption, Budget!Init
  PROVE  CountInv
<1>1. \A d \in Dim : uLimit[d] \in Nat \cup {None} /\ uLimit[d] # 0
  BY PositiveType DEF Budget!Init, Budget!BudgetAssumption
<1>2. \A d \in Dim : uUsed[d] = 0
  BY DEF Budget!Init
<1>3. \A d \in Dim : ~Budget!Reached(uLimit[d], uUsed[d])
  <2> SUFFICES ASSUME NEW d \in Dim, uLimit[d] # None
               PROVE  ~(uUsed[d] >= uLimit[d])
    BY DEF Budget!Reached
  <2>1. uLimit[d] \in Nat /\ uLimit[d] # 0 /\ uUsed[d] = 0
    BY <1>1, <1>2
  <2> QED
    BY <2>1
<1>4. uPatches = 0 /\ uRuns = 1 /\ uUsed = uSpent
  BY DEF Budget!Init
<1> QED
  BY <1>1, <1>3, <1>4 DEF CountInv, Budget!NothingEscapes, Budget!RefusalIsTold

LEMMA RecordCount ==
  ASSUME Budget!BudgetAssumption, BudgetInv, CountInv,
         NEW t \in Turn, NEW n \in [Dim -> Delta], Budget!Record(t, n)
  PROVE  CountInv'
<1>1. \A d \in Dim : n[d] \in Nat
  BY DEF Budget!BudgetAssumption
<1>2. Budget!NothingEscapes'
  BY DEF Budget!Record, CountInv, Budget!NothingEscapes
<1>3. Budget!RefusalIsTold'
  <2> SUFFICES ASSUME uPatches' = 0, NEW d \in Dim, uTracker', Budget!Reached(uLimit'[d], uUsed'[d])
               PROVE  uAt100'[d]
    BY DEF Budget!RefusalIsTold
  <2>1. /\ uPatches = 0 /\ uTracker /\ uLimit'[d] = uLimit[d] /\ uUsed'[d] = uUsed[d] + n[d]
        /\ uAt100'[d] = (uAt100[d] \/ Budget!EventOf(d, n[d]) = "exhausted")
    BY DEF Budget!Record
  <2>2. uLimit[d] \in Nat /\ uUsed[d] \in Nat /\ n[d] \in Nat /\ uLimit[d] # None
    BY <1>1, <2>1 DEF Budget!Reached, BudgetInv, Budget!TypeOK
  <2>3. uUsed[d] + n[d] >= uLimit[d]
    BY <2>1 DEF Budget!Reached
  <2>4. CASE n[d] = 0
    <3>1. Budget!Reached(uLimit[d], uUsed[d])
      BY <2>2, <2>3, <2>4 DEF Budget!Reached
    <3> QED
      BY <2>1, <3>1 DEF CountInv, Budget!RefusalIsTold
  <2>5. CASE n[d] # 0 /\ ~uAt100[d]
    <3>1. Budget!EventOf(d, n[d]) = "exhausted"
      BY <2>1, <2>2, <2>3, <2>5, EventMeans DEF BudgetInv
    <3> QED
      BY <2>1, <3>1
  <2> QED
    BY <2>1, <2>4, <2>5
<1> QED
  BY <1>2, <1>3 DEF Budget!Record, CountInv

LEMMA NextCount == Budget!BudgetAssumption /\ BudgetInv /\ CountInv /\ [Budget!Next]_Budget!vars => CountInv'
<1> SUFFICES ASSUME Budget!BudgetAssumption, BudgetInv, CountInv, [Budget!Next]_Budget!vars
             PROVE  CountInv'
  OBVIOUS
<1>1. CASE UNCHANGED Budget!vars
  BY <1>1 DEF Budget!vars, CountInv, Budget!NothingEscapes, Budget!RefusalIsTold, Budget!Reached
<1>2. ASSUME NEW t \in Turn, Budget!Invoke(t) \/ Budget!Finish(t)
      PROVE  CountInv'
  BY <1>2 DEF Budget!Invoke, Budget!Finish, CountInv, Budget!NothingEscapes, Budget!RefusalIsTold, Budget!Reached
<1>3. ASSUME NEW t \in Turn, NEW n \in [Dim -> Delta], Budget!Record(t, n)
      PROVE  CountInv'
  BY <1>3, RecordCount
<1>4. ASSUME NEW ds \in SUBSET Dim \ {{}}, NEW n \in Limit, Budget!PatchLimits(ds, n)
      PROVE  CountInv'
  <2>1. Budget!Positive(n) # 0
    BY PositiveType DEF Budget!BudgetAssumption
  <2>2. \A d \in Dim : uLimit'[d] # 0
    BY <1>4, <2>1 DEF Budget!PatchLimits, CountInv, BudgetInv, Budget!TypeOK
  <2>3. uPatches' \in Nat /\ uPatches' # 0
    BY <1>4 DEF Budget!PatchLimits, CountInv
  <2> QED
    BY <1>4, <2>2, <2>3 DEF Budget!PatchLimits, CountInv, Budget!NothingEscapes, Budget!RefusalIsTold
<1>5. CASE Budget!Restart
  <2>1. \A d \in Dim : uLimit'[d] \in Nat \cup {None} /\ uLimit'[d] # 0
    BY <1>5, PositiveType DEF Budget!Restart, Budget!Fresh, Budget!BudgetAssumption
  <2>2. \A d \in Dim : ~Budget!Reached(uLimit'[d], uUsed'[d])
    BY <1>5, <2>1 DEF Budget!Restart, Budget!Fresh, Budget!Reached
  <2>3. uRuns' \in Nat /\ uRuns' >= 1 /\ uRuns' # 1
    BY <1>5 DEF Budget!Restart, CountInv
  <2> QED
    BY <1>5, <2>1, <2>2, <2>3 DEF Budget!Restart, Budget!Fresh, CountInv, Budget!NothingEscapes, Budget!RefusalIsTold
<1> QED
  BY <1>1, <1>2, <1>3, <1>4, <1>5 DEF Budget!Next

LEMMA CountInvariant ==
  ASSUME Budget!BudgetAssumption, DimAssumption
  PROVE  Budget!Spec => []CountInv
<1>1. Budget!Init => CountInv
  BY InitCount
<1>2. BudgetInv /\ CountInv /\ [Budget!Next]_Budget!vars => CountInv'
  BY NextCount
<1> QED
  BY <1>1, <1>2, BudgetInvariant, PTL DEF Budget!Spec

\* A session whose limits nobody changed never refuses an invocation without
\* having said which dimension is exhausted (record_tokens_delta, is_exhausted).
THEOREM ToldBeforeRefused ==
  ASSUME Budget!BudgetAssumption, DimAssumption
  PROVE  Budget!Spec => []Budget!RefusalIsTold
<1>1. CountInv => Budget!RefusalIsTold
  BY DEF CountInv
<1> QED
  BY <1>1, CountInvariant, PTL

\* The tracker of the first process counts each use once, whichever of the
\* invocations that run at once caused it.
THEOREM AllUseIsCounted ==
  ASSUME Budget!BudgetAssumption, DimAssumption
  PROVE  Budget!Spec => []Budget!NothingEscapes
<1>1. CountInv => Budget!NothingEscapes
  BY DEF CountInv
<1> QED
  BY <1>1, CountInvariant, PTL

-------------------------------------------------------------------------------
(* The circuit breaker: every set of callers, any nesting, any threshold. *)

\* A breaker that is not closed has counted up to the threshold.
BreakerInv ==
  /\ gState \in {"closed", "open", "half"} /\ gFailures \in 0..Threshold
  /\ Breaker!ClosedIsHealthy

\* What a step does to the breaker: a probe comes in, a call passes or fails.
BreakerStep ==
  \/ UNCHANGED <<gState, gFailures>>
  \/ gState = "open" /\ gState' = "half" /\ UNCHANGED gFailures
  \/ Breaker!Passed
  \/ Breaker!Failed

LEMMA BreakerSteps == [Breaker!Next]_Breaker!vars => BreakerStep
<1> SUFFICES ASSUME [Breaker!Next]_Breaker!vars PROVE BreakerStep
  OBVIOUS
<1>1. CASE UNCHANGED Breaker!vars
  BY <1>1 DEF Breaker!vars, Breaker!breaker, BreakerStep
<1>2. CASE Breaker!Cool
  BY <1>2 DEF Breaker!Cool, BreakerStep
<1>3. ASSUME NEW c \in Caller, Breaker!Enter(c)
      PROVE  BreakerStep
  BY <1>3 DEF Breaker!Enter, Breaker!Admitted, Breaker!breaker, BreakerStep
<1>4. ASSUME NEW c \in Caller, Breaker!Succeed(c) \/ Breaker!Fail(c)
      PROVE  BreakerStep
  BY <1>4 DEF Breaker!Succeed, Breaker!Fail, BreakerStep
<1>5. ASSUME NEW c \in Caller, Breaker!Start(c) \/ Breaker!Rejected(c) \/ Breaker!BusyAgain(c) \/ Breaker!Acquire(c) \/ Breaker!End(c)
                                \/ Breaker!Cancel(c) \/ Breaker!Again(c)
      PROVE  BreakerStep
  BY <1>5 DEF Breaker!Start, Breaker!Rejected, Breaker!BusyAgain, Breaker!Acquire, Breaker!End, Breaker!Cancel, Breaker!Again, Breaker!breaker, BreakerStep
<1> QED
  BY <1>1, <1>2, <1>3, <1>4, <1>5 DEF Breaker!Next, Breaker!Attempt

\* Whatever order calls enter, succeed, fail and are cancelled in: the breaker is
\* closed exactly while it has seen fewer failures in a row than the threshold, so
\* that a failing probe opens it again and no late result leaves it half open
\* (CircuitBreaker.__aexit__).
THEOREM BreakerIsHonest ==
  ASSUME Breaker!GateAssumption
  PROVE  Breaker!Spec => []Breaker!ClosedIsHealthy
<1>1. Threshold \in Nat \ {0}
  BY DEF Breaker!GateAssumption
<1>2. Breaker!Init => BreakerInv
  BY <1>1 DEF Breaker!Init, BreakerInv, Breaker!ClosedIsHealthy
<1>3. BreakerInv /\ [Breaker!Next]_Breaker!vars => BreakerInv'
  <2> SUFFICES ASSUME BreakerInv, BreakerStep
               PROVE  BreakerInv'
    BY BreakerSteps
  <2>1. CASE UNCHANGED <<gState, gFailures>>
    BY <2>1 DEF BreakerInv, Breaker!ClosedIsHealthy
  <2>2. CASE gState = "open" /\ gState' = "half" /\ UNCHANGED gFailures
    BY <2>2 DEF BreakerInv, Breaker!ClosedIsHealthy
  <2>3. CASE Breaker!Passed
    BY <1>1, <2>3 DEF BreakerInv, Breaker!ClosedIsHealthy, Breaker!Passed
  <2>4. CASE Breaker!Failed
    BY <1>1, <2>4 DEF BreakerInv, Breaker!ClosedIsHealthy, Breaker!Failed
  <2> QED
    BY <2>1, <2>2, <2>3, <2>4 DEF BreakerStep
<1>4. BreakerInv => Breaker!ClosedIsHealthy
  BY DEF BreakerInv
<1> QED
  BY <1>2, <1>3, <1>4, PTL DEF Breaker!Spec

-------------------------------------------------------------------------------
(* The MCP connection: every set of callers and servers. *)

(***************************************************************************)
(* Proofs, for every set of callers and servers.                           *)
(***************************************************************************)
(* A client that is there was asked for; nobody dials while it is there.   *)
ConnInv ==
    /\ mCfg = [client |-> mCfg.client, attempted |-> mCfg.attempted, tools |-> mCfg.tools,
              rows |-> mCfg.rows, appendix |-> mCfg.appendix]
    /\ mCfg.client # None => mCfg.attempted
    /\ mMade \in Nat
    /\ mDial # None => /\ mDial = [by |-> mDial.by, client |-> mDial.client, second |-> mDial.second]
                      /\ mDial.client \in Nat /\ mCfg.client = None

LEMMA ForgetKeeps ==
    ASSUME ConnInv, mCfg' = Mcp!Forget(mCfg)
    PROVE  /\ mCfg' = [client |-> mCfg.client, attempted |-> mCfg'.attempted, tools |-> mCfg.tools,
                      rows |-> mCfg.rows, appendix |-> mCfg.appendix]
           /\ mCfg.client # None => mCfg'.attempted
BY DEF ConnInv, Mcp!Forget

LEMMA NextConn == ConnInv /\ [Mcp!Next]_Mcp!vars => ConnInv'
<1> SUFFICES ASSUME ConnInv, [Mcp!Next]_Mcp!vars
             PROVE  ConnInv'
    OBVIOUS
<1>1. CASE UNCHANGED Mcp!vars
    BY <1>1 DEF ConnInv, Mcp!vars
<1>2. ASSUME NEW c \in McpCallers, Mcp!Enter(c)
      PROVE  ConnInv'
    BY <1>2, ForgetKeeps DEF Mcp!Enter, ConnInv
<1>3. ASSUME NEW c \in McpCallers, Mcp!TakeLock(c)
      PROVE  ConnInv'
    <2>1. CASE Mcp!Connected
        BY <1>3, <2>1, ForgetKeeps DEF Mcp!TakeLock, ConnInv
    <2>2. CASE ~Mcp!Connected
        <3>1. mCfg.client = None
            BY <2>2 DEF Mcp!Connected, ConnInv
        <3>2. /\ mMade' = mMade + 1
              /\ mDial' = [by |-> c, client |-> mMade', second |-> FALSE]
            BY <1>3, <2>2 DEF Mcp!TakeLock
        <3> QED
            BY <1>3, <3>1, <3>2, ForgetKeeps DEF Mcp!TakeLock, ConnInv
    <2> QED
        BY <2>1, <2>2
<1>4. ASSUME NEW c \in McpCallers, Mcp!Leave(c)
      PROVE  ConnInv'
    BY <1>4 DEF Mcp!Leave, ConnInv
<1>5. ASSUME NEW up \in SUBSET Mcp!All, NEW listed \in SUBSET Mcp!All, Mcp!Populate(up, listed)
      PROVE  ConnInv'
    <2>1. CASE ~mDial.second /\ Sse \ up # {}
        <3>1. /\ mDial # None /\ mMade' = mMade + 1 /\ mCfg' = mCfg
              /\ mDial' = [mDial EXCEPT !.client = mMade', !.second = TRUE]
            BY <1>5, <2>1 DEF Mcp!Populate
        <3>2. mDial' = [by |-> mDial.by, client |-> mMade', second |-> TRUE]
            BY <3>1 DEF ConnInv
        <3>3. mMade' \in Nat
            BY <3>1 DEF ConnInv
        <3>4. /\ mDial' = [by |-> mDial'.by, client |-> mDial'.client, second |-> mDial'.second]
              /\ mDial'.client \in Nat
            BY <3>2, <3>3
        <3> QED
            BY <3>1, <3>3, <3>4 DEF ConnInv
    <2>2. CASE ~(~mDial.second /\ Sse \ up # {})
        <3>1. mDial' = None /\ mMade' = mMade /\ (mCfg' = mCfg \/ mCfg' = Mcp!Install(listed))
            BY <1>5, <2>2 DEF Mcp!Populate
        <3> QED
            BY <3>1 DEF ConnInv, Mcp!Install
    <2> QED
        BY <2>1, <2>2
<1>6. CASE Mcp!Aclose
    BY <1>6 DEF Mcp!Aclose, Mcp!LetGo, ConnInv
<1>7. CASE UNCHANGED <<mCfg, mMade, mDial>>
    BY <1>7 DEF ConnInv
<1> QED
    BY <1>1, <1>2, <1>3, <1>4, <1>5, <1>6, <1>7
       DEF Mcp!Next, Mcp!StartCall, Mcp!ToolReturns, Mcp!ToolFails, Mcp!EndCall

LEMMA ConnAlways == Mcp!Spec => []ConnInv
<1>1. Mcp!Init => ConnInv
    BY DEF Mcp!Init, ConnInv
<1> QED
    BY <1>1, NextConn, PTL DEF Mcp!Spec

(* However many callers ask and whenever aclose comes: nobody connects     *)
(* while the agent has a client (the second look under _mcp_lock).         *)
THEOREM NobodyDialsTwice == Mcp!Spec => []Mcp!OneConnection
<1>1. ConnInv => Mcp!OneConnection
    BY DEF ConnInv, Mcp!OneConnection
<1> QED
    BY <1>1, ConnAlways, PTL

(* Which steps change the agent's tools or rows: the one that installs     *)
(* what every server answered.                                             *)
LEMMA ToolSteps ==
    ASSUME ConnInv, [Mcp!Next]_Mcp!vars
    PROVE  \/ mCfg'.tools = mCfg.tools /\ mCfg'.rows = mCfg.rows
           \/ mDial # None /\ \E listed \in SUBSET Mcp!All : mCfg' = Mcp!Install(listed)
<1>1. CASE UNCHANGED mCfg
    BY <1>1
<1>2. CASE mCfg' = Mcp!Forget(mCfg)
    BY <1>2, ForgetKeeps
<1>3. CASE Mcp!Aclose
    BY <1>3 DEF Mcp!Aclose, Mcp!LetGo, ConnInv
<1>4. ASSUME NEW up \in SUBSET Mcp!All, NEW listed \in SUBSET Mcp!All, Mcp!Populate(up, listed)
      PROVE  UNCHANGED mCfg \/ (mDial # None /\ mCfg' = Mcp!Install(listed))
    BY <1>4 DEF Mcp!Populate
<1> QED
    BY <1>1, <1>2, <1>3, <1>4
       DEF Mcp!Next, Mcp!vars, Mcp!Enter, Mcp!TakeLock, Mcp!Leave, Mcp!StartCall, Mcp!ToolReturns, Mcp!ToolFails, Mcp!EndCall

(* A connect that fails, is cancelled or races aclose adds no tool, and no *)
(* step takes one away (connect_mcp_servers returns all or raises).        *)
THEOREM AllToolsOrNone ==
    ASSUME Mcp!McpAssumption
    PROVE  Mcp!Spec => Mcp!AllOrNothing
<1>1. ASSUME ConnInv, [Mcp!Next]_Mcp!vars, mCfg'.tools # mCfg.tools \/ mCfg'.rows # mCfg.rows
      PROVE  mCfg'.client # None /\ mCfg.client = None /\ mCfg.tools \subseteq mCfg'.tools
    <2>1. PICK listed \in SUBSET Mcp!All : mDial # None /\ mCfg' = Mcp!Install(listed)
        BY <1>1, ToolSteps
    <2> QED
        BY <1>1, <2>1 DEF Mcp!Install, ConnInv, Mcp!McpAssumption
<1> QED
    BY <1>1, ConnAlways, PTL DEF Mcp!Spec, Mcp!AllOrNothing

(* The least of a set of numbers: what stands for induction here. *)
LEMMA LeastOf ==
    ASSUME NEW S, S \subseteq Nat, S # {}
    PROVE  \E k \in S : \A m \in S : k <= m
<1>1. IsWellFoundedOn(OpToRel(<, Nat), Nat)
    BY NatLessThanWellFounded
<1>2. PICK n \in S : \A k \in S : <<k, n>> \notin OpToRel(<, Nat)
    BY <1>1, WFMin
<1>3. \A k \in S : ~(k < n)
    BY <1>2 DEF OpToRel
<1> QED
    BY <1>3

(* The first n servers are wired, as _wire_mcp_tool goes through them. *)
Round(w, n, listed, client) ==
    w = [i \in 0..n |-> IF i = 0 THEN {}
                        ELSE w[i - 1] \cup Mcp!Wire(Servers[i], Mcp!Names(mCfg.tools) \cup Mcp!Names(w[i - 1]), listed, client)]

LEMMA RoundExtends ==
    ASSUME NEW n \in Nat, NEW listed, NEW client, NEW w, Round(w, n, listed, client)
    PROVE  \E v : Round(v, n + 1, listed, client)
<1> DEFINE e(ts, i) == ts \cup Mcp!Wire(Servers[i], Mcp!Names(mCfg.tools) \cup Mcp!Names(ts), listed, client)
<1> DEFINE v == [i \in 0..(n + 1) |-> IF i = n + 1 THEN e(w[n], n + 1) ELSE w[i]]
<1>1. w = [i \in 0..n |-> IF i = 0 THEN {} ELSE e(w[i - 1], i)]
    BY DEF Round
<1> HIDE DEF e
<1>2. \A i \in 0..n : w[i] = IF i = 0 THEN {} ELSE e(w[i - 1], i)
    BY <1>1
<1>3. \A i \in 0..n : v[i] = w[i]
    OBVIOUS
<1>4. v[n + 1] = e(w[n], n + 1)
    OBVIOUS
<1>5. v = [i \in 0..(n + 1) |-> v[i]]
    OBVIOUS
<1> HIDE DEF v
<1>6. \A i \in 0..(n + 1) : v[i] = IF i = 0 THEN {} ELSE e(v[i - 1], i)
    <2> TAKE i \in 0..(n + 1)
    <2>1. CASE i = n + 1
        <3>1. v[n] = w[n]
            BY <1>3
        <3> QED
            BY <1>4, <2>1, <3>1
    <2>2. CASE i = 0
        BY <1>2, <1>3, <2>2
    <2>3. CASE i # n + 1 /\ i # 0
        <3>1. i \in 0..n /\ i - 1 \in 0..n
            BY <2>3
        <3>2. v[i] = w[i] /\ v[i - 1] = w[i - 1]
            BY <1>3, <3>1
        <3> QED
            BY <1>2, <2>3, <3>1, <3>2
    <2> QED
        BY <2>1, <2>2, <2>3
<1>7. v = [i \in 0..(n + 1) |-> IF i = 0 THEN {} ELSE e(v[i - 1], i)]
    BY <1>5, <1>6
<1> QED
    BY <1>7 DEF Round, e

LEMMA RoundExists ==
    ASSUME NEW n \in Nat, NEW listed, NEW client
    PROVE  \E w : Round(w, n, listed, client)
<1> DEFINE S == {k \in Nat : ~\E w : Round(w, k, listed, client)}
<1> SUFFICES ASSUME S # {} PROVE FALSE
    OBVIOUS
<1>1. PICK k \in S : \A m \in S : k <= m
    <2>1. S \subseteq Nat
        OBVIOUS
    <2> HIDE DEF S
    <2> QED
        BY <2>1, LeastOf
<1>2. k # 0
    <2> DEFINE w == [i \in 0..0 |-> {}]
    <2>1. w = [i \in 0..0 |-> w[i]] /\ \A i \in 0..0 : i = 0 /\ w[i] = {}
        OBVIOUS
    <2> HIDE DEF w
    <2>2. Round(w, 0, listed, client)
        BY <2>1 DEF Round
    <2> QED
        BY <2>2
<1>3. k - 1 \in Nat /\ k - 1 \notin S
    BY <1>1, <1>2
<1>4. PICK w : Round(w, k - 1, listed, client)
    BY <1>3
<1>5. \E v : Round(v, (k - 1) + 1, listed, client)
    BY <1>3, <1>4, RoundExtends
<1>6. (k - 1) + 1 = k
    BY <1>1
<1> QED
    BY <1>1, <1>5, <1>6

LEMMA WiredIs ==
    ASSUME Len(Servers) \in Nat, NEW listed, NEW client
    PROVE  \E w : Round(w, Len(Servers), listed, client) /\ Mcp!Wired(listed, client) = w[Len(Servers)]
<1> DEFINE w == CHOOSE f : Round(f, Len(Servers), listed, client)
<1>1. Round(w, Len(Servers), listed, client)
    BY RoundExists
<1>2. Mcp!Wired(listed, client) = w[Len(Servers)]
    BY DEF Mcp!Wired, Round
<1> QED
    BY <1>1, <1>2

(* No two tools of a set have one name, and no server's has a reserved one. *)
Unique(ts) ==
    /\ \A t, u \in ts : t.name = u.name => t = u
    /\ \A t \in ts : t.kind = "tool" => \A m \in Reserved : t.name # <<m>>

LEMMA WireIsUnique ==
    ASSUME "read_resource" \notin Reserved, NEW s, NEW existing, NEW listed, NEW client
    PROVE  /\ Unique(Mcp!Wire(s, existing, listed, client))
           /\ \A t \in Mcp!Wire(s, existing, listed, client) : t.name \notin existing
<1> DEFINE T == {Mcp!McpTool(Mcp!WireName(s, m), s, "tool", client) :
                   m \in {x \in Offers[s] : <<x>> \notin existing /\ Mcp!WireName(s, x) \notin existing}}
           R == {Mcp!McpTool(<<"read_resource", s>>, s, "resource", client) :
                   x \in {y \in {s} \cap listed : <<"read_resource", s>> \notin existing}}
<1>1. Mcp!Wire(s, existing, listed, client) = T \cup R
    BY DEF Mcp!Wire
<1>2. \A t \in T : \E m : /\ t = Mcp!McpTool(Mcp!WireName(s, m), s, "tool", client)
                          /\ Mcp!WireName(s, m) \notin existing
    OBVIOUS
<1>3. \A t \in R : t = Mcp!McpTool(<<"read_resource", s>>, s, "resource", client)
                   /\ <<"read_resource", s>> \notin existing
    OBVIOUS
<1> HIDE DEF T, R
<1>4. \A m, k : Mcp!WireName(s, m) = Mcp!WireName(s, k) => m = k
    BY DEF Mcp!WireName
<1>5. \A m : Mcp!WireName(s, m) # <<"read_resource", s>> /\ \A r \in Reserved : Mcp!WireName(s, m) # <<r>>
    BY DEF Mcp!WireName
<1>6. \A name, kind : /\ Mcp!McpTool(name, s, kind, client).name = name
                      /\ Mcp!McpTool(name, s, kind, client).kind = kind
    BY DEF Mcp!McpTool
<1>7. \A t \in T : t.kind = "tool" /\ t.name \notin existing /\ t.name # <<"read_resource", s>>
                   /\ \A r \in Reserved : t.name # <<r>>
    <2> TAKE t \in T
    <2>1. PICK m : t = Mcp!McpTool(Mcp!WireName(s, m), s, "tool", client) /\ Mcp!WireName(s, m) \notin existing
        BY <1>2
    <2>2. t.name = Mcp!WireName(s, m) /\ t.kind = "tool"
        BY <1>6, <2>1
    <2> QED
        BY <1>5, <2>1, <2>2
<1>8. \A t \in R : t.kind = "resource" /\ t.name \notin existing /\ t.name = <<"read_resource", s>>
    BY <1>3, <1>6
<1>9. \A t, u \in T : t.name = u.name => t = u
    BY <1>2, <1>4, <1>6
<1>10. \A t, u \in R : t = u
    BY <1>3
<1>11. \A t, u \in T \cup R : t.name = u.name => t = u
    BY <1>7, <1>8, <1>9, <1>10
<1>12. \A t \in T \cup R : t.kind = "tool" => \A m \in Reserved : t.name # <<m>>
    BY <1>7, <1>8
<1> QED
    BY <1>1, <1>7, <1>8, <1>11, <1>12 DEF Unique

LEMMA UniqueJoin ==
    ASSUME NEW a, NEW b, Unique(a), Unique(b), \A t \in b : t.name \notin Mcp!Names(a)
    PROVE  Unique(a \cup b)
<1>1. \A t \in b, u \in a : t.name # u.name
    BY DEF Mcp!Names
<1> QED
    BY <1>1 DEF Unique

LEMMA NamesJoin ==
    ASSUME NEW a, NEW b
    PROVE  Mcp!Names(a \cup b) = Mcp!Names(a) \cup Mcp!Names(b)
BY DEF Mcp!Names

(* Wiring the servers one after the other keeps the names apart. *)
LEMMA WiredIsUnique ==
    ASSUME Mcp!McpAssumption, Unique(mCfg.tools), NEW listed, NEW client
    PROVE  Unique(mCfg.tools \cup Mcp!Wired(listed, client))
<1> DEFINE L == Len(Servers)
<1>1. L \in Nat
    BY DEF Mcp!McpAssumption
<1>2. PICK w : Round(w, L, listed, client) /\ Mcp!Wired(listed, client) = w[L]
    BY <1>1, WiredIs
<1> HIDE DEF L
<1>3. \A i \in 0..L : w[i] = IF i = 0 THEN {} ELSE w[i - 1] \cup
            Mcp!Wire(Servers[i], Mcp!Names(mCfg.tools) \cup Mcp!Names(w[i - 1]), listed, client)
    BY <1>2 DEF Round
<1> SUFFICES ASSUME ~Unique(mCfg.tools \cup w[L]) PROVE FALSE
    BY <1>2
<1> DEFINE S == {k \in 0..L : ~Unique(mCfg.tools \cup w[k])}
<1>4. S \subseteq Nat /\ L \in S
    BY <1>1
<1>5. PICK k \in S : \A m \in S : k <= m
    <2> HIDE DEF S
    <2> QED
        BY <1>4, LeastOf
<1>6. k \in 0..L /\ ~Unique(mCfg.tools \cup w[k])
    BY <1>5
<1>7. k # 0
    <2>1. 0 \in 0..L
        BY <1>1
    <2>2. w[0] = {}
        BY <1>3, <2>1
    <2>3. mCfg.tools \cup w[0] = mCfg.tools
        BY <2>2
    <2> QED
        BY <1>6, <2>3
<1>8. k - 1 \in 0..L /\ k - 1 \notin S
    BY <1>1, <1>5, <1>6, <1>7
<1>9. Unique(mCfg.tools \cup w[k - 1])
    BY <1>8
<1> DEFINE W == Mcp!Wire(Servers[k], Mcp!Names(mCfg.tools) \cup Mcp!Names(w[k - 1]), listed, client)
<1>10. w[k] = w[k - 1] \cup W
    BY <1>3, <1>6, <1>7
<1>11. Unique(W) /\ \A t \in W : t.name \notin Mcp!Names(mCfg.tools) \cup Mcp!Names(w[k - 1])
    BY WireIsUnique DEF Mcp!McpAssumption
<1> HIDE DEF W
<1>12. \A t \in W : t.name \notin Mcp!Names(mCfg.tools \cup w[k - 1])
    BY <1>11, NamesJoin
<1>13. Unique((mCfg.tools \cup w[k - 1]) \cup W)
    BY <1>9, <1>11, <1>12, UniqueJoin
<1>14. (mCfg.tools \cup w[k - 1]) \cup W = mCfg.tools \cup w[k]
    BY <1>10
<1> QED
    BY <1>6, <1>13, <1>14

(* However the servers name their tools, and however often they connect:   *)
(* no two tools of the agent have one name (_wire_mcp_tool).               *)
THEOREM ToolNamesAreUnique ==
    ASSUME Mcp!McpAssumption
    PROVE  Mcp!Spec => []Mcp!NamesAreUnique
<1>1. Mcp!Init => Mcp!NamesAreUnique
    <2> SUFFICES ASSUME Mcp!Init PROVE Mcp!NamesAreUnique
        OBVIOUS
    <2>1. mCfg.tools = Mcp!OwnTools
        BY DEF Mcp!Init
    <2>2. \A t \in Mcp!OwnTools : \E m \in Own : t = Mcp!McpTool(<<m>>, None, "own", 0)
        BY DEF Mcp!OwnTools
    <2>3. \A m : /\ Mcp!McpTool(<<m>>, None, "own", 0).name = <<m>>
                 /\ Mcp!McpTool(<<m>>, None, "own", 0).kind = "own"
        BY DEF Mcp!McpTool
    <2> HIDE DEF Mcp!Init
    <2>4. ASSUME NEW t \in Mcp!OwnTools, NEW u \in Mcp!OwnTools, t.name = u.name
          PROVE  t = u /\ t.kind = "own"
        <3>1. PICK m \in Own : t = Mcp!McpTool(<<m>>, None, "own", 0)
            BY <2>2
        <3>2. PICK k \in Own : u = Mcp!McpTool(<<k>>, None, "own", 0)
            BY <2>2
        <3>3. <<m>> = <<k>> /\ t.kind = "own"
            BY <2>3, <2>4, <3>1, <3>2
        <3>4. m = k
            BY <3>3
        <3> QED
            BY <3>1, <3>2, <3>3, <3>4
    <2> QED
        BY <2>1, <2>4 DEF Mcp!NamesAreUnique
<1>2. Mcp!NamesAreUnique = Unique(mCfg.tools)
    BY DEF Mcp!NamesAreUnique, Unique
<1>3. ASSUME ConnInv, Mcp!NamesAreUnique, [Mcp!Next]_Mcp!vars
      PROVE  Mcp!NamesAreUnique'
    <2>1. CASE mCfg'.tools = mCfg.tools
        BY <1>3, <2>1 DEF Mcp!NamesAreUnique
    <2>2. ASSUME NEW listed \in SUBSET Mcp!All, mCfg' = Mcp!Install(listed)
          PROVE  Mcp!NamesAreUnique'
        <3>1. mCfg'.tools = mCfg.tools \cup Mcp!Wired(listed, mDial.client)
            BY <2>2 DEF Mcp!Install
        <3>2. Unique(mCfg'.tools)
            BY <1>2, <1>3, <3>1, WiredIsUnique
        <3> QED
            BY <3>2 DEF Unique, Mcp!NamesAreUnique
    <2> QED
        BY <1>3, <2>1, <2>2, ToolSteps
<1> QED
    BY <1>1, <1>3, ConnAlways, PTL DEF Mcp!Spec

(* Where callers are. *)
PcInv == mPc \in [McpCallers -> {"idle", "ready", "wait", "dial", "failed"}]

(* A caller goes on only with the client it connected or found, whoever    *)
(* closes the agent meanwhile (_ensure_mcp_connected).                     *)
THEOREM ReadyMeansConnected ==
    ASSUME Mcp!McpAssumption
    PROVE  Mcp!Spec => Mcp!ReadyIsConnected
<1>1. Mcp!Init => PcInv
    BY DEF Mcp!Init, PcInv
<1>2. ASSUME PcInv, [Mcp!Next]_Mcp!vars
      PROVE  PcInv'
    BY <1>2 DEF PcInv, Mcp!Next, Mcp!vars, Mcp!Enter, Mcp!TakeLock, Mcp!Leave, Mcp!Populate, Mcp!Aclose, Mcp!StartCall, Mcp!ToolReturns,
                Mcp!ToolFails, Mcp!EndCall
<1>3. ASSUME ConnInv, PcInv, [Mcp!Next]_Mcp!vars, NEW c \in McpCallers, mPc[c] # "ready", mPc'[c] = "ready"
      PROVE  mCfg'.client # None
    <2>1. ASSUME NEW d \in McpCallers, Mcp!Enter(d)
          PROVE  mCfg'.client # None
        <3>1. d = c /\ Mcp!Connected
            BY <1>3, <2>1 DEF Mcp!Enter, PcInv
        <3> QED
            BY <1>3, <2>1, <3>1, ForgetKeeps DEF Mcp!Enter, Mcp!Connected
    <2>2. ASSUME NEW d \in McpCallers, Mcp!TakeLock(d)
          PROVE  mCfg'.client # None
        <3>1. Mcp!Connected
            BY <1>3, <2>2 DEF Mcp!TakeLock, PcInv
        <3> QED
            BY <1>3, <2>2, <3>1, ForgetKeeps DEF Mcp!TakeLock, Mcp!Connected
    <2>3. ASSUME NEW d \in McpCallers, Mcp!Leave(d)
          PROVE  FALSE
        BY <1>3, <2>3 DEF Mcp!Leave, PcInv
    <2>4. ASSUME NEW up \in SUBSET Mcp!All, NEW listed \in SUBSET Mcp!All, Mcp!Populate(up, listed)
          PROVE  mCfg'.client # None
        <3>1. mCfg' = Mcp!Install(listed) /\ mDial # None
            BY <1>3, <2>4 DEF Mcp!Populate, PcInv
        <3>2. mDial.client \in Nat
            BY <1>3, <3>1 DEF ConnInv
        <3> QED
            BY <3>1, <3>2 DEF Mcp!Install, Mcp!McpAssumption
    <2>5. CASE UNCHANGED mPc
        BY <1>3, <2>5
    <2> QED
        BY <1>3, <2>1, <2>2, <2>3, <2>4, <2>5
           DEF Mcp!Next, Mcp!vars, Mcp!Aclose, Mcp!StartCall, Mcp!ToolReturns, Mcp!ToolFails, Mcp!EndCall
<1>4. ConnInv /\ PcInv /\ [Mcp!Next]_Mcp!vars =>
        [\A c \in McpCallers : mPc[c] # "ready" /\ mPc'[c] = "ready" => mCfg'.client # None]_Mcp!vars
    BY <1>3
<1> QED
    BY <1>1, <1>2, <1>4, ConnAlways, PTL DEF Mcp!Spec, Mcp!ReadyIsConnected

-------------------------------------------------------------------------------
(* Background delegations: every set of tasks and clients. *)

(* Records of the manager, of the asyncio task and of a client.            *)
BgRecord == [status : {None, "running"} \cup Background!Terminal, result : Tasks \cup {None},
             done : BOOLEAN, stamped : BOOLEAN]
TaskRecord == [run : {None, "scheduled", "running", "ended", "never ran"}, cancel : BOOLEAN, deaf : BOOLEAN]
ClientRecord == [op : {None, "await", "await event", "cancel", "shutdown"}, on : SUBSET Tasks,
                 at : {"idle", "waiting", "done"}]

BgTypes ==
    /\ bBg \in [Tasks -> BgRecord]
    /\ bTask \in [Tasks -> TaskRecord]
    /\ bTable \subseteq Tasks
    /\ bClient \in [Clients -> ClientRecord]

(* What is stamped or has an outcome is over; so is what the table lost,   *)
(* unless shutdown empties it.                                             *)
OverInv ==
    \A t \in Tasks :
        /\ bBg[t].stamped => Background!Over(t)
        /\ bBg[t].status \in Background!Terminal => Background!Over(t)
        /\ "shutdown" \notin Ops => (bTask[t].run # None /\ t \notin bTable => Background!Over(t))

OpsInv == \A c \in Clients : bClient[c].op \in {"cancel", "shutdown"} => bClient[c].op \in Ops

BgInv == BgTypes /\ OverInv /\ OpsInv

LEMMA BgWritten ==
    ASSUME NEW f \in [Tasks -> BgRecord], NEW t \in Tasks, NEW r \in BgRecord,
           NEW g, g = [f EXCEPT ![t] = r]
    PROVE  /\ g \in [Tasks -> BgRecord] /\ g[t] = r
           /\ \A u \in Tasks : u # t => g[u] = f[u]
OBVIOUS

LEMMA TaskWritten ==
    ASSUME NEW f \in [Tasks -> TaskRecord], NEW t \in Tasks, NEW r \in TaskRecord,
           NEW g, g = [f EXCEPT ![t] = r]
    PROVE  /\ g \in [Tasks -> TaskRecord] /\ g[t] = r
           /\ \A u \in Tasks : u # t => g[u] = f[u]
OBVIOUS

(* What a client writes of itself.                                         *)
LEMMA ClientWritten ==
    ASSUME BgTypes, OpsInv, NEW c \in Clients, NEW r \in ClientRecord,
           r.op \in {"cancel", "shutdown"} => r.op \in Ops,
           bClient' = [bClient EXCEPT ![c] = r]
    PROVE  bClient' \in [Clients -> ClientRecord] /\ OpsInv'
BY DEF BgTypes, OpsInv

LEMMA Asked ==
    ASSUME BgTypes, OpsInv, NEW c \in Clients, NEW op \in {"await", "await event", "cancel", "shutdown"},
           op \in {"cancel", "shutdown"} => op \in Ops,
           NEW on \in SUBSET Tasks, Background!Begin(c, op, on) \/ Background!Answer(c, op)
    PROVE  bClient' \in [Clients -> ClientRecord] /\ OpsInv'
<1>1. CASE Background!Begin(c, op, on)
    <2> DEFINE r == [op |-> op, on |-> on, at |-> "waiting"]
    <2>1. r \in ClientRecord /\ r.op = op
        BY DEF ClientRecord
    <2>2. bClient' = [bClient EXCEPT ![c] = r]
        BY <1>1 DEF Background!Begin
    <2> HIDE DEF r
    <2> QED
        BY <2>1, <2>2, ClientWritten
<1>2. CASE Background!Answer(c, op)
    <2> DEFINE r == [op |-> op, on |-> {}, at |-> "done"]
    <2>1. r \in ClientRecord /\ r.op = op
        BY DEF ClientRecord
    <2>2. bClient' = [bClient EXCEPT ![c] = r]
        BY <1>2 DEF Background!Answer
    <2> HIDE DEF r
    <2> QED
        BY <2>1, <2>2, ClientWritten
<1> QED
    BY <1>1, <1>2

LEMMA StartKeeps ==
    ASSUME Background!TasksAssumption, BgInv, NEW t \in Tasks, Background!Start(t)
    PROVE  BgInv'
<1>0. BgTypes /\ OverInv /\ OpsInv
    BY DEF BgInv
<1> DEFINE run == IF bTask[t].cancel THEN "never ran" ELSE "running"
           r == [bTask[t] EXCEPT !.run = run]
<1>1. bTask[t] \in TaskRecord /\ bBg[t] \in BgRecord
    BY <1>0 DEF BgTypes
<1>2. run \in {"never ran", "running"}
    OBVIOUS
<1>3. bTask' = [bTask EXCEPT ![t] = r]
    BY DEF Background!Start
<1> HIDE DEF run
<1>4. r \in TaskRecord /\ r.run = run
    BY <1>1, <1>2 DEF TaskRecord
<1> HIDE DEF r
<1>5. /\ bTask' \in [Tasks -> TaskRecord] /\ bTask'[t] = r
      /\ \A u \in Tasks : u # t => bTask'[u] = bTask[u]
    BY <1>0, <1>3, <1>4, TaskWritten DEF BgTypes
<1>6. bBg' = bBg /\ bTable' = bTable /\ bClient' = bClient
    BY DEF Background!Start
<1>7. bBg[t].stamped = FALSE /\ bBg[t].status \notin Background!Terminal
    BY <1>0, <1>1 DEF Background!Start, OverInv, Background!Over, BgRecord
<1>8. "shutdown" \notin Ops => t \in bTable
    BY <1>0 DEF Background!Start, OverInv, Background!Over, Background!TasksAssumption
<1>9. OverInv'
    BY <1>0, <1>5, <1>6, <1>7, <1>8 DEF OverInv, Background!Over
<1>10. BgTypes' /\ OpsInv'
    BY <1>0, <1>5, <1>6 DEF BgTypes, OpsInv
<1> QED
    BY <1>9, <1>10 DEF BgInv

LEMMA EndedKeeps ==
    ASSUME BgInv, NEW t \in Tasks, NEW status \in Background!Terminal, NEW result \in Tasks \cup {None},
           Background!Ended(t, status, result)
    PROVE  BgInv'
<1>0. BgTypes /\ OverInv /\ OpsInv
    BY DEF BgInv
<1> DEFINE r == [bTask[t] EXCEPT !.run = "ended"]
           b == [status |-> status, result |-> result, done |-> TRUE, stamped |-> TRUE]
<1>1. bTask[t] \in TaskRecord
    BY <1>0 DEF BgTypes
<1>2. bTask' = [bTask EXCEPT ![t] = r] /\ bBg' = [bBg EXCEPT ![t] = b] /\ UNCHANGED <<bTable, bClient>>
    BY DEF Background!Ended
<1>3. r \in TaskRecord /\ r.run = "ended"
    BY <1>1 DEF TaskRecord
<1>4. b \in BgRecord
    BY DEF BgRecord
<1> HIDE DEF r, b
<1>5. /\ bTask' \in [Tasks -> TaskRecord] /\ bTask'[t] = r
      /\ \A u \in Tasks : u # t => bTask'[u] = bTask[u]
    BY <1>0, <1>2, <1>3, TaskWritten DEF BgTypes
<1>6. /\ bBg' \in [Tasks -> BgRecord]
      /\ \A u \in Tasks : u # t => bBg'[u] = bBg[u]
    BY <1>0, <1>2, <1>4, BgWritten DEF BgTypes
<1>7. OverInv'
    BY <1>0, <1>2, <1>3, <1>5, <1>6 DEF OverInv, Background!Over
<1>8. BgTypes' /\ OpsInv'
    BY <1>0, <1>2, <1>5, <1>6 DEF BgTypes, OpsInv
<1> QED
    BY <1>7, <1>8 DEF BgInv

LEMMA CancelledKeeps ==
    ASSUME BgInv, NEW t \in Tasks, Background!Cancelled(t)
    PROVE  BgInv'
<1>1. CASE Background!Ended(t, "cancelled", None)
    BY <1>1, EndedKeeps DEF Background!Terminal
<1>2. CASE bTask' = [bTask EXCEPT ![t].cancel = FALSE, ![t].deaf = TRUE] /\ UNCHANGED <<bBg, bTable, bClient>>
    <2>0. BgTypes /\ OverInv /\ OpsInv
        BY DEF BgInv
    <2> DEFINE r == [bTask[t] EXCEPT !.cancel = FALSE, !.deaf = TRUE]
    <2>1. bTask[t] \in TaskRecord
        BY <2>0 DEF BgTypes
    <2>2. r \in TaskRecord /\ r.run = bTask[t].run
        BY <2>1 DEF TaskRecord
    <2>3. bTask' = [bTask EXCEPT ![t] = r]
        BY <1>2, <2>0 DEF BgTypes
    <2> HIDE DEF r
    <2>4. /\ bTask' \in [Tasks -> TaskRecord] /\ bTask'[t] = r
          /\ \A u \in Tasks : u # t => bTask'[u] = bTask[u]
        BY <2>0, <2>2, <2>3, TaskWritten DEF BgTypes
    <2>5. OverInv'
        BY <1>2, <2>0, <2>2, <2>4 DEF OverInv, Background!Over
    <2> QED
        BY <1>2, <2>0, <2>4, <2>5 DEF BgInv, BgTypes, OpsInv
<1> QED
    BY <1>1, <1>2 DEF Background!Cancelled

LEMMA SubmitKeeps ==
    ASSUME Background!TasksAssumption, BgInv, NEW c \in Clients, NEW t \in Tasks, Background!Submit(c, t)
    PROVE  BgInv'
<1>0. BgTypes /\ OverInv /\ OpsInv
    BY DEF BgInv
<1> DEFINE r == [bTask[t] EXCEPT !.run = "scheduled"]
           b == [bBg[t] EXCEPT !.status = "running"]
<1>1. bTask[t] \in TaskRecord /\ bBg[t] \in BgRecord /\ bTask[t].run = None
    BY <1>0 DEF BgTypes, Background!Submit
<1>2. /\ bTask' = [bTask EXCEPT ![t] = r] /\ bBg' = [bBg EXCEPT ![t] = b]
      /\ bTable' = bTable \cup {t} /\ bClient' = bClient
    BY DEF Background!Submit
<1>3. r \in TaskRecord /\ r.run = "scheduled"
    BY <1>1 DEF TaskRecord
<1>4. b \in BgRecord /\ b.status = "running" /\ b.stamped = bBg[t].stamped
    BY <1>1 DEF BgRecord
<1>5. bBg[t].stamped = FALSE
    BY <1>0, <1>1 DEF OverInv, Background!Over, Background!TasksAssumption, BgRecord
<1> HIDE DEF r, b
<1>6. /\ bTask' \in [Tasks -> TaskRecord] /\ bTask'[t] = r
      /\ \A u \in Tasks : u # t => bTask'[u] = bTask[u]
    BY <1>0, <1>2, <1>3, TaskWritten DEF BgTypes
<1>7. /\ bBg' \in [Tasks -> BgRecord] /\ bBg'[t] = b
      /\ \A u \in Tasks : u # t => bBg'[u] = bBg[u]
    BY <1>0, <1>2, <1>4, BgWritten DEF BgTypes
<1>8. OverInv'
    BY <1>0, <1>2, <1>4, <1>5, <1>6, <1>7 DEF OverInv, Background!Over, Background!Terminal
<1> QED
    BY <1>0, <1>2, <1>6, <1>7, <1>8 DEF BgInv, BgTypes, OpsInv

LEMMA AwaitKeeps ==
    ASSUME BgInv, NEW c \in Clients, NEW t \in Tasks,
           Background!Await(c, t) \/ Background!Awaited(c, t) \/ Background!AwaitTimesOut(c)
    PROVE  BgInv'
<1>0. BgTypes /\ OverInv /\ OpsInv
    BY DEF BgInv
<1>1. UNCHANGED <<bBg, bTask, bTable>>
    BY DEF Background!Await, Background!Awaited, Background!AwaitTimesOut
<1>2. Background!Answer(c, "await") \/ Background!Begin(c, "await", {t}) \/ Background!Begin(c, "await event", {t})
    <2>1. CASE Background!Await(c, t)
        BY <2>1 DEF Background!Await
    <2>2. CASE Background!Awaited(c, t) \/ Background!AwaitTimesOut(c)
        BY <2>2 DEF Background!Awaited, Background!AwaitTimesOut
    <2> QED
        BY <2>1, <2>2
<1>3. bClient' \in [Clients -> ClientRecord] /\ OpsInv'
    BY <1>0, <1>2, Asked
<1> QED
    BY <1>0, <1>1, <1>3 DEF BgInv, BgTypes, OverInv, Background!Over

LEMMA CancelKeeps ==
    ASSUME BgInv, "cancel" \in Ops, NEW c \in Clients, NEW t \in Tasks, Background!Cancel(c, t)
    PROVE  BgInv'
<1>0. BgTypes /\ OverInv /\ OpsInv
    BY DEF BgInv
<1>1. Background!Begin(c, "cancel", {t}) \/ Background!Answer(c, "cancel")
    BY DEF Background!Cancel
<1>2. bClient' \in [Clients -> ClientRecord] /\ OpsInv'
    BY <1>0, <1>1, Asked
<1>3. UNCHANGED <<bBg, bTable>>
    BY DEF Background!Cancel
<1>4. CASE bTask' = bTask
    BY <1>0, <1>2, <1>3, <1>4 DEF BgInv, BgTypes, OverInv, Background!Over
<1>5. CASE bTask' = [bTask EXCEPT ![t].cancel = TRUE]
    <2> DEFINE r == [bTask[t] EXCEPT !.cancel = TRUE]
    <2>1. bTask[t] \in TaskRecord
        BY <1>0 DEF BgTypes
    <2>2. r \in TaskRecord /\ r.run = bTask[t].run
        BY <2>1 DEF TaskRecord
    <2>3. bTask' = [bTask EXCEPT ![t] = r]
        BY <1>5
    <2> HIDE DEF r
    <2>4. /\ bTask' \in [Tasks -> TaskRecord] /\ bTask'[t] = r
          /\ \A u \in Tasks : u # t => bTask'[u] = bTask[u]
        BY <1>0, <2>2, <2>3, TaskWritten DEF BgTypes
    <2>5. OverInv'
        BY <1>0, <1>3, <2>2, <2>4 DEF OverInv, Background!Over
    <2> QED
        BY <1>0, <1>2, <1>3, <2>4, <2>5 DEF BgInv, BgTypes
<1> QED
    BY <1>4, <1>5 DEF Background!Cancel

LEMMA CancelEndsKeeps ==
    ASSUME BgInv, NEW c \in Clients, NEW t \in Tasks, Background!CancelEnds(c, t)
    PROVE  BgInv'
<1>0. BgTypes /\ OverInv /\ OpsInv
    BY DEF BgInv
<1>1. Background!Answer(c, "cancel") /\ UNCHANGED <<bTask, bTable>> /\ Background!Over(t) /\ bClient[c].op = "cancel"
    BY DEF Background!CancelEnds
<1>2. bClient' \in [Clients -> ClientRecord] /\ OpsInv'
    BY <1>0, <1>1, Asked DEF OpsInv
<1> DEFINE b == [bBg[t] EXCEPT !.status = "cancelled", !.stamped = TRUE]
<1>3. bBg[t] \in BgRecord
    BY <1>0 DEF BgTypes
<1>4. b \in BgRecord
    BY <1>3 DEF BgRecord, Background!Terminal
<1>5. bBg' = [bBg EXCEPT ![t] = b]
    BY <1>0 DEF BgTypes, Background!CancelEnds
<1> HIDE DEF b
<1>6. /\ bBg' \in [Tasks -> BgRecord]
      /\ \A u \in Tasks : u # t => bBg'[u] = bBg[u]
    BY <1>0, <1>4, <1>5, BgWritten DEF BgTypes
<1>7. OverInv'
    BY <1>0, <1>1, <1>6 DEF OverInv, Background!Over
<1> QED
    BY <1>0, <1>1, <1>2, <1>6, <1>7 DEF BgInv, BgTypes

LEMMA CleanupKeeps ==
    ASSUME BgInv, NEW c \in Clients, NEW old \in SUBSET Tasks, Background!Cleanup(c, old)
    PROVE  BgInv'
BY DEF BgInv, BgTypes, OverInv, OpsInv, Background!Over, Background!Cleanup

LEMMA ShutdownKeeps ==
    ASSUME BgInv, "shutdown" \in Ops, NEW c \in Clients, Background!Shutdown(c)
    PROVE  BgInv'
<1>0. BgTypes /\ OverInv /\ OpsInv
    BY DEF BgInv
<1> DEFINE live == {t \in bTable : ~Background!Over(t)}
           r(t) == IF t \in live THEN [bTask[t] EXCEPT !.cancel = TRUE] ELSE bTask[t]
<1>1. bTask' = [t \in Tasks |-> r(t)] /\ Background!Begin(c, "shutdown", live) /\ UNCHANGED <<bBg, bTable>>
    BY DEF Background!Shutdown
<1>2. live \in SUBSET Tasks
    BY <1>0 DEF BgTypes
<1> HIDE DEF live
<1>3. bClient' \in [Clients -> ClientRecord] /\ OpsInv'
    BY <1>0, <1>1, <1>2, Asked
<1>4. \A t \in Tasks : r(t) \in TaskRecord /\ r(t).run = bTask[t].run
    <2> TAKE t \in Tasks
    <2>1. bTask[t] \in TaskRecord
        BY <1>0 DEF BgTypes
    <2> QED
        BY <2>1 DEF TaskRecord
<1> HIDE DEF r
<1>5. bTask' \in [Tasks -> TaskRecord] /\ \A t \in Tasks : bTask'[t].run = bTask[t].run
    BY <1>1, <1>4
<1>6. OverInv'
    BY <1>0, <1>1, <1>5 DEF OverInv, Background!Over
<1> QED
    BY <1>0, <1>1, <1>3, <1>5, <1>6 DEF BgInv, BgTypes

LEMMA ShutdownEndsKeeps ==
    ASSUME BgInv, NEW c \in Clients, Background!ShutdownEnds(c)
    PROVE  BgInv'
<1>0. BgTypes /\ OverInv /\ OpsInv
    BY DEF BgInv
<1>1. bTable' = {} /\ Background!Answer(c, "shutdown") /\ UNCHANGED <<bBg, bTask>> /\ bClient[c].op = "shutdown"
    BY DEF Background!ShutdownEnds
<1>2. "shutdown" \in Ops
    BY <1>0, <1>1 DEF OpsInv
<1>3. bClient' \in [Clients -> ClientRecord] /\ OpsInv'
    BY <1>0, <1>1, <1>2, Asked
<1> QED
    BY <1>0, <1>1, <1>2, <1>3 DEF BgInv, BgTypes, OverInv, Background!Over

LEMMA BgKeeps ==
    ASSUME Background!TasksAssumption, BgInv, [Background!Next]_Background!vars
    PROVE  BgInv'
<1>1. CASE UNCHANGED Background!vars
    BY <1>1 DEF Background!vars, BgInv, BgTypes, OverInv, OpsInv, Background!Over
<1>2. ASSUME NEW t \in Tasks, Background!Start(t)
      PROVE  BgInv'
    BY <1>2, StartKeeps
<1>3. ASSUME NEW t \in Tasks, Background!Finish(t)
      PROVE  BgInv'
    BY <1>3, EndedKeeps DEF Background!Finish, Background!Terminal
<1>4. ASSUME NEW t \in Tasks, Background!Cancelled(t)
      PROVE  BgInv'
    BY <1>4, CancelledKeeps
<1>5. ASSUME NEW c \in Clients, Background!Wakes(c)
      PROVE  BgInv'
    BY <1>5, ShutdownEndsKeeps, AwaitKeeps, CancelEndsKeeps DEF Background!Wakes
<1>6. ASSUME NEW c \in Clients, NEW t \in Tasks, Background!Await(c, t)
      PROVE  BgInv'
    BY <1>6, AwaitKeeps
<1>7. ASSUME NEW c \in Clients, Background!AwaitTimesOut(c)
      PROVE  BgInv'
    <2>1. CASE Tasks = {}
        <3>0. BgTypes /\ OverInv /\ OpsInv
            BY DEF BgInv
        <3>1. bClient' \in [Clients -> ClientRecord] /\ OpsInv'
            BY <1>7, <3>0, Asked DEF Background!AwaitTimesOut
        <3> QED
            BY <1>7, <3>0, <3>1 DEF Background!AwaitTimesOut, BgInv, BgTypes, OverInv, Background!Over
    <2>2. CASE Tasks # {}
        BY <1>7, <2>2, AwaitKeeps
    <2> QED
        BY <2>1, <2>2
<1>8. ASSUME "cancel" \in Ops, NEW c \in Clients, NEW t \in Tasks, Background!Cancel(c, t)
      PROVE  BgInv'
    BY <1>8, CancelKeeps
<1>9. ASSUME NEW c \in Clients, NEW old \in SUBSET Tasks, Background!Cleanup(c, old)
      PROVE  BgInv'
    BY <1>9, CleanupKeeps
<1>10. ASSUME "shutdown" \in Ops, NEW c \in Clients, Background!Shutdown(c)
      PROVE  BgInv'
    BY <1>10, ShutdownKeeps
<1>11. ASSUME NEW c \in Clients, NEW t \in Tasks, Background!Submit(c, t)
      PROVE  BgInv'
    BY <1>11, SubmitKeeps
<1> QED
    BY <1>1, <1>2, <1>3, <1>4, <1>5, <1>6, <1>7, <1>8, <1>9, <1>10, <1>11 DEF Background!Next, Background!TaskStep

(* Types, and what is over, in every state.                                *)
THEOREM BgHolds ==
    ASSUME Background!TasksAssumption
    PROVE  Background!Spec => []BgInv
<1>1. Background!Init => BgInv
    <2> SUFFICES ASSUME Background!Init PROVE BgInv
        OBVIOUS
    <2>1. Background!NoBg \in BgRecord /\ Background!NoBg.stamped = FALSE /\ Background!NoBg.status = None
        BY DEF Background!NoBg, BgRecord
    <2>2. Background!Idle \in ClientRecord /\ Background!Idle.op = None
        BY DEF Background!Idle, ClientRecord
    <2>3. [run |-> None, cancel |-> FALSE, deaf |-> FALSE] \in TaskRecord
        BY DEF TaskRecord
    <2>4. BgTypes
        BY <2>1, <2>2, <2>3 DEF Background!Init, BgTypes
    <2>5. OverInv
        BY <2>1 DEF Background!Init, OverInv, Background!Over, Background!Terminal, Background!TasksAssumption
    <2>6. OpsInv
        BY <2>2 DEF Background!Init, OpsInv, Background!TasksAssumption
    <2> QED
        BY <2>4, <2>5, <2>6 DEF BgInv
<1>2. BgInv /\ [Background!Next]_Background!vars => BgInv'
    BY BgKeeps
<1> QED
    BY <1>1, <1>2, PTL DEF Background!Spec

(* While the agent stays open no task is forgotten that still runs, however *)
(* submits, cancels, awaits and cleanups interleave (cleanup).             *)
THEOREM NothingLivesUnseen ==
    ASSUME Background!TasksAssumption, "shutdown" \notin Ops
    PROVE  Background!Spec => []Background!ForgottenIsOver
<1>1. BgInv => Background!ForgottenIsOver
    BY DEF BgInv, OverInv, Background!ForgottenIsOver
<1> QED
    BY <1>1, BgHolds, PTL

(* Where nothing is cancelled, an outcome is final (BackgroundTaskStatus): *)
(* no end, submit or cleanup comes after it.                               *)
THEOREM OutcomesAreFinal ==
    ASSUME Background!TasksAssumption, "cancel" \notin Ops
    PROVE  Background!Spec => Background!EndsOnce
<1>1. ASSUME BgInv, [Background!Next]_Background!vars, NEW t \in Tasks, bBg[t].status \in Background!Terminal
      PROVE  bBg'[t].status = bBg[t].status
    <2>0. Background!Over(t) /\ bTask[t].run # None
        BY <1>1 DEF BgInv, OverInv, Background!Over, Background!TasksAssumption
    <2>1. ASSUME NEW u \in Tasks, Background!TaskStep(u)
          PROVE  bBg'[t] = bBg[t]
        <3>1. u # t
            BY <2>0, <2>1 DEF Background!TaskStep, Background!Start, Background!Finish, Background!Cancelled, Background!Over
        <3> QED
            BY <1>1, <2>1, <3>1 DEF Background!TaskStep, Background!Start, Background!Finish, Background!Cancelled, Background!Ended, BgInv, BgTypes
    <2>2. ASSUME NEW c \in Clients, NEW u \in Tasks, Background!Submit(c, u)
          PROVE  bBg'[t] = bBg[t]
        <3>1. u # t
            BY <2>0, <2>2 DEF Background!Submit
        <3> QED
            BY <1>1, <2>2, <3>1 DEF Background!Submit, BgInv, BgTypes
    <2>3. ASSUME NEW c \in Clients, NEW u \in Tasks, Background!CancelEnds(c, u)
          PROVE  FALSE
        BY <1>1, <2>3 DEF Background!CancelEnds, BgInv, OpsInv
    <2>4. CASE UNCHANGED bBg
        BY <2>4
    <2> QED
        BY <1>1, <2>1, <2>2, <2>3, <2>4
           DEF Background!Next, Background!vars, Background!Wakes, Background!ShutdownEnds, Background!Awaited, Background!Await, Background!AwaitTimesOut, Background!Cancel, Background!Cleanup, Background!Shutdown
<1>2. BgInv /\ [Background!Next]_Background!vars => Background!StaysEnded
    BY <1>1 DEF Background!StaysEnded
<1>3. BgInv /\ [Background!Next]_Background!vars => [Background!StaysEnded]_Background!vars
    BY <1>2
<1> QED
    BY <1>3, BgHolds, PTL DEF Background!Spec, Background!EndsOnce

-------------------------------------------------------------------------------
(* The entry of an agent: every set of callers. *)

(* What callers, the locks and the streams hold.                           *)
JobRecord == [kind : {None, "ainvoke", "stream", "events", "agp", "invoke"}, before : Nat,
              text : {None, "raw", "processed"}, tracker : Callers \cup {None},
              bg : {"none", "running", "saved"}, ok : BOOLEAN]
LockRecord == [owner : Callers \cup {None}, contended : BOOLEAN]
BootRecord == [done : BOOLEAN, by : Callers \cup {None}, runs : Nat]
Word == {"opened", "event", "done", "error", "sentinel", "skill", "closed error", "closed completed"}

StateInv ==
    /\ eAt \in [Callers -> Calls!Steps]
    /\ eJob \in [Callers -> JobRecord]
    /\ eLock \in LockRecord /\ eBoot \in BootRecord /\ eTracker \in Callers \cup {None}
    /\ eReader \in [Callers -> {"none", "reading", "ended", "left"}]
    /\ eQueue \in [Callers -> Seq(Word)] /\ eWire \in [Callers -> Seq(Word)]

(* The turn lock is with the caller that prepares or runs a turn.          *)
Held == {"skills", "harness", "bind", "turn"}
LockInv ==
    /\ \A c \in Callers : eAt[c] \in Held => eLock.owner = c
    /\ eLock.owner # None => eAt[eLock.owner] \in Held

(* What a step of a call says of its kind, its reader and its result.      *)
Pre == {"try skills", "try harness", "try bind", "try plan", "chunks"}
KindOf(c) ==
    /\ eAt[c] = "idle" => eJob[c].kind = None
    /\ eAt[c] \in Pre => eJob[c].kind = "stream"
    /\ (eReader[c] # "none") <=> Calls!Streams(c)
    /\ Calls!Streams(c) => eAt[c] # "raised"
    /\ eReader[c] = "left" => eAt[c] \in Calls!Over
    /\ eReader[c] = "ended" => eAt[c] = "end"
    /\ eReader[c] = "reading" => eAt[c] # "cancelled"
    /\ eAt[c] \notin Calls!Over => eJob[c].ok = FALSE /\ eJob[c].bg = "none"
    /\ ~Calls!Streams(c) => eQueue[c] = <<>>
KindInv == \A c \in Callers : KindOf(c)

(* A stream: the producer has said nothing of the end; or the end is in    *)
(* the queue; or the consumer has read it, and the sentinel is next.       *)
Marks == {"done", "error"}
Said(ok) == IF ok THEN "done" ELSE "error"
Silent(q, w) ==
    /\ \A i \in DOMAIN q : q[i] \notin Marks /\ q[i] # "sentinel"
    /\ \A i \in DOMAIN w : w[i] \notin Marks
Unread(q, w, ok) ==
    /\ \E i \in DOMAIN q :
         /\ q[i] = Said(ok) /\ i + 1 \in DOMAIN q /\ q[i + 1] = "sentinel"
         /\ \A j \in DOMAIN q : (q[j] \in Marks => j = i) /\ (q[j] = "sentinel" => j = i + 1)
    /\ \A i \in DOMAIN w : w[i] \notin Marks
Told(w, ok) ==
    \E i \in DOMAIN w : w[i] = Said(ok) /\ \A j \in DOMAIN w : w[j] \in Marks => j = i
Half(q, w, ok) ==
    /\ Told(w, ok)
    /\ q # <<>> /\ q[1] = "sentinel"
    /\ \A j \in DOMAIN q : q[j] \notin Marks /\ (q[j] = "sentinel" => j = 1)

StreamOf(c) ==
    /\ eReader[c] = "reading" /\ eAt[c] \notin Calls!Over => Silent(eQueue[c], eWire[c])
    /\ eReader[c] = "reading" /\ eAt[c] \in Calls!Over =>
         (Unread(eQueue[c], eWire[c], eJob[c].ok) \/ Half(eQueue[c], eWire[c], eJob[c].ok))
    /\ eReader[c] = "ended" => Told(eWire[c], eJob[c].ok)
StreamInv == \A c \in Callers : StreamOf(c)

AgpOf(c) ==
    eJob[c].kind = "agp" =>
      /\ eWire[c] # <<>> /\ eWire[c][1] = "opened"
      /\ eReader[c] = "ended" =>
           eWire[c][Len(eWire[c])] = IF eJob[c].ok THEN "closed completed" ELSE "closed error"
AgpInv == \A c \in Callers : AgpOf(c)

EntryInv == StateInv /\ LockInv /\ KindInv /\ StreamInv /\ AgpInv

(* Sequences of words.                                                     *)
LEMMA Longer ==
    ASSUME NEW q \in Seq(Word), NEW e \in Word, NEW r, r = q \o <<e>> \/ r = Append(q, e)
    PROVE  /\ r \in Seq(Word) /\ Len(q) \in Nat /\ DOMAIN q = 1..Len(q)
           /\ DOMAIN r = 1..(Len(q) + 1) /\ Len(r) = Len(q) + 1 /\ r # <<>>
           /\ r[Len(q) + 1] = e /\ \A i \in 1..Len(q) : r[i] = q[i]
OBVIOUS

LEMMA LongerByTwo ==
    ASSUME NEW q \in Seq(Word), NEW e \in Word, NEW f \in Word, NEW r, r = q \o <<e, f>>
    PROVE  /\ r \in Seq(Word) /\ Len(q) \in Nat /\ DOMAIN q = 1..Len(q)
           /\ DOMAIN r = 1..(Len(q) + 2)
           /\ r[Len(q) + 1] = e /\ r[Len(q) + 2] = f /\ \A i \in 1..Len(q) : r[i] = q[i]
OBVIOUS

LEMMA Shorter ==
    ASSUME NEW q \in Seq(Word), q # <<>>, NEW r, r = Tail(q)
    PROVE  /\ r \in Seq(Word) /\ Len(q) \in Nat /\ Len(q) >= 1 /\ DOMAIN q = 1..Len(q)
           /\ DOMAIN r = 1..(Len(q) - 1) /\ Head(q) = q[1] /\ Head(q) \in Word
           /\ \A i \in 1..(Len(q) - 1) : r[i] = q[i + 1]
OBVIOUS

LEMMA EventKeepsSilence ==
    ASSUME NEW q \in Seq(Word), NEW w, Silent(q, w), NEW r, r = q \o <<"event">>
    PROVE  r \in Seq(Word) /\ Silent(r, w)
<1>1. "event" \in Word
    BY DEF Word
<1>2. /\ r \in Seq(Word) /\ Len(q) \in Nat /\ DOMAIN q = 1..Len(q) /\ DOMAIN r = 1..(Len(q) + 1)
      /\ r[Len(q) + 1] = "event" /\ \A i \in 1..Len(q) : r[i] = q[i]
    BY <1>1, Longer
<1> QED
    BY <1>2 DEF Silent, Marks

LEMMA EndIsSaid ==
    ASSUME NEW q \in Seq(Word), NEW w, Silent(q, w), NEW ok \in BOOLEAN,
           NEW r, r = q \o <<Said(ok), "sentinel">>
    PROVE  r \in Seq(Word) /\ Unread(r, w, ok)
<1>1. Said(ok) \in Word /\ Said(ok) \in Marks /\ "sentinel" \in Word /\ "sentinel" \notin Marks
    BY DEF Word, Said, Marks
<1>2. /\ r \in Seq(Word) /\ Len(q) \in Nat /\ DOMAIN q = 1..Len(q) /\ DOMAIN r = 1..(Len(q) + 2)
      /\ r[Len(q) + 1] = Said(ok) /\ r[Len(q) + 2] = "sentinel" /\ \A i \in 1..Len(q) : r[i] = q[i]
    BY <1>1, LongerByTwo
<1> DEFINE i == Len(q) + 1
<1>3. i \in DOMAIN r /\ i + 1 \in DOMAIN r /\ r[i] = Said(ok) /\ r[i + 1] = "sentinel"
    BY <1>2
<1>4. \A j \in DOMAIN r : (r[j] \in Marks => j = i) /\ (r[j] = "sentinel" => j = i + 1)
    <2> TAKE j \in DOMAIN r
    <2>1. CASE j \in 1..Len(q)
        BY <1>2, <2>1 DEF Silent
    <2>2. CASE j = Len(q) + 1
        BY <1>1, <1>2, <2>2
    <2>3. CASE j = Len(q) + 2
        BY <1>1, <1>2, <2>3
    <2> QED
        BY <1>2, <2>1, <2>2, <2>3
<1> QED
    BY <1>2, <1>3, <1>4 DEF Unread, Silent

LEMMA SkillComesLate ==
    ASSUME NEW q \in Seq(Word), NEW w, NEW ok, Unread(q, w, ok) \/ Half(q, w, ok),
           NEW r, r = q \o <<"skill">>
    PROVE  r \in Seq(Word) /\ (Unread(r, w, ok) \/ Half(r, w, ok))
<1>1. "skill" \in Word /\ "skill" \notin Marks
    BY DEF Word, Marks
<1>2. /\ r \in Seq(Word) /\ Len(q) \in Nat /\ DOMAIN q = 1..Len(q) /\ DOMAIN r = 1..(Len(q) + 1)
      /\ r # <<>> /\ r[Len(q) + 1] = "skill" /\ \A i \in 1..Len(q) : r[i] = q[i]
    BY <1>1, Longer
<1>3. CASE Unread(q, w, ok)
    <2>1. PICK i \in DOMAIN q :
            /\ q[i] = Said(ok) /\ i + 1 \in DOMAIN q /\ q[i + 1] = "sentinel"
            /\ \A j \in DOMAIN q : (q[j] \in Marks => j = i) /\ (q[j] = "sentinel" => j = i + 1)
        BY <1>3 DEF Unread
    <2>2. i \in DOMAIN r /\ i + 1 \in DOMAIN r /\ r[i] = Said(ok) /\ r[i + 1] = "sentinel"
        BY <1>2, <2>1
    <2>3. \A j \in DOMAIN r : (r[j] \in Marks => j = i) /\ (r[j] = "sentinel" => j = i + 1)
        BY <1>1, <1>2, <2>1
    <2> QED
        BY <1>2, <1>3, <2>2, <2>3 DEF Unread
<1>4. CASE Half(q, w, ok)
    <2>1. Len(q) >= 1
        BY <1>2, <1>4 DEF Half
    <2>2. r[1] = "sentinel"
        BY <1>2, <1>4, <2>1 DEF Half
    <2>3. \A j \in DOMAIN r : r[j] \notin Marks /\ (r[j] = "sentinel" => j = 1)
        BY <1>1, <1>2, <1>4 DEF Half
    <2> QED
        BY <1>2, <1>4, <2>2, <2>3 DEF Half
<1> QED
    BY <1>2, <1>3, <1>4

LEMMA ToldStands ==
    ASSUME NEW w \in Seq(Word), NEW ok, Told(w, ok), NEW e \in Word \ Marks, NEW v, v = Append(w, e)
    PROVE  Told(v, ok)
<1>1. /\ Len(w) \in Nat /\ DOMAIN w = 1..Len(w) /\ DOMAIN v = 1..(Len(w) + 1)
      /\ v[Len(w) + 1] = e /\ \A i \in 1..Len(w) : v[i] = w[i]
    BY Longer
<1>2. PICK i \in DOMAIN w : w[i] = Said(ok) /\ \A j \in DOMAIN w : w[j] \in Marks => j = i
    BY DEF Told
<1>3. i \in DOMAIN v /\ v[i] = Said(ok)
    BY <1>1, <1>2
<1>4. \A j \in DOMAIN v : v[j] \in Marks => j = i
    BY <1>1, <1>2
<1> QED
    BY <1>3, <1>4 DEF Told

(* The consumer reads a word that is not the sentinel.                     *)
LEMMA WordIsRead ==
    ASSUME NEW q \in Seq(Word), NEW w \in Seq(Word), NEW ok, q # <<>>, Head(q) # "sentinel",
           NEW r, r = Tail(q), NEW v, v = Append(w, Head(q))
    PROVE  /\ r \in Seq(Word) /\ v \in Seq(Word)
           /\ Silent(q, w) => Silent(r, v)
           /\ Unread(q, w, ok) => Unread(r, v, ok) \/ Half(r, v, ok)
           /\ ~Half(q, w, ok)
<1>1. /\ r \in Seq(Word) /\ Len(q) \in Nat /\ Len(q) >= 1 /\ DOMAIN q = 1..Len(q)
      /\ DOMAIN r = 1..(Len(q) - 1) /\ Head(q) = q[1] /\ Head(q) \in Word
      /\ \A i \in 1..(Len(q) - 1) : r[i] = q[i + 1]
    BY Shorter
<1>2. /\ v \in Seq(Word) /\ Len(w) \in Nat /\ DOMAIN w = 1..Len(w) /\ DOMAIN v = 1..(Len(w) + 1)
      /\ v[Len(w) + 1] = q[1] /\ \A i \in 1..Len(w) : v[i] = w[i]
    BY <1>1, Longer
<1>3. Silent(q, w) => Silent(r, v)
    BY <1>1, <1>2 DEF Silent
<1>4. ASSUME Unread(q, w, ok)
      PROVE  Unread(r, v, ok) \/ Half(r, v, ok)
    <2>1. PICK i \in DOMAIN q :
            /\ q[i] = Said(ok) /\ i + 1 \in DOMAIN q /\ q[i + 1] = "sentinel"
            /\ \A j \in DOMAIN q : (q[j] \in Marks => j = i) /\ (q[j] = "sentinel" => j = i + 1)
        BY <1>4 DEF Unread
    <2>2. \A k \in DOMAIN w : w[k] \notin Marks
        BY <1>4 DEF Unread
    <2>3. Said(ok) \in Marks
        BY DEF Said, Marks
    <2>4. CASE i = 1
        <3>1. Told(v, ok)
            <4>1. Len(w) + 1 \in DOMAIN v /\ v[Len(w) + 1] = Said(ok)
                BY <1>2, <2>1, <2>4
            <4>2. \A j \in DOMAIN v : v[j] \in Marks => j = Len(w) + 1
                BY <1>2, <2>2
            <4> QED
                BY <4>1, <4>2 DEF Told
        <3>2. Len(q) >= 2
            BY <1>1, <2>1, <2>4
        <3>3. 1 \in DOMAIN r /\ r[1] = "sentinel"
            BY <1>1, <2>1, <2>4, <3>2
        <3>4. r # <<>>
            BY <3>3
        <3>5. \A j \in DOMAIN r : r[j] \notin Marks /\ (r[j] = "sentinel" => j = 1)
            <4> TAKE j \in DOMAIN r
            <4>1. j + 1 \in DOMAIN q /\ r[j] = q[j + 1] /\ j + 1 # 1 /\ j \in Nat
                BY <1>1
            <4> QED
                BY <2>1, <2>4, <4>1
        <3> QED
            BY <3>1, <3>3, <3>4, <3>5 DEF Half
    <2>5. CASE i # 1
        <3>1. i - 1 \in DOMAIN r /\ (i - 1) + 1 \in DOMAIN r
            BY <1>1, <2>1, <2>5
        <3>2. r[i - 1] = Said(ok) /\ r[(i - 1) + 1] = "sentinel"
            BY <1>1, <2>1, <3>1
        <3>3. \A j \in DOMAIN r : (r[j] \in Marks => j = i - 1) /\ (r[j] = "sentinel" => j = (i - 1) + 1)
            <4> TAKE j \in DOMAIN r
            <4>1. j + 1 \in DOMAIN q /\ r[j] = q[j + 1] /\ j \in Nat /\ i \in Nat
                BY <1>1, <2>1
            <4> QED
                BY <2>1, <4>1
        <3>4. q[1] \notin Marks
            BY <1>1, <2>1, <2>5
        <3>5. \A k \in DOMAIN v : v[k] \notin Marks
            BY <1>2, <2>2, <3>4
        <3> QED
            BY <3>1, <3>2, <3>3, <3>5 DEF Unread
    <2> QED
        BY <2>4, <2>5
<1>5. ~Half(q, w, ok)
    BY <1>1 DEF Half
<1> QED
    BY <1>1, <1>2, <1>3, <1>4, <1>5

(* The sentinel comes when the end has been read, and then only.           *)
LEMMA SentinelIsRead ==
    ASSUME NEW q \in Seq(Word), NEW w, NEW ok \in BOOLEAN, q # <<>>, Head(q) = "sentinel"
    PROVE  /\ ~Silent(q, w) /\ ~Unread(q, w, ok)
           /\ Half(q, w, ok) => Told(w, ok)
<1>1. /\ Len(q) \in Nat /\ Len(q) >= 1 /\ DOMAIN q = 1..Len(q) /\ q[1] = "sentinel"
    BY Shorter
<1>2. 1 \in DOMAIN q
    BY <1>1
<1>3. ~Unread(q, w, ok)
    <2> SUFFICES ASSUME Unread(q, w, ok) PROVE FALSE
        OBVIOUS
    <2>1. PICK i \in DOMAIN q : \A j \in DOMAIN q : q[j] = "sentinel" => j = i + 1
        BY DEF Unread
    <2> QED
        BY <1>1, <1>2, <2>1
<1> QED
    BY <1>1, <1>2, <1>3 DEF Silent, Half

(* What a step of caller c leaves of the others.                           *)
Alone(c) ==
    \A d \in Callers \ {c} :
        /\ eAt'[d] = eAt[d] /\ eJob'[d] = eJob[d] /\ eQueue'[d] = eQueue[d]
        /\ eReader'[d] = eReader[d] /\ eWire'[d] = eWire[d]

LEMMA OneMoves ==
    ASSUME KindInv, StreamInv, AgpInv, NEW c \in Callers, Alone(c),
           KindOf(c)', StreamOf(c)', AgpOf(c)'
    PROVE  KindInv' /\ StreamInv' /\ AgpInv'
<1>1. ASSUME NEW d \in Callers
      PROVE  KindOf(d)' /\ StreamOf(d)' /\ AgpOf(d)'
    <2>1. CASE d = c
        BY <2>1
    <2>2. CASE d # c
        <3>1. /\ eAt'[d] = eAt[d] /\ eJob'[d] = eJob[d] /\ eQueue'[d] = eQueue[d]
              /\ eReader'[d] = eReader[d] /\ eWire'[d] = eWire[d]
            BY <2>2 DEF Alone
        <3>2. KindOf(d) /\ StreamOf(d) /\ AgpOf(d)
            BY DEF KindInv, StreamInv, AgpInv
        <3>3. KindOf(d)'
            BY <3>1, <3>2 DEF KindOf, Calls!Streams
        <3>4. StreamOf(d)'
            BY <3>1, <3>2 DEF StreamOf
        <3>5. AgpOf(d)'
            BY <3>1, <3>2 DEF AgpOf
        <3> QED
            BY <3>3, <3>4, <3>5
    <2> QED
        BY <2>1, <2>2
<1> QED
    BY <1>1 DEF KindInv, StreamInv, AgpInv

LEMMA Goes ==
    ASSUME StateInv, NEW c \in Callers, NEW s \in Calls!Steps, Calls!Goto(c, s)
    PROVE  /\ eAt' \in [Callers -> Calls!Steps] /\ eAt'[c] = s
           /\ \A d \in Callers \ {c} : eAt'[d] = eAt[d]
BY DEF StateInv, Calls!Goto

LEMMA JobWritten ==
    ASSUME NEW f \in [Callers -> JobRecord], NEW c \in Callers, NEW r \in JobRecord,
           NEW g, g = [f EXCEPT ![c] = r]
    PROVE  /\ g \in [Callers -> JobRecord] /\ g[c] = r
           /\ \A d \in Callers \ {c} : g[d] = f[d]
OBVIOUS

LEMMA PutIs ==
    ASSUME StateInv, NEW c \in Callers, NEW es, eQueue' = Calls!Put(c, es),
           Calls!Streams(c) => eQueue[c] \o es \in Seq(Word)
    PROVE  /\ eQueue' \in [Callers -> Seq(Word)]
           /\ Calls!Streams(c) => eQueue'[c] = eQueue[c] \o es
           /\ ~Calls!Streams(c) => eQueue'[c] = eQueue[c]
           /\ \A d \in Callers \ {c} : eQueue'[d] = eQueue[d]
BY DEF StateInv, Calls!Put

(* A step on the way, that ends nothing and says nothing.                  *)
LEMMA Works ==
    ASSUME EntryInv, NEW c \in Callers, eAt[c] \notin {"idle"} \cup Calls!Over,
           NEW s \in Calls!Steps, s \notin {"idle"} \cup Calls!Over, s \in Pre => eJob[c].kind = "stream",
           eAt'[c] = s, \A d \in Callers \ {c} : eAt'[d] = eAt[d],
           eJob'[c].kind = eJob[c].kind, eJob'[c].ok = eJob[c].ok, eJob'[c].bg = eJob[c].bg,
           \A d \in Callers \ {c} : eJob'[d] = eJob[d],
           UNCHANGED <<eQueue, eReader, eWire>>
    PROVE  KindInv' /\ StreamInv' /\ AgpInv'
<1>1. KindOf(c) /\ StreamOf(c) /\ AgpOf(c) /\ KindInv /\ StreamInv /\ AgpInv
    BY DEF EntryInv, KindInv, StreamInv, AgpInv
<1>2. Alone(c)
    BY DEF Alone
<1>3. KindOf(c)'
    BY <1>1 DEF KindOf, Calls!Streams, Calls!Over
<1>4. StreamOf(c)'
    BY <1>1 DEF StreamOf
<1>5. AgpOf(c)'
    BY <1>1 DEF AgpOf
<1> QED
    BY <1>1, <1>2, <1>3, <1>4, <1>5, OneMoves

LEMMA LockKept ==
    ASSUME StateInv, LockInv, NEW c \in Callers, eAt'[c] \in Held <=> eAt[c] \in Held,
           \A d \in Callers \ {c} : eAt'[d] = eAt[d], eLock'.owner = eLock.owner
    PROVE  LockInv'
<1>1. eLock.owner \in Callers \cup {None}
    BY DEF StateInv, LockRecord
<1> QED
    BY <1>1 DEF LockInv

LEMMA LockReleased ==
    ASSUME Calls!EntryAssumption, StateInv, LockInv, NEW c \in Callers, eAt'[c] \notin Held,
           \A d \in Callers \ {c} : eAt'[d] = eAt[d], eLock' = Calls!Release(c)
    PROVE  LockInv' /\ eLock' \in LockRecord
<1>1. eLock.owner \in Callers \cup {None} /\ eLock \in LockRecord
    BY DEF StateInv, LockRecord
<1>2. CASE eLock.owner = c
    <2>1. eLock' = [eLock EXCEPT !.owner = None]
        BY <1>2 DEF Calls!Release
    <2>2. eLock' \in LockRecord /\ eLock'.owner = None
        BY <1>1, <2>1 DEF LockRecord
    <2>3. \A d \in Callers : eAt'[d] \notin Held
        BY <1>2 DEF LockInv
    <2> QED
        BY <2>2, <2>3 DEF LockInv
<1>3. CASE eLock.owner # c
    <2>1. eLock' = eLock
        BY <1>3 DEF Calls!Release
    <2> QED
        BY <1>1, <1>3, <2>1 DEF LockInv
<1> QED
    BY <1>2, <1>3

LEMMA BootReleased ==
    ASSUME StateInv, NEW c \in Callers,
           eBoot' = IF eBoot.by = c THEN [eBoot EXCEPT !.by = None] ELSE eBoot
    PROVE  eBoot' \in BootRecord
BY DEF StateInv, BootRecord

LEMMA CallKeeps ==
    ASSUME Calls!EntryAssumption, EntryInv, NEW c \in Callers, NEW k \in Kinds, Calls!Call(c, k)
    PROVE  EntryInv'
<1>0. StateInv /\ LockInv /\ KindInv /\ StreamInv /\ AgpInv /\ KindOf(c)
    BY DEF EntryInv, KindInv
<1> DEFINE s == IF k = "stream" THEN "try skills" ELSE "want"
           r == [eJob[c] EXCEPT !.kind = k]
<1>1. k \in {"ainvoke", "stream", "events", "agp", "invoke"}
    BY DEF Calls!EntryAssumption
<1>2. eJob[c] \in JobRecord /\ eAt[c] = "idle" /\ eJob[c].kind = None
    BY <1>0 DEF StateInv, Calls!Call, KindOf
<1>3. r \in JobRecord /\ r.kind = k /\ r.ok = eJob[c].ok /\ r.bg = eJob[c].bg
    BY <1>1, <1>2 DEF JobRecord
<1>4. eJob' = [eJob EXCEPT ![c] = r]
    BY DEF Calls!Call
<1> HIDE DEF r
<1>5. /\ eJob' \in [Callers -> JobRecord] /\ eJob'[c] = r
      /\ \A d \in Callers \ {c} : eJob'[d] = eJob[d]
    BY <1>0, <1>3, <1>4, JobWritten DEF StateInv
<1>6. s \in Calls!Steps /\ s # "idle" /\ s \notin Calls!Over /\ s \notin Held /\ (s \in Pre => k = "stream")
    BY DEF Calls!Steps, Calls!Over, Held, Pre
<1>7. Calls!Goto(c, s)
    BY DEF Calls!Call
<1> HIDE DEF s
<1>8. /\ eAt' \in [Callers -> Calls!Steps] /\ eAt'[c] = s
      /\ \A d \in Callers \ {c} : eAt'[d] = eAt[d]
    BY <1>0, <1>6, <1>7, Goes
<1>9. /\ eReader' \in [Callers -> {"none", "reading", "ended", "left"}]
      /\ eReader'[c] = IF k \in {"events", "agp"} THEN "reading" ELSE "none"
      /\ \A d \in Callers \ {c} : eReader'[d] = eReader[d]
    BY <1>0 DEF StateInv, Calls!Call
<1>10. <<"opened">> \in Seq(Word) /\ <<>> \in Seq(Word)
    BY DEF Word
<1>11. /\ eWire' \in [Callers -> Seq(Word)]
       /\ eWire'[c] = IF k = "agp" THEN <<"opened">> ELSE <<>>
       /\ \A d \in Callers \ {c} : eWire'[d] = eWire[d]
    BY <1>0, <1>10 DEF StateInv, Calls!Call
<1>12. UNCHANGED <<eLock, eBoot, eTracker, eQueue>>
    BY DEF Calls!Call
<1>13. eQueue[c] = <<>>
    BY <1>0, <1>2 DEF KindOf, Calls!Streams, Calls!EntryAssumption
<1>14. KindOf(c)'
    <2>1. "idle" \notin Calls!Over
        BY DEF Calls!Over
    <2>2. eJob[c].ok = FALSE /\ eJob[c].bg = "none"
        BY <1>0, <1>2, <2>1 DEF KindOf
    <2>3. (eReader'[c] # "none") <=> k \in {"events", "agp"}
        BY <1>9
    <2>4. Calls!Streams(c)' <=> k \in {"events", "agp"}
        BY <1>3, <1>5 DEF Calls!Streams
    <2>5. eReader'[c] \in {"reading", "none"}
        BY <1>9
    <2>6. s # "raised" /\ s # "cancelled"
        BY <1>6 DEF Calls!Over
    <2> QED
        BY <1>3, <1>5, <1>6, <1>8, <1>12, <1>13, <2>2, <2>3, <2>4, <2>5, <2>6 DEF KindOf
<1>15. Silent(<<>>, eWire'[c])
    BY <1>11 DEF Silent, Marks
<1>16. StreamOf(c)'
    BY <1>6, <1>8, <1>9, <1>12, <1>13, <1>15 DEF StreamOf
<1>17. AgpOf(c)'
    BY <1>3, <1>5, <1>9, <1>11 DEF AgpOf
<1>18. Alone(c)
    BY <1>5, <1>8, <1>9, <1>11, <1>12 DEF Alone
<1>19. KindInv' /\ StreamInv' /\ AgpInv'
    BY <1>0, <1>14, <1>16, <1>17, <1>18, OneMoves
<1>20. LockInv'
    <2>1. eAt[c] \notin Held
        BY <1>2 DEF Held
    <2> QED
        BY <1>0, <1>6, <1>8, <1>12, <2>1, LockKept
<1>21. StateInv'
    BY <1>0, <1>5, <1>8, <1>9, <1>11, <1>12 DEF StateInv
<1> QED
    BY <1>19, <1>20, <1>21 DEF EntryInv

LEMMA TakeTurnKeeps ==
    ASSUME Calls!EntryAssumption, EntryInv, NEW c \in Callers, Calls!TakeTurn(c)
    PROVE  EntryInv'
<1>0. StateInv /\ LockInv /\ KindInv /\ StreamInv /\ AgpInv /\ KindOf(c) /\ StreamOf(c) /\ AgpOf(c)
    BY DEF EntryInv, KindInv, StreamInv, AgpInv
<1>1. eAt[c] = "want" /\ UNCHANGED <<eJob, eBoot, eTracker, eQueue, eReader, eWire>>
    BY DEF Calls!TakeTurn
<1>2. eAt[c] \notin {"idle"} \cup Calls!Over /\ eAt[c] \notin Held /\ eAt[c] \notin Pre /\ eAt[c] \in Calls!Steps
    BY <1>1 DEF Calls!Over, Held, Pre, Calls!Steps
<1>3. eLock \in LockRecord /\ eLock.owner \in Callers \cup {None}
    BY <1>0 DEF StateInv, LockRecord
<1>4. CASE eLock.owner = None /\ eLock' = [eLock EXCEPT !.owner = c] /\ Calls!Goto(c, "skills")
    <2>1. "skills" \in Calls!Steps /\ "skills" \notin {"idle"} \cup Calls!Over /\ "skills" \notin Pre /\ "skills" \in Held
        BY DEF Calls!Steps, Calls!Over, Pre, Held
    <2>2. /\ eAt' \in [Callers -> Calls!Steps] /\ eAt'[c] = "skills"
          /\ \A d \in Callers \ {c} : eAt'[d] = eAt[d]
        BY <1>0, <1>4, <2>1, Goes
    <2>3. KindInv' /\ StreamInv' /\ AgpInv'
        BY <1>1, <1>2, <2>1, <2>2, Works
    <2>4. eLock' \in LockRecord /\ eLock'.owner = c
        BY <1>3, <1>4 DEF LockRecord
    <2>5. LockInv'
        BY <1>0, <1>4, <2>1, <2>2, <2>4 DEF LockInv, Calls!EntryAssumption
    <2> QED
        BY <1>0, <1>1, <2>2, <2>3, <2>4, <2>5 DEF EntryInv, StateInv
<1>5. CASE eLock' = [eLock EXCEPT !.contended = TRUE] /\ UNCHANGED eAt
    <2>1. KindInv' /\ StreamInv' /\ AgpInv'
        BY <1>1, <1>2, <1>5, Works
    <2>2. eLock' \in LockRecord /\ eLock'.owner = eLock.owner
        BY <1>3, <1>5 DEF LockRecord
    <2>3. LockInv'
        BY <1>0, <1>5, <2>2, LockKept
    <2> QED
        BY <1>0, <1>1, <1>5, <2>1, <2>2, <2>3 DEF EntryInv, StateInv
<1>6. CASE eJob[c].kind = "invoke" /\ Calls!Goto(c, "raised") /\ UNCHANGED eLock
    <2>1. "raised" \in Calls!Steps /\ "raised" \in Calls!Over /\ "raised" \notin Held /\ "raised" \notin Pre
        BY DEF Calls!Steps, Calls!Over, Held, Pre
    <2>2. /\ eAt' \in [Callers -> Calls!Steps] /\ eAt'[c] = "raised"
          /\ \A d \in Callers \ {c} : eAt'[d] = eAt[d]
        BY <1>0, <1>6, <2>1, Goes
    <2>3. ~Calls!Streams(c) /\ eReader[c] = "none"
        BY <1>0, <1>6 DEF KindOf, Calls!Streams
    <2>4. KindOf(c)'
        BY <1>0, <1>1, <1>6, <2>1, <2>2, <2>3 DEF KindOf, Calls!Streams
    <2>5. StreamOf(c)' /\ AgpOf(c)'
        BY <1>1, <1>6, <2>3 DEF StreamOf, AgpOf
    <2>6. Alone(c)
        BY <1>1, <2>2 DEF Alone
    <2>7. KindInv' /\ StreamInv' /\ AgpInv'
        BY <1>0, <2>4, <2>5, <2>6, OneMoves
    <2>8. LockInv'
        BY <1>0, <1>2, <1>6, <2>1, <2>2, LockKept
    <2> QED
        BY <1>0, <1>1, <1>6, <2>2, <2>7, <2>8 DEF EntryInv, StateInv
<1> QED
    BY <1>4, <1>5, <1>6 DEF Calls!TakeTurn

(* A step that goes on, or stays, with the lock as it is.                  *)
LEMMA GoesOn ==
    ASSUME EntryInv, NEW c \in Callers, eAt[c] \notin {"idle"} \cup Calls!Over,
           NEW s \in Calls!Steps, s \notin {"idle"} \cup Calls!Over, s \in Pre => eJob[c].kind = "stream",
           s \in Held <=> eAt[c] \in Held, Calls!Goto(c, s) \/ (UNCHANGED eAt /\ s = eAt[c]),
           NEW r \in JobRecord, eJob' = [eJob EXCEPT ![c] = r],
           r.kind = eJob[c].kind, r.ok = eJob[c].ok, r.bg = eJob[c].bg,
           UNCHANGED <<eLock, eQueue, eReader, eWire>>,
           eBoot' \in BootRecord, eTracker' \in Callers \cup {None}
    PROVE  EntryInv'
<1>0. StateInv /\ LockInv
    BY DEF EntryInv
<1>1. /\ eAt' \in [Callers -> Calls!Steps] /\ eAt'[c] = s
      /\ \A d \in Callers \ {c} : eAt'[d] = eAt[d]
    <2>1. CASE Calls!Goto(c, s)
        BY <1>0, <2>1, Goes
    <2>2. CASE UNCHANGED eAt /\ s = eAt[c]
        BY <1>0, <2>2 DEF StateInv
    <2> QED
        BY <2>1, <2>2
<1>2. /\ eJob' \in [Callers -> JobRecord] /\ eJob'[c] = r
      /\ \A d \in Callers \ {c} : eJob'[d] = eJob[d]
    BY <1>0, JobWritten DEF StateInv
<1>3. KindInv' /\ StreamInv' /\ AgpInv'
    BY <1>1, <1>2, Works
<1>4. LockInv'
    BY <1>0, <1>1, LockKept
<1> QED
    BY <1>0, <1>1, <1>2, <1>3, <1>4 DEF EntryInv, StateInv

(* The same without a change of the job.                                   *)
LEMMA JobStays ==
    ASSUME StateInv, NEW c \in Callers, UNCHANGED eJob
    PROVE  eJob[c] \in JobRecord /\ eJob' = [eJob EXCEPT ![c] = eJob[c]]
BY DEF StateInv

LEMMA AfterIs ==
    ASSUME NEW c \in Callers, NEW s, NEW try
    PROVE  /\ Calls!Trying(c) => Calls!After(c, s, try) = try
           /\ ~Calls!Trying(c) => Calls!After(c, s, try) = s
BY DEF Calls!After

LEMMA EnsureSkillsKeeps ==
    ASSUME Calls!EntryAssumption, EntryInv, NEW c \in Callers, Calls!EnsureSkills(c)
    PROVE  EntryInv'
<1>0. StateInv /\ KindOf(c) /\ eBoot \in BootRecord /\ eTracker \in Callers \cup {None}
    BY DEF EntryInv, KindInv, StateInv
<1>1. eAt[c] \in {"skills", "try skills"} /\ UNCHANGED <<eJob, eLock, eTracker, eQueue, eReader, eWire>>
    BY DEF Calls!EnsureSkills
<1> DEFINE s == Calls!After(c, "harness", "try harness")
<1>2. eAt[c] \notin {"idle"} \cup Calls!Over /\ eAt[c] \in Calls!Steps
    BY <1>1 DEF Calls!Over, Calls!Steps
<1>3. eAt[c] \in Pre => eJob[c].kind = "stream"
    BY <1>0 DEF KindOf
<1>4. Calls!Trying(c) <=> eAt[c] = "try skills"
    BY <1>1, <1>3 DEF Calls!Trying, Pre
<1>5. /\ s \in Calls!Steps /\ s \notin {"idle"} \cup Calls!Over /\ (s \in Pre => eJob[c].kind = "stream")
      /\ (s \in Held <=> eAt[c] \in Held)
    <2>1. CASE eAt[c] = "try skills"
        <3>1. s = "try harness" /\ eJob[c].kind = "stream"
            BY <1>3, <1>4, <2>1, AfterIs DEF Pre
        <3> QED
            BY <2>1, <3>1 DEF Calls!Steps, Calls!Over, Pre, Held
    <2>2. CASE eAt[c] = "skills"
        <3>1. s = "harness"
            BY <1>4, <2>2, AfterIs
        <3> QED
            BY <2>2, <3>1 DEF Calls!Steps, Calls!Over, Pre, Held
    <2> QED
        BY <1>1, <2>1, <2>2
<1> HIDE DEF s
<1>6. eJob[c] \in JobRecord /\ eJob' = [eJob EXCEPT ![c] = eJob[c]]
    BY <1>0, <1>1, JobStays
<1>7. CASE Calls!Goto(c, s) /\ UNCHANGED eBoot
    BY <1>0, <1>1, <1>2, <1>5, <1>6, <1>7, GoesOn
<1>8. CASE eBoot' = [eBoot EXCEPT !.by = c, !.runs = @ + 1] /\ UNCHANGED eAt
    <2>1. eBoot.runs + 1 \in Nat
        BY <1>0 DEF BootRecord
    <2>2. eBoot' \in BootRecord
        BY <1>0, <1>8, <2>1 DEF BootRecord
    <2> QED
        BY <1>0, <1>1, <1>2, <1>3, <1>6, <1>8, <2>2, GoesOn
<1>9. CASE eBoot' = [eBoot EXCEPT !.by = None, !.done = TRUE] /\ Calls!Goto(c, s)
    <2>1. eBoot' \in BootRecord
        BY <1>0, <1>9 DEF BootRecord
    <2> QED
        BY <1>0, <1>1, <1>2, <1>5, <1>6, <1>9, <2>1, GoesOn
<1> QED
    BY <1>7, <1>8, <1>9 DEF Calls!EnsureSkills, s

LEMMA EnsureHarnessKeeps ==
    ASSUME Calls!EntryAssumption, EntryInv, NEW c \in Callers, Calls!EnsureHarness(c)
    PROVE  EntryInv'
<1>0. StateInv /\ KindOf(c) /\ eBoot \in BootRecord /\ eTracker \in Callers \cup {None} /\ eJob[c] \in JobRecord
    BY DEF EntryInv, KindInv, StateInv
<1>1. eAt[c] \in {"harness", "try harness"} /\ UNCHANGED <<eLock, eBoot, eQueue, eReader, eWire>>
    BY DEF Calls!EnsureHarness
<1> DEFINE s == Calls!After(c, "bind", "try bind")
<1>2. eAt[c] \notin {"idle"} \cup Calls!Over /\ eAt[c] \in Calls!Steps
    BY <1>1 DEF Calls!Over, Calls!Steps
<1>3. eAt[c] \in Pre => eJob[c].kind = "stream"
    BY <1>0 DEF KindOf
<1>4. Calls!Trying(c) <=> eAt[c] = "try harness"
    BY <1>1, <1>3 DEF Calls!Trying, Pre
<1>5. /\ s \in Calls!Steps /\ s \notin {"idle"} \cup Calls!Over /\ (s \in Pre => eJob[c].kind = "stream")
      /\ (s \in Held <=> eAt[c] \in Held)
    <2>1. CASE eAt[c] = "try harness"
        <3>1. s = "try bind" /\ eJob[c].kind = "stream"
            BY <1>3, <1>4, <2>1, AfterIs DEF Pre
        <3> QED
            BY <2>1, <3>1 DEF Calls!Steps, Calls!Over, Pre, Held
    <2>2. CASE eAt[c] = "harness"
        <3>1. s = "bind"
            BY <1>4, <2>2, AfterIs
        <3> QED
            BY <2>2, <3>1 DEF Calls!Steps, Calls!Over, Pre, Held
    <2> QED
        BY <1>1, <2>1, <2>2
<1> HIDE DEF s
<1>6. CASE eJob' = [eJob EXCEPT ![c].tracker = c] /\ UNCHANGED <<eAt, eTracker>>
    <2> DEFINE r == [eJob[c] EXCEPT !.tracker = c]
    <2>1. r \in JobRecord /\ r.kind = eJob[c].kind /\ r.ok = eJob[c].ok /\ r.bg = eJob[c].bg
        BY <1>0 DEF JobRecord
    <2>2. eJob' = [eJob EXCEPT ![c] = r]
        BY <1>6
    <2> HIDE DEF r
    <2> QED
        BY <1>0, <1>1, <1>2, <1>3, <1>6, <2>1, <2>2, GoesOn
<1>7. CASE /\ eJob' = [eJob EXCEPT ![c].tracker = IF @ = None THEN eTracker ELSE @]
           /\ eTracker' = eJob'[c].tracker /\ Calls!Goto(c, s)
    <2> DEFINE n == IF eJob[c].tracker = None THEN eTracker ELSE eJob[c].tracker
               r == [eJob[c] EXCEPT !.tracker = n]
    <2>1. n \in Callers \cup {None}
        BY <1>0 DEF JobRecord
    <2>2. eJob' = [eJob EXCEPT ![c] = r]
        BY <1>7
    <2> HIDE DEF n
    <2>3. r \in JobRecord /\ r.kind = eJob[c].kind /\ r.ok = eJob[c].ok /\ r.bg = eJob[c].bg /\ r.tracker = n
        BY <1>0, <2>1 DEF JobRecord
    <2> HIDE DEF r
    <2>4. eJob'[c] = r
        BY <1>0, <2>2, <2>3, JobWritten DEF StateInv
    <2>5. eTracker' \in Callers \cup {None}
        BY <1>7, <2>1, <2>3, <2>4
    <2> QED
        BY <1>0, <1>1, <1>2, <1>5, <1>7, <2>2, <2>3, <2>5, GoesOn
<1> QED
    BY <1>6, <1>7 DEF Calls!EnsureHarness, s

LEMMA BindHarnessKeeps ==
    ASSUME Calls!EntryAssumption, EntryInv, NEW c \in Callers, Calls!BindHarness(c)
    PROVE  EntryInv'
<1>0. StateInv /\ KindOf(c) /\ eBoot \in BootRecord /\ eTracker \in Callers \cup {None} /\ eJob[c] \in JobRecord
    BY DEF EntryInv, KindInv, StateInv
<1>1. eAt[c] \in {"bind", "try bind"} /\ UNCHANGED <<eLock, eBoot, eTracker, eQueue, eReader, eWire>>
    BY DEF Calls!BindHarness
<1> DEFINE s == IF Calls!Trying(c) THEN "try plan" ELSE "turn"
           n == IF Calls!Trying(c) THEN None ELSE eTracker
           r == [eJob[c] EXCEPT !.tracker = n]
<1>2. eAt[c] \notin {"idle"} \cup Calls!Over /\ eAt[c] \in Calls!Steps
    BY <1>1 DEF Calls!Over, Calls!Steps
<1>3. eAt[c] \in Pre => eJob[c].kind = "stream"
    BY <1>0 DEF KindOf
<1>4. Calls!Trying(c) <=> eAt[c] = "try bind"
    BY <1>1, <1>3 DEF Calls!Trying, Pre
<1>5. /\ s \in Calls!Steps /\ s \notin {"idle"} \cup Calls!Over /\ (s \in Pre => eJob[c].kind = "stream")
      /\ (s \in Held <=> eAt[c] \in Held)
    BY <1>1, <1>3, <1>4 DEF Calls!Steps, Calls!Over, Pre, Held
<1>6. eJob' = [eJob EXCEPT ![c] = r] /\ Calls!Goto(c, s) /\ n \in Callers \cup {None}
    BY <1>0 DEF Calls!BindHarness
<1> HIDE DEF s, n
<1>7. r \in JobRecord /\ r.kind = eJob[c].kind /\ r.ok = eJob[c].ok /\ r.bg = eJob[c].bg
    BY <1>0, <1>6 DEF JobRecord
<1> HIDE DEF r
<1> QED
    BY <1>0, <1>1, <1>2, <1>5, <1>6, <1>7, GoesOn

LEMMA TryPlanKeeps ==
    ASSUME Calls!EntryAssumption, EntryInv, NEW c \in Callers, NEW direct \in BOOLEAN, Calls!TryPlan(c, direct)
    PROVE  EntryInv'
<1>0. StateInv /\ KindOf(c) /\ eBoot \in BootRecord /\ eTracker \in Callers \cup {None} /\ eJob[c] \in JobRecord
    BY DEF EntryInv, KindInv, StateInv
<1> DEFINE streams == direct /\ ~Gates
           s == IF streams THEN "chunks" ELSE "want"
           n == eJob[c].before + 1
           x == IF streams THEN "raw" ELSE None
           r == [eJob[c] EXCEPT !.before = n, !.text = x]
<1>1. eAt[c] = "try plan" /\ UNCHANGED <<eLock, eBoot, eTracker, eQueue, eReader, eWire>>
    BY DEF Calls!TryPlan
<1>2. eAt[c] \notin {"idle"} \cup Calls!Over /\ eAt[c] \in Calls!Steps /\ eAt[c] \notin Held
    BY <1>1 DEF Calls!Over, Calls!Steps, Held
<1>3. eJob[c].kind = "stream"
    BY <1>0, <1>1 DEF KindOf, Pre
<1>4. s \in Calls!Steps /\ s \notin {"idle"} \cup Calls!Over /\ s \notin Held
    BY DEF Calls!Steps, Calls!Over, Held
<1>5. n \in Nat /\ x \in {None, "raw", "processed"}
    BY <1>0 DEF JobRecord
<1>6. eJob' = [eJob EXCEPT ![c] = r] /\ Calls!Goto(c, s)
    BY <1>0 DEF Calls!TryPlan, StateInv
<1> HIDE DEF s, n, x
<1>7. r \in JobRecord /\ r.kind = eJob[c].kind /\ r.ok = eJob[c].ok /\ r.bg = eJob[c].bg
    BY <1>0, <1>5 DEF JobRecord
<1> HIDE DEF r
<1> QED
    BY <1>0, <1>1, <1>2, <1>3, <1>4, <1>6, <1>7, GoesOn

LEMMA TryFailsKeeps ==
    ASSUME Calls!EntryAssumption, EntryInv, NEW c \in Callers, Calls!TryFails(c)
    PROVE  EntryInv'
<1>0. StateInv /\ KindOf(c) /\ eTracker \in Callers \cup {None} /\ eJob[c] \in JobRecord
    BY DEF EntryInv, KindInv, StateInv
<1> DEFINE r == [eJob[c] EXCEPT !.tracker = None]
<1>1. /\ eAt[c] \in {"try skills", "try harness", "try bind", "try plan"}
      /\ Calls!Goto(c, "want") /\ eJob' = [eJob EXCEPT ![c] = r]
      /\ UNCHANGED <<eLock, eTracker, eQueue, eReader, eWire>>
    BY DEF Calls!TryFails, Calls!Trying
<1>2. eAt[c] \notin {"idle"} \cup Calls!Over /\ eAt[c] \in Calls!Steps /\ eAt[c] \notin Held
    BY <1>1 DEF Calls!Over, Calls!Steps, Held
<1>3. "want" \in Calls!Steps /\ "want" \notin {"idle"} \cup Calls!Over /\ "want" \notin Held /\ "want" \notin Pre
    BY DEF Calls!Steps, Calls!Over, Held, Pre
<1>4. r \in JobRecord /\ r.kind = eJob[c].kind /\ r.ok = eJob[c].ok /\ r.bg = eJob[c].bg
    BY <1>0 DEF JobRecord
<1> HIDE DEF r
<1>5. eBoot' \in BootRecord
    BY <1>0, BootReleased DEF Calls!TryFails
<1> QED
    BY <1>0, <1>1, <1>2, <1>3, <1>4, <1>5, GoesOn

LEMMA StreamDirectKeeps ==
    ASSUME Calls!EntryAssumption, EntryInv, NEW c \in Callers, NEW ok \in BOOLEAN, Calls!StreamDirect(c, ok)
    PROVE  EntryInv'
<1>0. StateInv /\ LockInv /\ KindInv /\ StreamInv /\ AgpInv /\ KindOf(c)
    BY DEF EntryInv, KindInv
<1> DEFINE s == IF ok THEN "end" ELSE "raised"
<1>1. eAt[c] = "chunks" /\ Calls!Goto(c, s) /\ UNCHANGED <<eJob, eLock, eBoot, eTracker, eQueue, eReader, eWire>>
    BY DEF Calls!StreamDirect
<1>2. eAt[c] \notin Held /\ s \in Calls!Steps /\ s \in Calls!Over /\ s \notin Held /\ s \notin Pre /\ s # "idle"
    BY <1>1 DEF Calls!Steps, Held, Calls!Over, Pre
<1> HIDE DEF s
<1>3. /\ eAt' \in [Callers -> Calls!Steps] /\ eAt'[c] = s
      /\ \A d \in Callers \ {c} : eAt'[d] = eAt[d]
    BY <1>0, <1>1, <1>2, Goes
<1>4. eJob[c].kind = "stream"
    BY <1>0, <1>1 DEF KindOf, Pre
<1>5. ~Calls!Streams(c) /\ eReader[c] = "none"
    BY <1>0, <1>4 DEF KindOf, Calls!Streams
<1>6. KindOf(c)'
    BY <1>0, <1>1, <1>2, <1>3, <1>4, <1>5 DEF KindOf, Calls!Streams
<1>7. StreamOf(c)' /\ AgpOf(c)'
    BY <1>1, <1>4, <1>5 DEF StreamOf, AgpOf
<1>8. Alone(c)
    BY <1>1, <1>3 DEF Alone
<1>9. KindInv' /\ StreamInv' /\ AgpInv'
    BY <1>0, <1>6, <1>7, <1>8, OneMoves
<1>10. LockInv'
    BY <1>0, <1>1, <1>2, <1>3, LockKept
<1> QED
    BY <1>0, <1>1, <1>3, <1>9, <1>10 DEF EntryInv, StateInv

LEMMA RunTurnKeeps ==
    ASSUME Calls!EntryAssumption, EntryInv, NEW c \in Callers, Calls!RunTurn(c)
    PROVE  EntryInv'
<1>0. /\ StateInv /\ LockInv /\ KindInv /\ StreamInv /\ AgpInv
      /\ KindOf(c) /\ StreamOf(c) /\ AgpOf(c) /\ eJob[c] \in JobRecord
    BY DEF EntryInv, KindInv, StreamInv, AgpInv, StateInv
<1> DEFINE n == eJob[c].before + 1
           r == [eJob[c] EXCEPT !.before = n, !.text = "processed"]
<1>1. /\ eAt[c] = "turn" /\ eJob' = [eJob EXCEPT ![c] = r] /\ eQueue' = Calls!Put(c, <<"event">>)
      /\ UNCHANGED <<eAt, eLock, eBoot, eTracker, eReader, eWire>>
    BY <1>0 DEF Calls!RunTurn, StateInv
<1>2. n \in Nat
    BY <1>0 DEF JobRecord
<1> HIDE DEF n
<1>3. r \in JobRecord /\ r.kind = eJob[c].kind /\ r.ok = eJob[c].ok /\ r.bg = eJob[c].bg
    BY <1>0, <1>2 DEF JobRecord
<1> HIDE DEF r
<1>4. /\ eJob' \in [Callers -> JobRecord] /\ eJob'[c] = r
      /\ \A d \in Callers \ {c} : eJob'[d] = eJob[d]
    BY <1>0, <1>1, <1>3, JobWritten DEF StateInv
<1>5. eQueue[c] \in Seq(Word) /\ "event" \in Word
    BY <1>0 DEF StateInv, Word
<1>6. eQueue[c] \o <<"event">> \in Seq(Word)
    BY <1>5, Longer
<1>7. /\ eQueue' \in [Callers -> Seq(Word)]
      /\ Calls!Streams(c) => eQueue'[c] = eQueue[c] \o <<"event">>
      /\ ~Calls!Streams(c) => eQueue'[c] = eQueue[c]
      /\ \A d \in Callers \ {c} : eQueue'[d] = eQueue[d]
    BY <1>0, <1>1, <1>6, PutIs
<1>8. eAt[c] \notin Calls!Over
    BY <1>1 DEF Calls!Over
<1>9. KindOf(c)'
    BY <1>0, <1>1, <1>3, <1>4, <1>7, <1>8 DEF KindOf, Calls!Streams
<1>10. StreamOf(c)'
    <2>1. CASE eReader[c] = "reading"
        <3>1. Calls!Streams(c) /\ Silent(eQueue[c], eWire[c])
            BY <1>0, <1>8, <2>1 DEF KindOf, StreamOf
        <3>2. Silent(eQueue'[c], eWire[c])
            BY <1>5, <1>7, <3>1, EventKeepsSilence
        <3> QED
            BY <1>1, <1>8, <2>1, <3>2 DEF StreamOf
    <2>2. CASE eReader[c] # "reading"
        BY <1>0, <1>1, <1>3, <1>4, <2>2 DEF StreamOf
    <2> QED
        BY <2>1, <2>2
<1>11. AgpOf(c)'
    BY <1>0, <1>1, <1>3, <1>4 DEF AgpOf
<1>12. Alone(c)
    BY <1>1, <1>4, <1>7 DEF Alone
<1>13. KindInv' /\ StreamInv' /\ AgpInv'
    BY <1>0, <1>9, <1>10, <1>11, <1>12, OneMoves
<1>14. LockInv'
    BY <1>0, <1>1 DEF LockInv
<1> QED
    BY <1>0, <1>1, <1>4, <1>7, <1>13, <1>14 DEF EntryInv, StateInv

(* The end of a producer: done or error, then the sentinel.                *)
LEMMA Ends ==
    ASSUME Calls!EntryAssumption, EntryInv, NEW c \in Callers, eAt[c] \notin {"idle"} \cup Calls!Over \cup Pre,
           NEW ok \in BOOLEAN, NEW s, s = (IF ok \/ Calls!Streams(c) THEN "end" ELSE "raised"), Calls!Goto(c, s),
           NEW r \in JobRecord, r.kind = eJob[c].kind, r.ok = ok, eJob' = [eJob EXCEPT ![c] = r],
           eQueue' = Calls!Put(c, <<Said(ok), "sentinel">>),
           eLock' = Calls!Release(c), eBoot' \in BootRecord, UNCHANGED <<eTracker, eReader, eWire>>
    PROVE  EntryInv'
<1>0. /\ StateInv /\ LockInv /\ KindInv /\ StreamInv /\ AgpInv
      /\ KindOf(c) /\ StreamOf(c) /\ AgpOf(c)
    BY DEF EntryInv, KindInv, StreamInv, AgpInv
<1>1. s \in Calls!Steps /\ s \in Calls!Over /\ s \notin Held /\ s \notin Pre /\ s # "idle" /\ s # "cancelled"
    BY DEF Calls!Steps, Calls!Over, Held, Pre
<1>2. /\ eAt' \in [Callers -> Calls!Steps] /\ eAt'[c] = s
      /\ \A d \in Callers \ {c} : eAt'[d] = eAt[d]
    BY <1>0, <1>1, Goes
<1>3. /\ eJob' \in [Callers -> JobRecord] /\ eJob'[c] = r
      /\ \A d \in Callers \ {c} : eJob'[d] = eJob[d]
    BY <1>0, JobWritten DEF StateInv
<1>4. eQueue[c] \in Seq(Word) /\ Said(ok) \in Word /\ "sentinel" \in Word
    BY <1>0 DEF StateInv, Word, Said
<1>5. eQueue[c] \o <<Said(ok), "sentinel">> \in Seq(Word)
    BY <1>4, LongerByTwo
<1>6. /\ eQueue' \in [Callers -> Seq(Word)]
      /\ Calls!Streams(c) => eQueue'[c] = eQueue[c] \o <<Said(ok), "sentinel">>
      /\ ~Calls!Streams(c) => eQueue'[c] = eQueue[c]
      /\ \A d \in Callers \ {c} : eQueue'[d] = eQueue[d]
    BY <1>0, <1>5, PutIs
<1>7. eAt[c] \notin Calls!Over
    OBVIOUS
<1>8. eReader[c] # "left" /\ eReader[c] # "ended"
    BY <1>0, <1>7 DEF KindOf, Calls!Over
<1>9. Calls!Streams(c)' <=> Calls!Streams(c)
    BY <1>3 DEF Calls!Streams
<1>10. KindOf(c)'
    BY <1>0, <1>1, <1>2, <1>3, <1>6, <1>8, <1>9 DEF KindOf
<1>11. StreamOf(c)'
    <2>1. CASE eReader[c] = "reading"
        <3>1. Calls!Streams(c) /\ Silent(eQueue[c], eWire[c])
            BY <1>0, <1>7, <2>1 DEF KindOf, StreamOf
        <3>2. Unread(eQueue'[c], eWire[c], ok)
            BY <1>4, <1>6, <3>1, EndIsSaid
        <3> QED
            BY <1>1, <1>2, <1>3, <2>1, <3>2 DEF StreamOf
    <2>2. CASE eReader[c] # "reading"
        BY <1>8, <2>2 DEF StreamOf
    <2> QED
        BY <2>1, <2>2
<1>12. AgpOf(c)'
    BY <1>0, <1>3, <1>8 DEF AgpOf
<1>13. Alone(c)
    BY <1>2, <1>3, <1>6 DEF Alone
<1>14. KindInv' /\ StreamInv' /\ AgpInv'
    BY <1>0, <1>10, <1>11, <1>12, <1>13, OneMoves
<1>15. LockInv' /\ eLock' \in LockRecord
    BY <1>0, <1>1, <1>2, LockReleased
<1> QED
    BY <1>0, <1>2, <1>3, <1>6, <1>14, <1>15 DEF EntryInv, StateInv

LEMMA EndTurnKeeps ==
    ASSUME Calls!EntryAssumption, EntryInv, NEW c \in Callers, NEW ok \in BOOLEAN, Calls!EndTurn(c, ok)
    PROVE  EntryInv'
<1>0. eJob[c] \in JobRecord /\ eBoot \in BootRecord
    BY DEF EntryInv, StateInv
<1> DEFINE b == IF ok /\ Learns THEN "running" ELSE "none"
           s == IF ok \/ Calls!Streams(c) THEN "end" ELSE "raised"
           r == [eJob[c] EXCEPT !.ok = ok, !.bg = b]
<1>1. /\ eAt[c] = "turn" /\ Calls!Goto(c, s) /\ eJob' = [eJob EXCEPT ![c] = r]
      /\ eQueue' = Calls!Put(c, <<Said(ok), "sentinel">>)
      /\ eLock' = Calls!Release(c) /\ UNCHANGED <<eBoot, eTracker, eReader, eWire>>
    BY <1>0 DEF Calls!EndTurn, Said, EntryInv, StateInv
<1>2. b \in {"none", "running", "saved"}
    OBVIOUS
<1> HIDE DEF b, s
<1>3. r \in JobRecord /\ r.kind = eJob[c].kind /\ r.ok = ok
    BY <1>0, <1>2 DEF JobRecord
<1> HIDE DEF r
<1>4. eAt[c] \notin {"idle"} \cup Calls!Over \cup Pre
    BY <1>1 DEF Calls!Over, Pre
<1>5. s = IF ok \/ Calls!Streams(c) THEN "end" ELSE "raised"
    BY DEF s
<1> QED
    BY <1>0, <1>1, <1>3, <1>4, <1>5, Ends

LEMMA PrepareFailsKeeps ==
    ASSUME Calls!EntryAssumption, EntryInv, NEW c \in Callers, Calls!PrepareFails(c)
    PROVE  EntryInv'
<1>0. StateInv /\ KindOf(c) /\ eJob[c] \in JobRecord
    BY DEF EntryInv, StateInv, KindInv
<1> DEFINE s == IF FALSE \/ Calls!Streams(c) THEN "end" ELSE "raised"
<1>1. /\ eAt[c] \in {"skills", "harness", "bind"} /\ Calls!Goto(c, s)
      /\ eQueue' = Calls!Put(c, <<"error", "sentinel">>)
      /\ eLock' = Calls!Release(c) /\ UNCHANGED <<eJob, eTracker, eReader, eWire>>
    BY DEF Calls!PrepareFails
<1>2. Said(FALSE) = "error"
    BY DEF Said
<1>3. eJob' = [eJob EXCEPT ![c] = eJob[c]]
    BY <1>0, <1>1, JobStays
<1>4. eAt[c] \notin {"idle"} \cup Calls!Over \cup Pre
    BY <1>1 DEF Calls!Over, Pre
<1>5. eJob[c].ok = FALSE
    BY <1>0, <1>4 DEF KindOf
<1>6. eBoot' \in BootRecord
    BY <1>0, BootReleased DEF Calls!PrepareFails
<1>7. eQueue' = Calls!Put(c, <<Said(FALSE), "sentinel">>)
    BY <1>1, <1>2
<1>8. s = IF FALSE \/ Calls!Streams(c) THEN "end" ELSE "raised"
    OBVIOUS
<1> HIDE DEF s
<1> QED
    BY <1>0, <1>1, <1>3, <1>4, <1>5, <1>6, <1>7, <1>8, Ends

LEMMA LearnSkillKeeps ==
    ASSUME Calls!EntryAssumption, EntryInv, NEW c \in Callers, Calls!LearnSkill(c)
    PROVE  EntryInv'
<1>0. /\ StateInv /\ LockInv /\ KindInv /\ StreamInv /\ AgpInv
      /\ KindOf(c) /\ StreamOf(c) /\ AgpOf(c) /\ eJob[c] \in JobRecord
    BY DEF EntryInv, KindInv, StreamInv, AgpInv, StateInv
<1> DEFINE r == [eJob[c] EXCEPT !.bg = "saved"]
<1>1. /\ eJob[c].bg = "running" /\ eJob' = [eJob EXCEPT ![c] = r] /\ eQueue' = Calls!Put(c, <<"skill">>)
      /\ UNCHANGED <<eAt, eLock, eBoot, eTracker, eReader, eWire>>
    BY DEF Calls!LearnSkill
<1>2. r \in JobRecord /\ r.kind = eJob[c].kind /\ r.ok = eJob[c].ok
    BY <1>0 DEF JobRecord
<1> HIDE DEF r
<1>3. /\ eJob' \in [Callers -> JobRecord] /\ eJob'[c] = r
      /\ \A d \in Callers \ {c} : eJob'[d] = eJob[d]
    BY <1>0, <1>1, <1>2, JobWritten DEF StateInv
<1>4. eQueue[c] \in Seq(Word) /\ "skill" \in Word
    BY <1>0 DEF StateInv, Word
<1>5. eQueue[c] \o <<"skill">> \in Seq(Word)
    BY <1>4, Longer
<1>6. /\ eQueue' \in [Callers -> Seq(Word)]
      /\ Calls!Streams(c) => eQueue'[c] = eQueue[c] \o <<"skill">>
      /\ ~Calls!Streams(c) => eQueue'[c] = eQueue[c]
      /\ \A d \in Callers \ {c} : eQueue'[d] = eQueue[d]
    BY <1>0, <1>1, <1>5, PutIs
<1>7. eAt[c] \in Calls!Over
    BY <1>0, <1>1 DEF KindOf
<1>8. KindOf(c)'
    BY <1>0, <1>1, <1>2, <1>3, <1>6, <1>7 DEF KindOf, Calls!Streams
<1>9. StreamOf(c)'
    <2>1. CASE eReader[c] = "reading"
        <3>1. Calls!Streams(c) /\ (Unread(eQueue[c], eWire[c], eJob[c].ok) \/ Half(eQueue[c], eWire[c], eJob[c].ok))
            BY <1>0, <1>7, <2>1 DEF KindOf, StreamOf
        <3>2. Unread(eQueue'[c], eWire[c], eJob[c].ok) \/ Half(eQueue'[c], eWire[c], eJob[c].ok)
            BY <1>4, <1>6, <3>1, SkillComesLate
        <3> QED
            BY <1>1, <1>2, <1>3, <1>7, <2>1, <3>2 DEF StreamOf
    <2>2. CASE eReader[c] # "reading"
        BY <1>0, <1>1, <1>2, <1>3, <2>2 DEF StreamOf
    <2> QED
        BY <2>1, <2>2
<1>10. AgpOf(c)'
    BY <1>0, <1>1, <1>2, <1>3 DEF AgpOf
<1>11. Alone(c)
    BY <1>1, <1>3, <1>6 DEF Alone
<1>12. KindInv' /\ StreamInv' /\ AgpInv'
    BY <1>0, <1>8, <1>9, <1>10, <1>11, OneMoves
<1>13. LockInv'
    BY <1>0, <1>1 DEF LockInv
<1> QED
    BY <1>0, <1>1, <1>3, <1>6, <1>12, <1>13 DEF EntryInv, StateInv

LEMMA EntryCancelKeeps ==
    ASSUME Calls!EntryAssumption, EntryInv, NEW c \in Callers, Calls!Cancel(c)
    PROVE  EntryInv'
<1>0. /\ StateInv /\ LockInv /\ KindInv /\ StreamInv /\ AgpInv
      /\ KindOf(c) /\ StreamOf(c) /\ AgpOf(c)
    BY DEF EntryInv, KindInv, StreamInv, AgpInv
<1>1. /\ eAt[c] \notin {"idle"} \cup Calls!Over /\ Calls!Goto(c, "cancelled") /\ eLock' = Calls!Release(c)
      /\ UNCHANGED <<eJob, eTracker, eQueue, eWire>>
    BY DEF Calls!Cancel
<1>2. "cancelled" \in Calls!Steps /\ "cancelled" \in Calls!Over /\ "cancelled" \notin Held /\ "cancelled" \notin Pre
    BY DEF Calls!Steps, Calls!Over, Held, Pre
<1>3. /\ eAt' \in [Callers -> Calls!Steps] /\ eAt'[c] = "cancelled"
      /\ \A d \in Callers \ {c} : eAt'[d] = eAt[d]
    BY <1>0, <1>1, <1>2, Goes
<1>4. /\ eReader' \in [Callers -> {"none", "reading", "ended", "left"}]
      /\ eReader'[c] = IF eReader[c] = "reading" THEN "left" ELSE eReader[c]
      /\ \A d \in Callers \ {c} : eReader'[d] = eReader[d]
    BY <1>0 DEF StateInv, Calls!Cancel
<1>5. eReader[c] \in {"none", "reading"}
    BY <1>0, <1>1 DEF KindOf, Calls!Over, StateInv
<1>6. KindOf(c)'
    BY <1>0, <1>1, <1>2, <1>3, <1>4, <1>5 DEF KindOf, Calls!Streams
<1>7. StreamOf(c)' /\ AgpOf(c)'
    BY <1>0, <1>1, <1>4, <1>5 DEF StreamOf, AgpOf
<1>8. Alone(c)
    BY <1>1, <1>3, <1>4 DEF Alone
<1>9. KindInv' /\ StreamInv' /\ AgpInv'
    BY <1>0, <1>6, <1>7, <1>8, OneMoves
<1>10. LockInv' /\ eLock' \in LockRecord
    BY <1>0, <1>1, <1>2, <1>3, LockReleased
<1>11. eBoot' \in BootRecord
    BY <1>0, BootReleased DEF Calls!Cancel
<1> QED
    BY <1>0, <1>1, <1>3, <1>4, <1>9, <1>10, <1>11 DEF EntryInv, StateInv

LEMMA ReadKeeps ==
    ASSUME Calls!EntryAssumption, EntryInv, NEW c \in Callers, Calls!Read(c)
    PROVE  EntryInv'
<1>0. /\ StateInv /\ LockInv /\ KindInv /\ StreamInv /\ AgpInv
      /\ KindOf(c) /\ StreamOf(c) /\ AgpOf(c)
    BY DEF EntryInv, KindInv, StreamInv, AgpInv
<1> DEFINE q == eQueue[c]
           w == eWire[c]
           ok == eJob[c].ok
<1>1. /\ eReader[c] = "reading" /\ q # <<>> /\ eQueue' = [eQueue EXCEPT ![c] = Tail(q)]
      /\ UNCHANGED <<eAt, eJob, eLock, eBoot, eTracker>>
    BY <1>0 DEF Calls!Read, StateInv
<1>2. q \in Seq(Word) /\ w \in Seq(Word) /\ ok \in BOOLEAN
    BY <1>0 DEF StateInv, JobRecord
<1>3. Head(q) \in Word /\ Tail(q) \in Seq(Word)
    BY <1>1, <1>2, Shorter
<1>4. /\ eQueue' \in [Callers -> Seq(Word)] /\ eQueue'[c] = Tail(q)
      /\ \A d \in Callers \ {c} : eQueue'[d] = eQueue[d]
    BY <1>0, <1>1, <1>3 DEF StateInv
<1>5. Calls!Streams(c) /\ Calls!Streams(c)'
    BY <1>0, <1>1 DEF KindOf, Calls!Streams
<1>6. LockInv'
    BY <1>0, <1>1 DEF LockInv
<1>7. CASE Head(q) # "sentinel"
    <2>1. eReader' = eReader /\ eWire' = [eWire EXCEPT ![c] = Append(w, Head(q))]
        BY <1>7 DEF Calls!Read
    <2> DEFINE seen == Append(w, Head(q))
    <2> DEFINE rest == Tail(q)
    <2>a. seen = Append(w, Head(q)) /\ rest = Tail(q)
        OBVIOUS
    <2> HIDE DEF q, w, ok, seen, rest
    <2>b. /\ seen \in Seq(Word)
          /\ Silent(q, w) => Silent(rest, seen)
          /\ Unread(q, w, ok) => Unread(rest, seen, ok) \/ Half(rest, seen, ok)
          /\ ~Half(q, w, ok)
        <3>1. q \in Seq(Word) /\ w \in Seq(Word) /\ ok \in BOOLEAN /\ q # <<>> /\ Head(q) # "sentinel"
            BY <1>1, <1>2, <1>7
        <3> QED
            BY ONLY <3>1, <2>a, WordIsRead
    <2>c. Len(seen) = Len(w) + 1 /\ Len(w) \in Nat /\ seen # <<>> /\ \A i \in 1..Len(w) : seen[i] = w[i]
        BY <1>2, <1>3, <2>a, Longer
    <2>3. seen # <<>> /\ (w # <<>> => seen[1] = w[1])
        BY <1>2, <2>c
    <2> USE DEF q, w, ok, seen, rest
    <2>2. /\ seen \in Seq(Word)
          /\ Silent(q, w) => Silent(Tail(q), seen)
          /\ Unread(q, w, ok) => Unread(Tail(q), seen, ok) \/ Half(Tail(q), seen, ok)
          /\ ~Half(q, w, ok)
        BY <2>b
    <2> HIDE DEF seen
    <2>4. /\ eWire' \in [Callers -> Seq(Word)] /\ eWire'[c] = seen
          /\ \A d \in Callers \ {c} : eWire'[d] = eWire[d]
        BY <1>0, <2>1, <2>2 DEF StateInv, seen
    <2>5. KindOf(c)'
        BY <1>0, <1>1, <1>5, <2>1 DEF KindOf
    <2>6. StreamOf(c)'
        BY <1>0, <1>1, <1>4, <2>1, <2>2, <2>4 DEF StreamOf
    <2>7. AgpOf(c)'
        BY <1>0, <1>1, <2>1, <2>3, <2>4 DEF AgpOf
    <2>8. Alone(c)
        BY <1>1, <1>4, <2>1, <2>4 DEF Alone
    <2>9. KindInv' /\ StreamInv' /\ AgpInv'
        BY <1>0, <2>5, <2>6, <2>7, <2>8, OneMoves
    <2> QED
        BY <1>0, <1>1, <1>4, <1>6, <2>1, <2>4, <2>9 DEF EntryInv, StateInv
<1>8. CASE Head(q) = "sentinel"
    <2>1. /\ ~Silent(q, w) /\ ~Unread(q, w, ok)
          /\ Half(q, w, ok) => Told(w, ok)
        BY <1>1, <1>2, <1>8, SentinelIsRead
    <2>2. eAt[c] \in Calls!Over /\ Told(w, ok)
        BY <1>0, <1>1, <2>1 DEF StreamOf
    <2>3. eAt[c] = "end"
        BY <1>0, <1>1, <1>5, <2>2 DEF KindOf, Calls!Over
    <2> DEFINE e == IF Calls!Failed(c) THEN "closed error" ELSE "closed completed"
               v == IF eJob[c].kind # "agp" THEN w ELSE Append(w, e)
    <2>4. eReader' = [eReader EXCEPT ![c] = "ended"] /\ eWire' = [eWire EXCEPT ![c] = v]
        BY <1>0, <1>8 DEF Calls!Read, StateInv
    <2>5. e \in Word \ Marks
        BY DEF Word, Marks
    <2>6. Calls!Failed(c) <=> ~ok
        <3>1. PICK i \in DOMAIN w : w[i] = Said(ok) /\ \A j \in DOMAIN w : w[j] \in Marks => j = i
            BY <2>2 DEF Told
        <3> QED
            BY <1>2, <3>1 DEF Calls!Failed, Said, Marks
    <2>7. e = IF ok THEN "closed completed" ELSE "closed error"
        BY <2>6
    <2> HIDE DEF e
    <2>8. v \in Seq(Word) /\ Told(v, ok)
        <3>1. CASE eJob[c].kind # "agp"
            BY <1>2, <2>2, <3>1
        <3>2. CASE eJob[c].kind = "agp"
            <4>1. v = Append(w, e) /\ e \in Word
                BY <2>5, <3>2
            <4>2. v \in Seq(Word)
                BY <1>2, <4>1, Longer
            <4> QED
                BY <1>2, <2>2, <2>5, <4>1, <4>2, ToldStands
        <3> QED
            BY <3>1, <3>2
    <2>9. eJob[c].kind = "agp" => v # <<>> /\ v[1] = w[1] /\ v[Len(v)] = e
        <3> SUFFICES ASSUME eJob[c].kind = "agp" PROVE v # <<>> /\ v[1] = w[1] /\ v[Len(v)] = e
            OBVIOUS
        <3>1. w # <<>> /\ v = Append(w, e)
            BY <1>0 DEF AgpOf
        <3> HIDE DEF v
        <3> QED
            BY <1>2, <3>1
    <2> HIDE DEF v
    <2>10. /\ eWire' \in [Callers -> Seq(Word)] /\ eWire'[c] = v
           /\ \A d \in Callers \ {c} : eWire'[d] = eWire[d]
        BY <1>0, <2>4, <2>8 DEF StateInv
    <2>11. /\ eReader' \in [Callers -> {"none", "reading", "ended", "left"}] /\ eReader'[c] = "ended"
           /\ \A d \in Callers \ {c} : eReader'[d] = eReader[d]
        BY <1>0, <2>4 DEF StateInv
    <2>12. KindOf(c)'
        BY <1>0, <1>1, <1>5, <2>2, <2>3, <2>11 DEF KindOf
    <2>13. StreamOf(c)'
        BY <1>1, <2>8, <2>10, <2>11 DEF StreamOf
    <2>14. AgpOf(c)'
        BY <1>0, <1>1, <2>7, <2>9, <2>10, <2>11 DEF AgpOf
    <2>15. Alone(c)
        BY <1>1, <1>4, <2>10, <2>11 DEF Alone
    <2>16. KindInv' /\ StreamInv' /\ AgpInv'
        BY <1>0, <2>12, <2>13, <2>14, <2>15, OneMoves
    <2> QED
        BY <1>0, <1>1, <1>4, <1>6, <2>10, <2>11, <2>16 DEF EntryInv, StateInv
<1> QED
    BY <1>7, <1>8

LEMMA EntryKeeps ==
    ASSUME Calls!EntryAssumption, EntryInv, [Calls!Next]_Calls!vars
    PROVE  EntryInv'
<1>1. CASE UNCHANGED Calls!vars
    <2>0. /\ StateInv /\ LockInv /\ KindInv /\ StreamInv /\ AgpInv
          /\ UNCHANGED <<eAt, eJob, eLock, eBoot, eTracker, eQueue, eReader, eWire>>
        BY <1>1 DEF EntryInv, Calls!vars
    <2>1. StateInv' /\ LockInv'
        BY <2>0 DEF StateInv, LockInv
    <2>2. ASSUME NEW c \in Callers
          PROVE  KindOf(c)' /\ StreamOf(c)' /\ AgpOf(c)'
        <3>1. KindOf(c) /\ StreamOf(c) /\ AgpOf(c)
            BY <2>0 DEF KindInv, StreamInv, AgpInv
        <3> QED
            BY <2>0, <3>1 DEF KindOf, Calls!Streams, StreamOf, AgpOf
    <2> QED
        BY <2>1, <2>2 DEF EntryInv, KindInv, StreamInv, AgpInv
<1>2. ASSUME NEW c \in Callers, NEW k \in Kinds, Calls!Call(c, k)
      PROVE  EntryInv'
    BY <1>2, CallKeeps
<1>3. ASSUME NEW c \in Callers, Calls!Progress(c)
      PROVE  EntryInv'
    BY <1>3, TakeTurnKeeps, EnsureSkillsKeeps, EnsureHarnessKeeps, BindHarnessKeeps, TryPlanKeeps,
       StreamDirectKeeps, EndTurnKeeps, RunTurnKeeps, LearnSkillKeeps, ReadKeeps DEF Calls!Progress
<1>4. ASSUME NEW c \in Callers, Calls!TryFails(c) \/ Calls!PrepareFails(c) \/ Calls!Cancel(c)
      PROVE  EntryInv'
    BY <1>4, TryFailsKeeps, PrepareFailsKeeps, EntryCancelKeeps
<1> QED
    BY <1>1, <1>2, <1>3, <1>4 DEF Calls!Next

LEMMA EntryStarts ==
    ASSUME Calls!EntryAssumption, Calls!Init
    PROVE  EntryInv
<1>1. Calls!NoJob \in JobRecord /\ Calls!NoJob.kind = None /\ Calls!NoJob.ok = FALSE /\ Calls!NoJob.bg = "none"
    BY DEF Calls!NoJob, JobRecord
<1>2. eLock \in LockRecord /\ eLock.owner = None /\ eBoot \in BootRecord
    BY DEF Calls!Init, LockRecord, BootRecord
<1>3. StateInv
    BY <1>1, <1>2 DEF Calls!Init, StateInv, Calls!Steps
<1>4. LockInv
    BY <1>2 DEF Calls!Init, LockInv, Held
<1>5. ASSUME NEW c \in Callers
      PROVE  KindOf(c) /\ StreamOf(c) /\ AgpOf(c)
    <2>1. eAt[c] = "idle" /\ eJob[c] = Calls!NoJob /\ eReader[c] = "none" /\ eQueue[c] = <<>>
        BY DEF Calls!Init
    <2>2. ~Calls!Streams(c) /\ eJob[c].kind # "agp"
        BY <1>1, <2>1 DEF Calls!Streams, Calls!EntryAssumption
    <2> QED
        BY <1>1, <2>1, <2>2 DEF KindOf, StreamOf, AgpOf, Pre, Calls!Over
<1> QED
    BY <1>3, <1>4, <1>5 DEF EntryInv, KindInv, StreamInv, AgpInv

(* Locks, kinds and streams, in every state.                               *)
THEOREM EntryHolds ==
    ASSUME Calls!EntryAssumption
    PROVE  Calls!Spec => []EntryInv
<1>1. Calls!Init => EntryInv
    BY EntryStarts
<1>2. EntryInv /\ [Calls!Next]_Calls!vars => EntryInv'
    BY EntryKeeps
<1> QED
    BY <1>1, <1>2, PTL DEF Calls!Spec

(* Turns of one agent never overlap, however they were called, cancelled   *)
(* or refused (_hold_turn_lock).                                           *)
THEOREM TurnsAreSerial ==
    ASSUME Calls!EntryAssumption
    PROVE  Calls!Spec => []Calls!OneTurn
<1>1. EntryInv => Calls!OneTurn
    BY DEF EntryInv, LockInv, Held, Calls!OneTurn
<1> QED
    BY <1>1, EntryHolds, PTL

(* An instance counts as its module does. *)
LEMMA SameCount == ASSUME NEW S PROVE Calls!Cardinality(S) = Cardinality(S)
    BY DEF Calls!Cardinality, Cardinality

LEMMA ToldOnce ==
    ASSUME NEW w, NEW ok \in BOOLEAN, Told(w, ok)
    PROVE  \E e \in {"done", "error"} :
             /\ (e = "done") = ok
             /\ Cardinality({i \in DOMAIN w : w[i] \in {"done", "error"}}) = 1
             /\ \E i \in DOMAIN w : w[i] = e
<1>1. PICK i \in DOMAIN w : w[i] = Said(ok) /\ \A j \in DOMAIN w : w[j] \in Marks => j = i
    BY DEF Told
<1>2. Said(ok) \in {"done", "error"} /\ (Said(ok) = "done") = ok
    BY DEF Said
<1>3. {j \in DOMAIN w : w[j] \in {"done", "error"}} = {i}
    BY <1>1, <1>2 DEF Marks
<1>4. Cardinality({i}) = 1
    BY FS_Singleton
<1> QED
    BY <1>1, <1>2, <1>3, <1>4

(* What a consumer of a stream sees ends with done or error, once and      *)
(* truly, an agp stream with the true reason, and a consumer that goes     *)
(* away takes producer and lock along, for every set of callers, whatever  *)
(* fails or is cancelled where, also if a skill is learned after the end.  *)
THEOREM StreamsTellTheEnd ==
    ASSUME Calls!EntryAssumption
    PROVE  Calls!Spec => [](Calls!StreamEnds /\ Calls!SessionIsClosed /\ Calls!NoTaskLeft)
<1>1. ASSUME EntryInv PROVE Calls!StreamEnds
    <2> SUFFICES ASSUME NEW c \in Callers, eReader[c] = "ended"
                 PROVE  \E e \in {"done", "error"} :
                          /\ (e = "done") = eJob[c].ok
                          /\ Cardinality({i \in DOMAIN eWire[c] : eWire[c][i] \in {"done", "error"}}) = 1
                          /\ \E i \in DOMAIN eWire[c] : eWire[c][i] = e
        BY SameCount DEF Calls!StreamEnds
    <2>1. Told(eWire[c], eJob[c].ok) /\ eJob[c].ok \in BOOLEAN
        BY <1>1 DEF EntryInv, StreamInv, StreamOf, StateInv, JobRecord
    <2> QED
        BY <2>1, ToldOnce
<1>2. ASSUME EntryInv PROVE Calls!SessionIsClosed
    BY <1>2 DEF EntryInv, AgpInv, AgpOf, Calls!SessionIsClosed
<1>3. ASSUME EntryInv PROVE Calls!NoTaskLeft
    <2> SUFFICES ASSUME NEW c \in Callers, eReader[c] = "left"
                 PROVE  eAt[c] \in Calls!Over /\ eLock.owner # c
        BY DEF Calls!NoTaskLeft
    <2>1. eAt[c] \in Calls!Over
        BY <1>3 DEF EntryInv, KindInv, KindOf
    <2>2. c # None
        BY DEF Calls!EntryAssumption
    <2>3. eLock.owner = c => eAt[c] \in Held
        BY <1>3, <2>2 DEF EntryInv, LockInv
    <2> QED
        BY <2>1, <2>3 DEF Calls!Over, Held
<1>4. EntryInv => Calls!StreamEnds /\ Calls!SessionIsClosed /\ Calls!NoTaskLeft
    BY <1>1, <1>2, <1>3
<1> QED
    BY <1>4, EntryHolds, PTL

(* The skills are seeded by one caller at a time, and never again once     *)
(* they are there, whoever is cancelled while it seeds (_skills_lock).     *)
THEOREM SeedsOnce ==
    ASSUME Calls!EntryAssumption
    PROVE  Calls!Spec => Calls!SeededOnce
<1>1. ASSUME EntryInv, [Calls!Next]_Calls!vars, eBoot'.runs # eBoot.runs
      PROVE  ~eBoot.done /\ eBoot.by = None
    <2>0. eBoot \in BootRecord
        BY <1>1 DEF EntryInv, StateInv
    <2>1. CASE UNCHANGED eBoot
        BY <1>1, <2>1
    <2>2. ASSUME NEW c \in Callers, Calls!EnsureSkills(c)
          PROVE  ~eBoot.done /\ eBoot.by = None
        <3>1. CASE eBoot' = [eBoot EXCEPT !.by = None, !.done = TRUE]
            BY <1>1, <2>0, <3>1 DEF BootRecord
        <3>2. CASE ~eBoot.done /\ eBoot.by = None
            BY <3>2
        <3> QED
            BY <1>1, <2>2, <3>1, <3>2 DEF Calls!EnsureSkills
    <2>3. ASSUME NEW c, eBoot' = IF eBoot.by = c THEN [eBoot EXCEPT !.by = None] ELSE eBoot
          PROVE  FALSE
        BY <1>1, <2>0, <2>3 DEF BootRecord
    <2>4. ASSUME NEW c \in Callers, Calls!TryFails(c) \/ Calls!PrepareFails(c) \/ Calls!Cancel(c)
          PROVE  FALSE
        BY <2>3, <2>4 DEF Calls!TryFails, Calls!PrepareFails, Calls!Cancel
    <2>5. ASSUME NEW c \in Callers, NEW k \in Kinds, Calls!Call(c, k)
          PROVE  UNCHANGED eBoot
        BY <2>5 DEF Calls!Call
    <2>6. ASSUME NEW c \in Callers, Calls!Progress(c)
          PROVE  UNCHANGED eBoot \/ Calls!EnsureSkills(c)
        BY <2>6 DEF Calls!Progress, Calls!TakeTurn, Calls!EnsureHarness, Calls!BindHarness, Calls!TryPlan, Calls!StreamDirect, Calls!EndTurn,
                    Calls!RunTurn, Calls!LearnSkill, Calls!Read
    <2> QED
        BY <1>1, <2>1, <2>2, <2>4, <2>5, <2>6 DEF Calls!Next, Calls!vars
<1>2. EntryInv /\ [Calls!Next]_Calls!vars => [eBoot'.runs # eBoot.runs => ~eBoot.done /\ eBoot.by = None]_Calls!vars
    BY <1>1
<1> QED
    BY <1>2, EntryHolds, PTL DEF Calls!Spec, Calls!SeededOnce

-------------------------------------------------------------------------------
(* A batch of workers: every number of workers, attempts and questions. *)

(* The task of a worker that has begun and not ended. *)
Alive == {"queued", "working", "asking", "retrying"}

BatchState ==
    /\ pCaller \in {"gating", "collecting", "reading", "joining", "closing", "returned", "aborted"}
    /\ pGate \in 1..(N + 1)
    /\ pApproved \subseteq Batch!Worker /\ pSkipped \subseteq Batch!Worker /\ pApproved \cap pSkipped = {}
    /\ pPending \subseteq pApproved /\ pReading \subseteq pApproved /\ pLate \subseteq pApproved
    /\ pRows \in [Batch!Worker -> Seq(Batch!Row)]
    /\ pTask \in [Batch!Worker -> Alive \cup {"none", "ended"}]
    /\ pOutcome \in [Batch!Worker -> Batch!Outcome \cup {"none"}]
    /\ pCancelling \subseteq Batch!Worker
    /\ pHalt \in BOOLEAN /\ pHalted \in BOOLEAN
    /\ pSignals \in Seq(Batch!Signal)
    /\ pAsks \in [Batch!Worker -> 0..MaxAsks]

(* Where the invocation is, and what it still has to take. *)
CallerInv ==
    /\ pCaller = "gating" =>
         /\ pApproved \cup pSkipped = 1..(pGate - 1)
         /\ pPending = {} /\ pLate = {} /\ ~pHalt /\ pListener = "none"
         /\ \A w \in Batch!Worker : pTask[w] = "none"
    /\ pCaller \notin {"gating", "aborted"} => pApproved \cup pSkipped = Batch!Worker
    /\ pCaller \notin {"reading", "aborted"} => pReading = {}
    /\ pCaller \in {"closing", "returned"} => pPending = {}
    /\ pCaller = "joining" => pHalt
    /\ pHalt => pHalted
    /\ \A i \in DOMAIN pSignals : pSignals[i] = Batch!Halt => pHalted

(* What became of one worker: its task, its cancel and its row. *)
WorkerOf(w) ==
    /\ w \notin pApproved => pRows[w] = <<>> /\ pTask[w] = "none"
    /\ w \in pPending \/ w \in pReading => pRows[w] = <<>>
    /\ w \in pReading => w \notin pPending /\ pTask[w] = "ended"
    /\ pTask[w] = "ended" => pOutcome[w] \in Batch!Outcome
    /\ pOutcome[w] = "CANCELLED" => pHalted
    /\ w \in pCancelling => pTask[w] \in Alive /\ pHalted
    /\ pHalt /\ pTask[w] \in Alive => w \in pCancelling
    /\ w \in pLate => pRows[w] = <<"HALTED">> /\ pHalted
    /\ pRows[w] # <<>> /\ w \notin pLate => pTask[w] = "ended" /\ pRows[w] = <<Batch!RowOf(w)>>
    /\ pCaller \notin {"gating", "aborted"} /\ w \in pApproved =>
         w \in pPending \/ w \in pReading \/ pRows[w] # <<>>
WorkerInv == \A w \in Batch!Worker : WorkerOf(w)

BatchInv == BatchState /\ CallerInv /\ WorkerInv

(* Lists. *)
LEMMA SignalSent ==
    ASSUME NEW q \in Seq(Batch!Signal), NEW e \in Batch!Signal, NEW r, r = Append(q, e)
    PROVE  r \in Seq(Batch!Signal) /\ \A i \in DOMAIN r : r[i] = e \/ \E j \in DOMAIN q : r[i] = q[j]
OBVIOUS

LEMMA FirstRow ==
    ASSUME NEW q, q = <<>>, NEW e \in Batch!Row, NEW r, r = Append(q, e)
    PROVE  r \in Seq(Batch!Row) /\ r = <<e>> /\ r # <<>>
OBVIOUS

LEMMA QuestionIsNoHalt ==
    ASSUME NEW w \in Batch!Worker, NEW n \in 1..MaxAsks
    PROVE  Batch!Question(w, n) \in Batch!Signal /\ Batch!Question(w, n) # Batch!Halt /\ Batch!Halt \in Batch!Signal
<1>1. Batch!Question(w, n).kind = "CLARIFICATION_REQUEST" /\ Batch!Halt.kind = "HALT_ALL"
    BY DEF Batch!Question, Batch!Halt
<1> QED
    BY <1>1 DEF Batch!Signal

(* The rows of finished workers are reported. *)
LEMMA RowsTold ==
    ASSUME BatchInv, NEW W \in SUBSET Batch!Worker, Batch!Report(W, Batch!RowOf),
           \A w \in W : pRows[w] = <<>> /\ pOutcome[w] \in Batch!Outcome
    PROVE  /\ pRows' \in [Batch!Worker -> Seq(Batch!Row)]
           /\ \A w \in W : pRows'[w] = <<Batch!RowOf(w)>> /\ pRows'[w] # <<>>
           /\ \A w \in Batch!Worker \ W : pRows'[w] = pRows[w]
<1>0. pRows \in [Batch!Worker -> Seq(Batch!Row)]
    BY DEF BatchInv, BatchState
<1>1. ASSUME NEW w \in W PROVE Batch!RowOf(w) \in Batch!Row
    BY <1>1 DEF Batch!RowOf, Batch!Row, Batch!Outcome
<1>2. pRows' = [w \in Batch!Worker |-> IF w \in W THEN Append(pRows[w], Batch!RowOf(w)) ELSE pRows[w]]
    BY DEF Batch!Report
<1>3. ASSUME NEW w \in W
      PROVE  pRows'[w] \in Seq(Batch!Row) /\ pRows'[w] = <<Batch!RowOf(w)>> /\ pRows'[w] # <<>>
    <2>1. pRows'[w] = Append(pRows[w], Batch!RowOf(w))
        BY <1>2, <1>3
    <2> QED
        BY <1>1, <1>3, <2>1, FirstRow
<1>4. ASSUME NEW w \in Batch!Worker \ W PROVE pRows'[w] = pRows[w] /\ pRows'[w] \in Seq(Batch!Row)
    BY <1>0, <1>2, <1>4
<1> QED
    BY <1>2, <1>3, <1>4

(* One task moves; a cancel that arrives was sent. *)
LEMMA WorkerMoves ==
    ASSUME BatchInv, NEW w \in Batch!Worker, pTask[w] \in Alive, w \in pCancelling => pHalted,
           NEW s \in Alive \cup {"ended"}, pTask' = [pTask EXCEPT ![w] = s],
           NEW o, pOutcome' = [pOutcome EXCEPT ![w] = o],
           IF s = "ended" THEN o \in Batch!Outcome /\ (o = "CANCELLED" => w \in pCancelling)
                               /\ pCancelling' = pCancelling \ {w}
                          ELSE o = pOutcome[w] /\ pCancelling' = pCancelling /\ w \notin pCancelling,
           UNCHANGED <<Batch!callerVars, pHalt, pHalted>>, pSignals' \in Seq(Batch!Signal),
           pAsks' \in [Batch!Worker -> 0..MaxAsks],
           \A i \in DOMAIN pSignals' : pSignals'[i] = Batch!Halt => pHalted
    PROVE  BatchInv'
<1>0. BatchState /\ CallerInv /\ (\A v \in Batch!Worker : WorkerOf(v)) /\ WorkerOf(w)
    BY DEF BatchInv, WorkerInv
<1>1. /\ pCaller' = pCaller /\ pGate' = pGate /\ pApproved' = pApproved /\ pSkipped' = pSkipped
      /\ pPending' = pPending /\ pReading' = pReading /\ pRows' = pRows /\ pLate' = pLate
      /\ pHalt' = pHalt /\ pHalted' = pHalted
    BY DEF Batch!callerVars
<1>2. /\ pTask' \in [Batch!Worker -> Alive \cup {"none", "ended"}] /\ pTask'[w] = s
      /\ \A v \in Batch!Worker \ {w} : pTask'[v] = pTask[v]
    BY <1>0 DEF BatchState
<1>3. o \in Batch!Outcome \cup {"none"}
    BY <1>0 DEF BatchState
<1>4. /\ pOutcome' \in [Batch!Worker -> Batch!Outcome \cup {"none"}] /\ pOutcome'[w] = o
      /\ \A v \in Batch!Worker \ {w} : pOutcome'[v] = pOutcome[v]
    BY <1>0, <1>3 DEF BatchState
<1>5. /\ pCancelling' \subseteq pCancelling
      /\ \A v \in Batch!Worker \ {w} : v \in pCancelling' <=> v \in pCancelling
    OBVIOUS
<1>6. BatchState'
    BY <1>0, <1>1, <1>2, <1>4, <1>5 DEF BatchState
<1>7. pCaller # "gating"
    BY <1>0 DEF CallerInv, Alive
<1>8. CallerInv'
    BY <1>0, <1>1, <1>7 DEF CallerInv
<1>9. WorkerOf(w)'
    <2>1. pTask[w] # "ended" /\ pTask[w] # "none" /\ "ended" \notin Alive
        BY DEF Alive
    <2>2. pRows[w] # <<>> => w \in pLate
        BY <1>0, <2>1 DEF WorkerOf
    <2>3. w \in pApproved /\ w \notin pReading
        BY <1>0, <2>1 DEF WorkerOf
    <2>4. /\ o = "CANCELLED" => pHalted
          /\ s = "ended" => o \in Batch!Outcome
          /\ w \in pCancelling' => s \in Alive /\ pHalted
          /\ pHalt /\ s \in Alive => w \in pCancelling'
        BY <1>0, <2>1 DEF WorkerOf
    <2>5. /\ w \in pPending => pRows[w] = <<>>
          /\ w \in pLate => pRows[w] = <<"HALTED">> /\ pHalted
          /\ pCaller \notin {"gating", "aborted"} => w \in pPending \/ pRows[w] # <<>>
        BY <1>0, <2>3 DEF WorkerOf
    <2> QED
        BY <1>1, <1>2, <1>4, <2>2, <2>3, <2>4, <2>5 DEF WorkerOf
<1>10. ASSUME NEW v \in Batch!Worker \ {w} PROVE WorkerOf(v)'
    <2>1. WorkerOf(v)
        BY <1>0, <1>10
    <2>2. pTask'[v] = pTask[v] /\ pOutcome'[v] = pOutcome[v] /\ (v \in pCancelling' <=> v \in pCancelling)
        BY <1>2, <1>4, <1>5, <1>10
    <2> QED
        BY <1>1, <2>1, <2>2 DEF WorkerOf, Batch!RowOf
<1> QED
    BY <1>6, <1>8, <1>9, <1>10 DEF BatchInv, WorkerInv

LEMMA WorkerKeeps ==
    ASSUME Batch!BatchAssumption, BatchInv, NEW w \in Batch!Worker, Batch!WorkerStep(w)
    PROVE  BatchInv'
<1>0. BatchState /\ CallerInv /\ WorkerOf(w)
    BY DEF BatchInv, WorkerInv
<1>1. /\ pTask[w] \in Alive \cup {"none", "ended"} /\ "ended" \notin Alive /\ "none" \notin Alive
      /\ pOutcome \in [Batch!Worker -> Batch!Outcome \cup {"none"}]
      /\ pSignals \in Seq(Batch!Signal) /\ pAsks \in [Batch!Worker -> 0..MaxAsks]
      /\ \A i \in DOMAIN pSignals : pSignals[i] = Batch!Halt => pHalted
    BY <1>0 DEF BatchState, CallerInv, Alive
<1>2. (w \in pCancelling => pTask[w] \in Alive /\ pHalted) /\ (pHalt => pHalted)
    BY <1>0 DEF WorkerOf, CallerInv
<1>3. pOutcome = [pOutcome EXCEPT ![w] = pOutcome[w]]
    BY <1>1
<1>4. w \notin pCancelling => pCancelling = pCancelling \ {w}
    OBVIOUS
<1>5. CASE Batch!Begin(w)
    <2>1. pTask[w] \in Alive /\ w \notin pCancelling
        BY <1>5 DEF Batch!Begin, Alive
    <2>2. UNCHANGED <<Batch!callerVars, pHalt, pHalted, pSignals, pAsks, pCancelling>>
        BY <1>5 DEF Batch!Begin, Batch!askVars, Batch!queueVars
    <2>3. CASE Batch!Ends(w, "FAILED")
        <3>1. pTask' = [pTask EXCEPT ![w] = "ended"] /\ pOutcome' = [pOutcome EXCEPT ![w] = "FAILED"]
            BY <2>3 DEF Batch!Ends
        <3> QED
            BY <1>1, <1>2, <1>4, <2>1, <2>2, <3>1, WorkerMoves DEF Batch!Outcome
    <2>4. CASE pTask' = [pTask EXCEPT ![w] = "working"] /\ UNCHANGED pOutcome
        BY <1>1, <1>2, <1>3, <2>1, <2>2, <2>4, WorkerMoves DEF Alive
    <2> QED
        BY <1>5, <2>3, <2>4 DEF Batch!Begin
<1>6. CASE Batch!Answer(w)
    <2>1. pTask[w] \in Alive /\ w \notin pCancelling
        BY <1>6 DEF Batch!Answer, Alive
    <2>2. UNCHANGED <<Batch!callerVars, pHalt, pHalted, pSignals, pAsks, pCancelling>>
        BY <1>6 DEF Batch!Answer, Batch!askVars, Batch!queueVars
    <2>3. PICK how \in {"SUCCESS", "FAILED"} : Batch!Ends(w, how)
        BY <1>6 DEF Batch!Answer
    <2>4. pTask' = [pTask EXCEPT ![w] = "ended"] /\ pOutcome' = [pOutcome EXCEPT ![w] = how]
        BY <2>3 DEF Batch!Ends
    <2> QED
        BY <1>1, <1>2, <1>4, <2>1, <2>2, <2>4, WorkerMoves DEF Batch!Outcome
<1>7. CASE Batch!Raise(w)
    <2>1. pTask[w] \in Alive /\ w \notin pCancelling
        BY <1>7 DEF Batch!Raise, Alive
    <2>2. UNCHANGED <<Batch!callerVars, pHalt, pHalted, pSignals, pAsks, pCancelling>>
        BY <1>7 DEF Batch!Raise, Batch!askVars, Batch!queueVars
    <2>3. CASE Batch!Ends(w, "FAILED")
        <3>1. pTask' = [pTask EXCEPT ![w] = "ended"] /\ pOutcome' = [pOutcome EXCEPT ![w] = "FAILED"]
            BY <2>3 DEF Batch!Ends
        <3> QED
            BY <1>1, <1>2, <1>4, <2>1, <2>2, <3>1, WorkerMoves DEF Batch!Outcome
    <2>4. CASE pTask' = [pTask EXCEPT ![w] = "retrying"] /\ UNCHANGED pOutcome
        BY <1>1, <1>2, <1>3, <2>1, <2>2, <2>4, WorkerMoves DEF Alive
    <2> QED
        BY <1>7, <2>3, <2>4 DEF Batch!Raise
<1>8. CASE Batch!Retry(w) \/ Batch!GetAnswer(w) \/ Batch!AskTimesOut(w)
    <2>1. pTask[w] \in Alive /\ w \notin pCancelling
        BY <1>8 DEF Batch!Retry, Batch!GetAnswer, Batch!AskTimesOut, Alive
    <2>2. UNCHANGED <<Batch!callerVars, pHalt, pHalted, pSignals, pAsks, pCancelling, pOutcome>>
        BY <1>8 DEF Batch!Retry, Batch!GetAnswer, Batch!AskTimesOut, Batch!askVars, Batch!queueVars
    <2>3. pTask' = [pTask EXCEPT ![w] = "working"]
        BY <1>8 DEF Batch!Retry, Batch!GetAnswer, Batch!AskTimesOut
    <2> QED
        BY <1>1, <1>2, <1>3, <2>1, <2>2, <2>3, WorkerMoves DEF Alive
<1>9. CASE Batch!Ask(w)
    <2>1. pTask[w] \in Alive /\ w \notin pCancelling
        BY <1>9 DEF Batch!Ask, Alive
    <2>2. UNCHANGED <<Batch!callerVars, pHalt, pHalted, pCancelling, pOutcome>>
        BY <1>9 DEF Batch!Ask
    <2>3. pTask' = [pTask EXCEPT ![w] = "asking"]
        BY <1>9 DEF Batch!Ask
    <2>4. pAsks' \in [Batch!Worker -> 0..MaxAsks] /\ pAsks'[w] \in 1..MaxAsks
        BY <1>1, <1>9 DEF Batch!Ask, Batch!BatchAssumption
    <2> DEFINE n == pAsks'[w]
    <2>5. pSignals' = Append(pSignals, Batch!Question(w, n)) /\ n \in 1..MaxAsks
        BY <1>9, <2>4 DEF Batch!Ask
    <2> HIDE DEF n
    <2>6. Batch!Question(w, n) \in Batch!Signal /\ Batch!Question(w, n) # Batch!Halt
        BY <2>5, QuestionIsNoHalt
    <2>7. /\ pSignals' \in Seq(Batch!Signal)
          /\ \A i \in DOMAIN pSignals' :
               pSignals'[i] = Batch!Question(w, n) \/ \E j \in DOMAIN pSignals : pSignals'[i] = pSignals[j]
        BY <1>1, <2>5, <2>6, SignalSent
    <2>8. \A i \in DOMAIN pSignals' : pSignals'[i] = Batch!Halt => pHalted
        BY <1>1, <2>6, <2>7
    <2> QED
        BY <1>1, <1>2, <1>3, <2>1, <2>2, <2>3, <2>4, <2>7, <2>8, WorkerMoves DEF Alive
<1>10. CASE Batch!CancelArrives(w)
    <2>1. pTask[w] \in Alive /\ w \in pCancelling /\ pCancelling' = pCancelling \ {w}
        BY <1>2, <1>10 DEF Batch!CancelArrives
    <2>2. UNCHANGED <<Batch!callerVars, pHalt, pHalted, pSignals, pAsks>>
        BY <1>10 DEF Batch!CancelArrives, Batch!askVars, Batch!queueVars
    <2>3. pTask' = [pTask EXCEPT ![w] = "ended"] /\ pOutcome' = [pOutcome EXCEPT ![w] = "CANCELLED"]
        BY <1>10 DEF Batch!CancelArrives, Batch!Ends
    <2> QED
        BY <1>1, <1>2, <2>1, <2>2, <2>3, WorkerMoves DEF Batch!Outcome
<1> QED
    BY <1>5, <1>6, <1>7, <1>8, <1>9, <1>10 DEF Batch!WorkerStep

(* Steps that leave workers, rows and cancels alone. *)
LEMMA QueueMoves ==
    ASSUME BatchInv, UNCHANGED <<Batch!callerVars, Batch!taskVars, pHalt, pAsks>>, pHalted' \in BOOLEAN,
           pHalted => pHalted', pSignals' \in Seq(Batch!Signal),
           \A i \in DOMAIN pSignals' : pSignals'[i] = Batch!Halt => pHalted',
           pCaller = "gating" => pListener' = pListener
    PROVE  BatchInv'
<1>0. BatchState /\ CallerInv /\ \A v \in Batch!Worker : WorkerOf(v)
    BY DEF BatchInv, WorkerInv
<1>1. /\ pCaller' = pCaller /\ pGate' = pGate /\ pApproved' = pApproved /\ pSkipped' = pSkipped
      /\ pPending' = pPending /\ pReading' = pReading /\ pRows' = pRows /\ pLate' = pLate
      /\ pHalt' = pHalt /\ pTask' = pTask /\ pOutcome' = pOutcome /\ pCancelling' = pCancelling
      /\ pAsks' = pAsks
    BY DEF Batch!callerVars, Batch!taskVars
<1>2. BatchState'
    BY <1>0, <1>1 DEF BatchState
<1>3. CallerInv'
    BY <1>0, <1>1 DEF CallerInv
<1>4. ASSUME NEW v \in Batch!Worker PROVE WorkerOf(v)'
    <2>1. WorkerOf(v)
        BY <1>0, <1>4
    <2> QED
        BY <1>1, <2>1 DEF WorkerOf, Batch!RowOf
<1> QED
    BY <1>2, <1>3, <1>4 DEF BatchInv, WorkerInv

LEMMA QueueKeeps ==
    ASSUME BatchInv, Batch!SendHalt \/ Batch!ListenerStep \/ \E w \in Batch!Worker : Batch!Recover(w)
    PROVE  BatchInv'
<1>0. BatchState /\ CallerInv /\ \A v \in Batch!Worker : WorkerOf(v)
    BY DEF BatchInv, WorkerInv
<1>1. /\ pSignals \in Seq(Batch!Signal) /\ pHalted \in BOOLEAN
      /\ \A i \in DOMAIN pSignals : pSignals[i] = Batch!Halt => pHalted
      /\ pCaller = "gating" => pListener = "none"
    BY <1>0 DEF BatchState, CallerInv
<1>2. CASE Batch!SendHalt
    <2>1. /\ UNCHANGED <<Batch!callerVars, Batch!taskVars, pHalt, pAsks, pListener>> /\ pHalted' = TRUE
          /\ pSignals' = Append(pSignals, Batch!Halt)
        BY <1>2 DEF Batch!SendHalt, Batch!askVars
    <2>2. pSignals' \in Seq(Batch!Signal)
        BY <1>1, <2>1, SignalSent DEF Batch!Signal
    <2> QED
        BY <2>1, <2>2, QueueMoves
<1>3. CASE Batch!ListenerTakes
    <2>1. /\ UNCHANGED <<Batch!callerVars, pTask, pOutcome, pTried, pAsks, pHalted>> /\ pSignals' = <<>>
          /\ pListener = "polling"
        BY <1>3 DEF Batch!ListenerTakes, Batch!askVars
    <2>2. pCaller # "gating"
        BY <1>1, <2>1
    <2>3. pSignals' \in Seq(Batch!Signal) /\ \A i \in DOMAIN pSignals' : pSignals'[i] = Batch!Halt => pHalted'
        BY <2>1
    <2>4. CASE \E i \in DOMAIN pSignals : pSignals[i] = Batch!Halt
        <3>1. pHalt' = TRUE /\ pCancelling' = pCancelling \cup Batch!Live /\ pHalted
            BY <1>1, <1>3, <2>4 DEF Batch!ListenerTakes
        <3>2. /\ pCaller' = pCaller /\ pGate' = pGate /\ pApproved' = pApproved /\ pSkipped' = pSkipped
              /\ pPending' = pPending /\ pReading' = pReading /\ pRows' = pRows /\ pLate' = pLate
              /\ pTask' = pTask /\ pOutcome' = pOutcome /\ pAsks' = pAsks /\ pHalted' = pHalted
            BY <2>1 DEF Batch!callerVars
        <3>3. BatchState'
            BY <1>0, <2>3, <3>1, <3>2 DEF BatchState, Batch!Live, Batch!InState
        <3>4. CallerInv'
            BY <1>0, <2>2, <2>3, <3>1, <3>2 DEF CallerInv
        <3>5. ASSUME NEW v \in Batch!Worker PROVE WorkerOf(v)'
            <4>1. WorkerOf(v)
                BY <1>0, <3>5
            <4>2. v \in pCancelling' <=> v \in pCancelling \/ pTask[v] \in Alive
                BY <3>1 DEF Batch!Live, Batch!InState, Alive
            <4> QED
                BY <3>1, <3>2, <4>1, <4>2 DEF WorkerOf, Batch!RowOf
        <3> QED
            BY <3>3, <3>4, <3>5 DEF BatchInv, WorkerInv
    <2>5. CASE ~\E i \in DOMAIN pSignals : pSignals[i] = Batch!Halt
        <3>1. UNCHANGED <<Batch!callerVars, Batch!taskVars, pHalt, pAsks>>
            BY <1>3, <2>1, <2>5 DEF Batch!ListenerTakes, Batch!taskVars
        <3> QED
            BY <1>1, <2>1, <2>2, <2>3, <3>1, QueueMoves
    <2> QED
        BY <2>4, <2>5
<1>4. CASE Batch!UserAnswers \/ Batch!ListenerEnds
    <2>1. UNCHANGED <<Batch!callerVars, Batch!taskVars, pHalt, pAsks, pHalted, pSignals>> /\ pListener # "none"
        BY <1>4 DEF Batch!UserAnswers, Batch!ListenerEnds, Batch!askVars
    <2> QED
        BY <1>1, <2>1, QueueMoves
<1>5. CASE \E w \in Batch!Worker : Batch!Recover(w)
    <2>1. UNCHANGED <<Batch!callerVars, Batch!taskVars, pHalt, pAsks, pHalted, pSignals, pListener>>
        BY <1>5 DEF Batch!Recover, Batch!askVars, Batch!queueVars
    <2> QED
        BY <1>1, <2>1, QueueMoves
<1> QED
    BY <1>2, <1>3, <1>4, <1>5 DEF Batch!ListenerStep

LEMMA GatesKeep ==
    ASSUME Batch!BatchAssumption, BatchInv, Batch!Approve \/ Batch!Skip \/ Batch!AllSkipped
    PROVE  BatchInv'
<1>0. BatchState /\ CallerInv /\ \A v \in Batch!Worker : WorkerOf(v)
    BY DEF BatchInv, WorkerInv
<1>1. N \in Nat /\ pGate \in 1..(N + 1) /\ Batch!Worker = 1..N /\ InterruptBefore \subseteq Batch!Worker
    BY <1>0 DEF BatchState, Batch!BatchAssumption, Batch!Worker
<1>2. pCaller = "gating" /\ pApproved \cup pSkipped = 1..(pGate - 1)
    BY <1>0 DEF Batch!Approve, Batch!Skip, Batch!AllSkipped, CallerInv
<1>3. /\ pPending' = pPending /\ pReading' = pReading /\ pRows' = pRows /\ pLate' = pLate
      /\ pTask' = pTask /\ pOutcome' = pOutcome /\ pCancelling' = pCancelling /\ pAsks' = pAsks
      /\ pHalt' = pHalt /\ pHalted' = pHalted /\ pSignals' = pSignals /\ pListener' = pListener
    BY DEF Batch!Approve, Batch!Skip, Batch!AllSkipped, Batch!taskVars, Batch!askVars, Batch!queueVars
<1>4. /\ pApproved \subseteq pApproved' /\ pApproved' \cap pSkipped' = {}
      /\ pApproved' \subseteq Batch!Worker /\ pSkipped' \subseteq Batch!Worker /\ pGate' \in 1..(N + 1)
      /\ pCaller' \in {"gating", "returned"}
      /\ pCaller' = "gating" => pApproved' \cup pSkipped' = 1..(pGate' - 1)
      /\ pCaller' = "returned" => pApproved' \cup pSkipped' = Batch!Worker /\ pApproved' = {}
    <2>1. CASE Batch!AllSkipped
        BY <1>0, <1>1, <1>2, <2>1 DEF Batch!AllSkipped, BatchState
    <2>2. CASE Batch!Approve \/ Batch!Skip
        <3>1. pGate \in 1..N /\ pGate' = pGate + 1 /\ pGate' \in 1..(N + 1) /\ pCaller' = pCaller
            BY <1>1, <2>2 DEF Batch!Approve, Batch!Skip
        <3>2. 1..(pGate' - 1) = (1..(pGate - 1)) \cup {pGate} /\ pGate \notin 1..(pGate - 1)
            BY <1>1, <3>1
        <3>3. pGate \notin pApproved /\ pGate \notin pSkipped
            BY <1>2, <3>2
        <3>4. CASE Batch!Approve
            <4>1. pApproved' = pApproved \cup {pGate} /\ pSkipped' = pSkipped
                BY <3>4 DEF Batch!Approve
            <4> QED
                BY <1>0, <1>1, <1>2, <3>1, <3>2, <3>3, <4>1 DEF BatchState
        <3>5. CASE Batch!Skip
            <4>1. pSkipped' = pSkipped \cup {pGate} /\ pApproved' = pApproved
                BY <3>5 DEF Batch!Skip
            <4> QED
                BY <1>0, <1>1, <1>2, <3>1, <3>2, <3>3, <4>1 DEF BatchState
        <3> QED
            BY <2>2, <3>4, <3>5
    <2> QED
        BY <2>1, <2>2
<1>5. BatchState'
    BY <1>0, <1>3, <1>4 DEF BatchState
<1>6. CallerInv'
    BY <1>0, <1>2, <1>3, <1>4 DEF CallerInv
<1>7. ASSUME NEW v \in Batch!Worker PROVE WorkerOf(v)'
    <2>1. WorkerOf(v)
        BY <1>0, <1>7
    <2> QED
        BY <1>3, <1>4, <2>1 DEF WorkerOf, Batch!RowOf
<1> QED
    BY <1>5, <1>6, <1>7 DEF BatchInv, WorkerInv

LEMMA SpawnKeeps ==
    ASSUME Batch!BatchAssumption, BatchInv, Batch!SpawnTasks
    PROVE  BatchInv'
<1>0. BatchState /\ CallerInv /\ \A v \in Batch!Worker : WorkerOf(v)
    BY DEF BatchInv, WorkerInv
<1>1. N \in Nat /\ Batch!Worker = 1..N
    BY DEF Batch!BatchAssumption, Batch!Worker
<1>2. /\ pCaller = "gating" /\ pCaller' = "collecting" /\ pPending' = pApproved /\ pGate = N + 1
      /\ pTask' = [w \in Batch!Worker |-> IF w \in pApproved THEN "queued" ELSE "none"]
      /\ pGate' = pGate /\ pApproved' = pApproved /\ pSkipped' = pSkipped /\ pReading' = pReading
      /\ pRows' = pRows /\ pLate' = pLate /\ pOutcome' = pOutcome /\ pCancelling' = pCancelling
      /\ pAsks' = pAsks /\ pHalt' = pHalt /\ pHalted' = pHalted /\ pSignals' = pSignals
    BY DEF Batch!SpawnTasks, Batch!askVars
<1>3. pApproved \cup pSkipped = Batch!Worker /\ pReading = {} /\ pLate = {} /\ ~pHalt /\ \A w \in Batch!Worker : pTask[w] = "none"
    BY <1>0, <1>1, <1>2 DEF CallerInv
<1>4. BatchState'
    BY <1>0, <1>2 DEF BatchState, Alive
<1>5. CallerInv'
    BY <1>0, <1>2, <1>3 DEF CallerInv
<1>6. ASSUME NEW v \in Batch!Worker PROVE WorkerOf(v)'
    <2>1. WorkerOf(v) /\ pTask[v] = "none" /\ pTask'[v] = IF v \in pApproved THEN "queued" ELSE "none"
        BY <1>0, <1>2, <1>3, <1>6
    <2>2. v \notin pCancelling /\ pRows[v] = <<>>
        BY <1>3, <2>1 DEF WorkerOf, Alive
    <2> QED
        BY <1>2, <1>3, <2>1, <2>2 DEF WorkerOf, Batch!RowOf, Alive
<1> QED
    BY <1>4, <1>5, <1>6 DEF BatchInv, WorkerInv

LEMMA CollectKeeps ==
    ASSUME BatchInv, Batch!Collect
    PROVE  BatchInv'
<1>0. BatchState /\ CallerInv /\ \A v \in Batch!Worker : WorkerOf(v)
    BY DEF BatchInv, WorkerInv
<1> DEFINE done == pPending \cap Batch!InState({"ended"})
<1>1. /\ pCaller = "collecting" /\ pPending' = pPending \ done /\ pReading' = done \cap InterruptAfter
      /\ Batch!Report(done \ InterruptAfter, Batch!RowOf)
      /\ pCaller' = IF pReading' # {} THEN "reading" ELSE "collecting"
      /\ pGate' = pGate /\ pApproved' = pApproved /\ pSkipped' = pSkipped /\ pLate' = pLate
      /\ pTask' = pTask /\ pOutcome' = pOutcome /\ pCancelling' = pCancelling
      /\ pAsks' = pAsks /\ pHalt' = pHalt /\ pHalted' = pHalted /\ pSignals' = pSignals
      /\ pListener' = pListener
    BY DEF Batch!Collect, Batch!taskVars, Batch!askVars, Batch!queueVars
<1>2. /\ done \subseteq pPending /\ done \subseteq Batch!Worker /\ done \subseteq pApproved
      /\ \A v \in done : pTask[v] = "ended"
    BY <1>0 DEF BatchState, Batch!InState
<1>3. pReading = {}
    BY <1>0, <1>1 DEF CallerInv
<1> HIDE DEF done
<1>4. \A v \in done \ InterruptAfter : pRows[v] = <<>> /\ pOutcome[v] \in Batch!Outcome
    BY <1>0, <1>2 DEF WorkerOf
<1>5. /\ pRows' \in [Batch!Worker -> Seq(Batch!Row)]
      /\ \A v \in done \ InterruptAfter : pRows'[v] = <<Batch!RowOf(v)>> /\ pRows'[v] # <<>>
      /\ \A v \in Batch!Worker \ (done \ InterruptAfter) : pRows'[v] = pRows[v]
    BY <1>1, <1>2, <1>4, RowsTold
<1>6. BatchState'
    BY <1>0, <1>1, <1>2, <1>5 DEF BatchState
<1>7. CallerInv'
    BY <1>0, <1>1 DEF CallerInv
<1>8. ASSUME NEW v \in Batch!Worker PROVE WorkerOf(v)'
    <2>1. WorkerOf(v)
        BY <1>0, <1>8
    <2>2. Batch!RowOf(v)' = Batch!RowOf(v)
        BY <1>1 DEF Batch!RowOf
    <2>3. CASE v \in done \ InterruptAfter
        <3>1. pRows'[v] = <<Batch!RowOf(v)>> /\ pRows'[v] # <<>> /\ v \notin pPending' /\ v \notin pReading'
            BY <1>1, <1>2, <1>5, <2>3
        <3>2. pTask[v] = "ended" /\ v \in pApproved /\ pRows[v] = <<>>
            BY <1>2, <1>4, <2>3
        <3>3. v \notin pLate
            BY <2>1, <3>2 DEF WorkerOf
        <3> QED
            BY <1>1, <2>1, <2>2, <3>1, <3>2, <3>3 DEF WorkerOf
    <2>4. CASE v \in done /\ v \in InterruptAfter
        <3>1. pRows'[v] = pRows[v] /\ v \in pReading' /\ v \notin pPending' /\ pTask[v] = "ended" /\ v \in pPending
            BY <1>1, <1>2, <1>5, <2>4
        <3> QED
            BY <1>1, <2>1, <2>2, <3>1 DEF WorkerOf
    <2>5. CASE v \notin done
        <3>1. pRows'[v] = pRows[v] /\ v \notin pReading' /\ (v \in pPending' <=> v \in pPending) /\ v \notin pReading
            BY <1>1, <1>3, <1>5, <1>8, <2>5
        <3> QED
            BY <1>1, <2>1, <2>2, <3>1 DEF WorkerOf
    <2> QED
        BY <2>3, <2>4, <2>5
<1> QED
    BY <1>6, <1>7, <1>8 DEF BatchInv, WorkerInv

(* One row is taken, at an after-gate or at the join.                      *)
LEMMA RowKeeps ==
    ASSUME BatchInv, NEW w \in Batch!Worker, Batch!AfterGate(w) \/ Batch!Joined(w)
    PROVE  BatchInv'
<1>0. BatchState /\ CallerInv /\ \A v \in Batch!Worker : WorkerOf(v)
    BY DEF BatchInv, WorkerInv
<1>1. /\ Batch!Report({w}, Batch!RowOf) /\ pCaller \in {"reading", "joining"}
      /\ pCaller' \in {"reading", "joining", "collecting"}
      /\ pCaller' = "joining" => pCaller = "joining"
      /\ pCaller' # "reading" => pReading' = {}
      /\ w \in pReading \/ w \in pPending
      /\ pTask[w] = "ended"
      /\ pPending' \subseteq pPending /\ pReading' \subseteq pReading
      /\ w \notin pPending' /\ w \notin pReading'
      /\ \A v \in Batch!Worker \ {w} : (v \in pPending => v \in pPending') /\ (v \in pReading => v \in pReading')
    <2>1. CASE Batch!AfterGate(w)
        BY <1>0, <2>1 DEF Batch!AfterGate, WorkerOf
    <2>2. CASE Batch!Joined(w)
        <3>1. pReading = {}
            BY <1>0, <2>2 DEF Batch!Joined, CallerInv
        <3> QED
            BY <2>2, <3>1 DEF Batch!Joined
    <2> QED
        BY <2>1, <2>2
<1>2. /\ pGate' = pGate /\ pApproved' = pApproved /\ pSkipped' = pSkipped /\ pLate' = pLate
      /\ pTask' = pTask /\ pOutcome' = pOutcome /\ pCancelling' = pCancelling
      /\ pAsks' = pAsks /\ pHalt' = pHalt /\ pHalted' = pHalted /\ pSignals' = pSignals
      /\ pListener' = pListener
    BY DEF Batch!AfterGate, Batch!Joined, Batch!taskVars, Batch!askVars, Batch!queueVars
<1>3. pRows[w] = <<>> /\ pOutcome[w] \in Batch!Outcome /\ w \in pApproved /\ w \notin pLate
    <2>1. WorkerOf(w)
        BY <1>0
    <2>2. pRows[w] = <<>> /\ pOutcome[w] \in Batch!Outcome /\ w \in pApproved
        BY <1>0, <1>1, <2>1 DEF WorkerOf, BatchState
    <2>3. <<"HALTED">> # <<>>
        OBVIOUS
    <2> QED
        BY <2>1, <2>2, <2>3 DEF WorkerOf
<1>4. /\ pRows' \in [Batch!Worker -> Seq(Batch!Row)]
      /\ pRows'[w] = <<Batch!RowOf(w)>> /\ pRows'[w] # <<>>
      /\ \A v \in Batch!Worker \ {w} : pRows'[v] = pRows[v]
    <2>1. \A v \in {w} : pRows[v] = <<>> /\ pOutcome[v] \in Batch!Outcome
        BY <1>3
    <2> QED
        BY <1>1, <2>1, RowsTold
<1>5. BatchState'
    BY <1>0, <1>1, <1>2, <1>4 DEF BatchState
<1>6. CallerInv'
    BY <1>0, <1>1, <1>2 DEF CallerInv
<1>7. ASSUME NEW v \in Batch!Worker PROVE WorkerOf(v)'
    <2>1. WorkerOf(v) /\ Batch!RowOf(v)' = Batch!RowOf(v)
        BY <1>0, <1>2, <1>7 DEF Batch!RowOf
    <2>2. CASE v = w
        BY <1>1, <1>2, <1>3, <1>4, <2>1, <2>2 DEF WorkerOf
    <2>3. CASE v # w
        <3>1. pRows'[v] = pRows[v] /\ (v \in pPending' <=> v \in pPending) /\ (v \in pReading' <=> v \in pReading)
            BY <1>1, <1>4, <1>7, <2>3
        <3> QED
            BY <1>1, <1>2, <2>1, <3>1 DEF WorkerOf
    <2> QED
        BY <2>2, <2>3
<1> QED
    BY <1>5, <1>6, <1>7 DEF BatchInv, WorkerInv

LEMMA GiveUpKeeps ==
    ASSUME BatchInv, NEW w \in Batch!Worker, Batch!GiveUp(w)
    PROVE  BatchInv'
<1>0. BatchState /\ CallerInv /\ \A v \in Batch!Worker : WorkerOf(v)
    BY DEF BatchInv, WorkerInv
<1>1. /\ pCaller = "joining" /\ w \in pPending /\ w \in Batch!Live
      /\ pRows' = [v \in Batch!Worker |-> IF v \in {w} THEN Append(pRows[v], Batch!MadeUp(v)) ELSE pRows[v]]
      /\ pPending' = pPending \ {w} /\ pLate' = pLate \cup {w}
      /\ pCaller' = pCaller /\ pReading' = pReading
      /\ pGate' = pGate /\ pApproved' = pApproved /\ pSkipped' = pSkipped
      /\ pTask' = pTask /\ pOutcome' = pOutcome /\ pCancelling' = pCancelling
      /\ pAsks' = pAsks /\ pHalt' = pHalt /\ pHalted' = pHalted /\ pSignals' = pSignals
      /\ pListener' = pListener
    BY DEF Batch!GiveUp, Batch!Report, Batch!taskVars, Batch!askVars, Batch!queueVars
<1>2. pHalted /\ pReading = {}
    BY <1>0, <1>1 DEF CallerInv
<1>3. pRows[w] = <<>> /\ w \in pApproved
    BY <1>0, <1>1 DEF WorkerOf, BatchState
<1>4. pRows'[w] = <<"HALTED">> /\ pRows'[w] # <<>> /\ pRows'[w] \in Seq(Batch!Row)
    <2>1. pRows'[w] = Append(pRows[w], "HALTED")
        BY <1>1 DEF Batch!MadeUp
    <2> QED
        BY <1>3, <2>1, FirstRow DEF Batch!Row
<1>5. pRows' \in [Batch!Worker -> Seq(Batch!Row)] /\ \A v \in Batch!Worker \ {w} : pRows'[v] = pRows[v]
    BY <1>0, <1>1, <1>4 DEF BatchState
<1>6. BatchState'
    BY <1>0, <1>1, <1>3, <1>5 DEF BatchState
<1>7. CallerInv'
    BY <1>0, <1>1 DEF CallerInv
<1>8. ASSUME NEW v \in Batch!Worker PROVE WorkerOf(v)'
    <2>1. WorkerOf(v) /\ Batch!RowOf(v)' = Batch!RowOf(v)
        BY <1>0, <1>1, <1>8 DEF Batch!RowOf
    <2>2. CASE v = w
        BY <1>1, <1>2, <1>3, <1>4, <2>1, <2>2 DEF WorkerOf
    <2>3. CASE v # w
        <3>1. pRows'[v] = pRows[v] /\ (v \in pPending' <=> v \in pPending) /\ (v \in pLate' <=> v \in pLate)
            BY <1>1, <1>5, <1>8, <2>3
        <3> QED
            BY <1>1, <2>1, <3>1 DEF WorkerOf
    <2> QED
        BY <2>2, <2>3
<1> QED
    BY <1>6, <1>7, <1>8 DEF BatchInv, WorkerInv

LEMMA CallerKeeps ==
    ASSUME BatchInv, Batch!Join \/ Batch!StopListening \/ Batch!Return \/ Batch!OuterCancel
    PROVE  BatchInv'
<1>0. BatchState /\ CallerInv /\ \A v \in Batch!Worker : WorkerOf(v)
    BY DEF BatchInv, WorkerInv
<1>1. /\ pGate' = pGate /\ pApproved' = pApproved /\ pSkipped' = pSkipped /\ pPending' = pPending
      /\ pReading' = pReading /\ pRows' = pRows /\ pLate' = pLate
      /\ pTask' = pTask /\ pOutcome' = pOutcome /\ pAsks' = pAsks
      /\ pHalt' = pHalt /\ pHalted' = pHalted /\ pSignals' = pSignals
    BY DEF Batch!Join, Batch!StopListening, Batch!Return, Batch!OuterCancel, Batch!taskVars, Batch!askVars, Batch!queueVars
<1>2. CASE Batch!Join
    <2>1. /\ pCaller = "collecting" /\ pHalt /\ pCaller' = "joining"
          /\ pCancelling' = pCancelling \cup (pPending \cap Batch!Live)
        BY <1>2 DEF Batch!Join
    <2>2. BatchState'
        BY <1>0, <1>1, <2>1 DEF BatchState, Batch!Live, Batch!InState
    <2>3. CallerInv'
        BY <1>0, <1>1, <2>1 DEF CallerInv
    <2>4. ASSUME NEW v \in Batch!Worker PROVE WorkerOf(v)'
        <3>1. WorkerOf(v) /\ Batch!RowOf(v)' = Batch!RowOf(v) /\ pHalted
            BY <1>0, <1>1, <2>1, <2>4 DEF Batch!RowOf, CallerInv
        <3>2. /\ v \in pCancelling => v \in pCancelling'
              /\ v \in pCancelling' => v \in pCancelling \/ pTask[v] \in Alive
            BY <2>1 DEF Batch!Live, Batch!InState, Alive
        <3> QED
            BY <1>1, <2>1, <3>1, <3>2 DEF WorkerOf
    <2> QED
        BY <2>2, <2>3, <2>4 DEF BatchInv, WorkerInv
<1>3. CASE Batch!StopListening \/ Batch!Return \/ Batch!OuterCancel
    <2>1. /\ pCancelling' = pCancelling
          /\ \/ pCaller \in {"collecting", "joining"} /\ pPending = {} /\ pCaller' = "closing"
             \/ pCaller = "closing" /\ pCaller' = "returned"
             \/ pCaller' = "aborted"
        BY <1>3 DEF Batch!StopListening, Batch!Return, Batch!OuterCancel, Batch!taskVars
    <2>2. BatchState'
        BY <1>0, <1>1, <2>1 DEF BatchState
    <2>3. CallerInv'
        BY <1>0, <1>1, <2>1 DEF CallerInv
    <2>4. ASSUME NEW v \in Batch!Worker PROVE WorkerOf(v)'
        <3>1. WorkerOf(v) /\ Batch!RowOf(v)' = Batch!RowOf(v)
            BY <1>0, <1>1, <2>4 DEF Batch!RowOf
        <3> QED
            BY <1>1, <2>1, <3>1 DEF WorkerOf
    <2> QED
        BY <2>2, <2>3, <2>4 DEF BatchInv, WorkerInv
<1> QED
    BY <1>2, <1>3

LEMMA BatchStarts ==
    ASSUME Batch!BatchAssumption, Batch!Init
    PROVE  BatchInv
<1>1. BatchState
    <2>1. N \in Nat /\ MaxAsks \in Nat /\ pGate = 1
        BY DEF Batch!Init, Batch!BatchAssumption
    <2>2. pGate \in 1..(N + 1) /\ 0 \in 0..MaxAsks
        BY <2>1
    <2>3. <<>> \in Seq(Batch!Row) /\ <<>> \in Seq(Batch!Signal)
        OBVIOUS
    <2> QED
        BY <2>2, <2>3 DEF Batch!Init, BatchState
<1>2. CallerInv
    BY DEF Batch!Init, CallerInv, Batch!BatchAssumption
<1>3. ASSUME NEW v \in Batch!Worker PROVE WorkerOf(v)
    BY <1>3 DEF Batch!Init, WorkerOf, Alive
<1> QED
    BY <1>1, <1>2, <1>3 DEF BatchInv, WorkerInv

LEMMA BatchRests ==
    ASSUME BatchInv, UNCHANGED Batch!vars
    PROVE  BatchInv'
<1>1. UNCHANGED <<Batch!callerVars, Batch!taskVars, Batch!askVars, Batch!queueVars>>
    BY DEF Batch!vars
<1>2. UNCHANGED <<Batch!callerVars, Batch!taskVars, pHalt, pAsks, pHalted, pSignals, pListener>>
    BY <1>1 DEF Batch!askVars, Batch!queueVars
<1>3. /\ pSignals \in Seq(Batch!Signal) /\ pHalted \in BOOLEAN
      /\ \A i \in DOMAIN pSignals : pSignals[i] = Batch!Halt => pHalted
    BY DEF BatchInv, BatchState, CallerInv
<1> QED
    BY <1>2, <1>3, QueueMoves

THEOREM BatchHolds ==
    ASSUME Batch!BatchAssumption
    PROVE  Batch!Spec => []BatchInv
<1>1. Batch!Init => BatchInv
    BY BatchStarts
<1>2. BatchInv /\ [Batch!Next]_Batch!vars => BatchInv'
    <2> SUFFICES ASSUME BatchInv, [Batch!Next]_Batch!vars PROVE BatchInv'
        OBVIOUS
    <2>1. CASE Batch!CallerStep
        BY <2>1, GatesKeep, SpawnKeeps, CollectKeeps, RowKeeps, GiveUpKeeps, CallerKeeps, QueueKeeps
           DEF Batch!CallerStep
    <2>2. CASE Batch!ListenerStep \/ Batch!SendHalt
        BY <2>2, QueueKeeps
    <2>3. CASE Batch!OuterCancel
        BY <2>3, CallerKeeps
    <2>4. CASE \E w \in Batch!Worker : Batch!WorkerStep(w)
        BY <2>4, WorkerKeeps
    <2>5. CASE UNCHANGED Batch!vars
        BY <2>5, BatchRests
    <2> QED
        BY <2>1, <2>2, <2>3, <2>4, <2>5 DEF Batch!Next
<1> QED
    BY <1>1, <1>2, PTL DEF Batch!Spec

(* A batch that returns has one row for each worker that was approved, a   *)
(* row says HALTED only if the user sent HALT_ALL and otherwise what       *)
(* became of the worker, and no worker is alive but those the join gave up *)
(* on, for every number of workers, slots, attempts and questions          *)
(* (run_workers_with_hitl).                                                *)
THEOREM BatchTellsEach ==
    ASSUME Batch!BatchAssumption
    PROVE  Batch!Spec => [](Batch!OneRowEach /\ Batch!NoneLeftRunning /\ Batch!RowsTellTheTruth)
<1>1. ASSUME BatchInv PROVE Batch!OneRowEach
    <2>1. BatchState /\ CallerInv /\ \A v \in Batch!Worker : WorkerOf(v)
        BY <1>1 DEF BatchInv, WorkerInv
    <2>2. ASSUME pCaller = "returned", NEW w \in Batch!Worker
          PROVE  Len(pRows[w]) = IF w \in pApproved THEN 1 ELSE 0
        <3>1. pPending = {} /\ pReading = {}
            BY <2>1, <2>2 DEF CallerInv
        <3>2. CASE w \in pApproved
            <4>1. \E x : pRows[w] = <<x>>
                BY <2>1, <2>2, <3>1, <3>2 DEF WorkerOf
            <4> QED
                BY <3>2, <4>1
        <3>3. CASE w \notin pApproved
            BY <2>1, <2>2, <3>3 DEF WorkerOf
        <3> QED
            BY <3>2, <3>3
    <2> QED
        BY <2>1, <2>2 DEF BatchState, CallerInv, Batch!OneRowEach
<1>2. ASSUME BatchInv PROVE Batch!NoneLeftRunning
    <2>1. BatchState /\ CallerInv /\ \A v \in Batch!Worker : WorkerOf(v)
        BY <1>2 DEF BatchInv, WorkerInv
    <2> SUFFICES ASSUME pCaller = "returned", NEW w \in Batch!Live PROVE w \in pLate
        BY DEF Batch!NoneLeftRunning
    <2>2. w \in Batch!Worker /\ pTask[w] \in Alive
        BY DEF Batch!Live, Batch!InState, Alive
    <2>3. w \in pApproved /\ pTask[w] # "ended"
        BY <2>1, <2>2 DEF WorkerOf, Alive
    <2>4. pPending = {} /\ pReading = {}
        BY <2>1 DEF CallerInv
    <2> QED
        BY <2>1, <2>2, <2>3, <2>4 DEF WorkerOf
<1>3. ASSUME BatchInv PROVE Batch!RowsTellTheTruth
    <2>1. BatchState /\ CallerInv /\ \A v \in Batch!Worker : WorkerOf(v)
        BY <1>3 DEF BatchInv, WorkerInv
    <2> SUFFICES ASSUME NEW w \in Batch!Worker, NEW i \in DOMAIN pRows[w]
                 PROVE  /\ pRows[w][i] = "HALTED" => pHalted
                        /\ w \notin pLate =>
                             /\ pTask[w] = "ended"
                             /\ (pRows[w][i] = "HALTED") = (pOutcome[w] = "CANCELLED")
                             /\ (pRows[w][i] = "SUCCESS") = (pOutcome[w] = "SUCCESS")
        BY DEF Batch!RowsTellTheTruth
    <2>2. WorkerOf(w) /\ pRows[w] # <<>>
        BY <2>1
    <2>3. CASE w \in pLate
        BY <2>2, <2>3 DEF WorkerOf
    <2>4. CASE w \notin pLate
        <3>1. pTask[w] = "ended" /\ pRows[w] = <<Batch!RowOf(w)>> /\ pOutcome[w] \in Batch!Outcome
            BY <2>2, <2>4 DEF WorkerOf
        <3>2. pRows[w][i] = Batch!RowOf(w)
            BY <3>1
        <3>3. pOutcome[w] = "CANCELLED" => pHalted
            BY <2>2 DEF WorkerOf
        <3> QED
            BY <2>4, <3>1, <3>2, <3>3 DEF Batch!RowOf, Batch!Outcome
    <2> QED
        BY <2>3, <2>4
<1>4. BatchInv => Batch!OneRowEach /\ Batch!NoneLeftRunning /\ Batch!RowsTellTheTruth
    BY <1>1, <1>2, <1>3
<1> QED
    BY <1>4, BatchHolds, PTL

(* Once halt_event is set no worker begins an attempt, in whichever state  *)
(* the halt found it, for any number of workers and attempts.              *)
THEOREM HaltEndsAttempts ==
    ASSUME Batch!BatchAssumption
    PROVE  Batch!Spec => Batch!NoAttemptAfterHalt
<1>1. ASSUME BatchInv, [Batch!Next]_Batch!vars, pHalt
      PROVE  pTried' = pTried
    <2>1. ASSUME NEW w \in Batch!Worker, Batch!Retry(w) PROVE FALSE
        <3>1. pTask[w] \in Alive /\ w \notin pCancelling
            BY <2>1 DEF Batch!Retry, Alive
        <3> QED
            BY <1>1, <3>1 DEF BatchInv, WorkerInv, WorkerOf
    <2>2. ASSUME NEW w \in Batch!Worker, Batch!WorkerStep(w), ~Batch!Retry(w) PROVE pTried' = pTried
        BY <1>1, <2>2 DEF Batch!WorkerStep, Batch!Begin, Batch!Answer, Batch!Raise, Batch!Ask, Batch!GetAnswer, Batch!AskTimesOut, Batch!CancelArrives
    <2>3. CASE Batch!CallerStep
        BY <2>3 DEF Batch!CallerStep, Batch!Approve, Batch!Skip, Batch!AllSkipped, Batch!SpawnTasks, Batch!Collect, Batch!Join,
                    Batch!StopListening, Batch!Return, Batch!AfterGate, Batch!Joined, Batch!GiveUp, Batch!Recover, Batch!taskVars
    <2>4. CASE Batch!ListenerStep \/ Batch!SendHalt \/ Batch!OuterCancel
        BY <2>4 DEF Batch!ListenerStep, Batch!ListenerTakes, Batch!UserAnswers, Batch!ListenerEnds, Batch!SendHalt, Batch!OuterCancel, Batch!taskVars
    <2>5. CASE UNCHANGED Batch!vars
        BY <2>5 DEF Batch!vars, Batch!taskVars
    <2> QED
        BY <1>1, <2>1, <2>2, <2>3, <2>4, <2>5 DEF Batch!Next
<1>2. BatchInv /\ [Batch!Next]_Batch!vars => (pHalt => pTried' = pTried)
    BY <1>1
<1>3. BatchInv /\ [Batch!Next]_Batch!vars => [pHalt => pTried' = pTried]_Batch!vars
    BY <1>2
<1> QED
    BY <1>3, BatchHolds, PTL DEF Batch!Spec, Batch!NoAttemptAfterHalt

-------------------------------------------------------------------------------
(* What is stated of several together. *)

\* What the tracker says and refuses is what the session spent, for any limits, uses
\* and number of invocations at once (SessionBudgetTracker).
THEOREM BudgetStaysHonest ==
  ASSUME Budget!BudgetAssumption, DimAssumption
  PROVE  Budget!Spec => []BudgetIsHonest
<1>1. Budget!LatchesAreHonest /\ Budget!RefusalIsTold /\ Budget!NothingEscapes => BudgetIsHonest
  BY DEF BudgetIsHonest, LatchesAreHonest, RefusalIsTold, NothingEscapes
<1> QED
  BY <1>1, HonestLatches, ToldBeforeRefused, AllUseIsCounted, PTL

\* Whatever callers, delegations and servers do at once, one caller has the turn, nobody
\* dials while a client is there, no two tools have one name, only what is over leaves
\* the table, and the breaker is closed exactly while it should be, for any number of
\* each (UnifiedAgent, McpSession, BackgroundTaskManager, CircuitBreaker). A shutdown
\* cuts delegations off, so the client sends none.
THEOREM SharedStaysWhole ==
  ASSUME Breaker!GateAssumption, Mcp!McpAssumption, Background!TasksAssumption,
         Calls!EntryAssumption, "shutdown" \notin Ops
  PROVE  Calls!Spec /\ Mcp!Spec /\ Background!Spec /\ Breaker!Spec => []SharedIsWhole
<1>1. Calls!OneTurn /\ Mcp!OneConnection /\ Mcp!NamesAreUnique /\ Background!ForgottenIsOver
        /\ Breaker!ClosedIsHealthy => SharedIsWhole
  BY DEF SharedIsWhole, OneTurn, OneConnection, NamesAreUnique, ForgottenIsOver, ClosedIsHealthy
<1> QED
  BY <1>1, TurnsAreSerial, NobodyDialsTwice, ToolNamesAreUnique, NothingLivesUnseen,
     BreakerIsHonest, PTL

\* A stream of an agent ends as it should, for every set of callers, whatever fails or
\* is cancelled where (astream_events, astream_agp_events).
THEOREM StreamsEndAsToldOf ==
  ASSUME Calls!EntryAssumption
  PROVE  Calls!Spec => []StreamsEnd
<1>1. Calls!StreamEnds /\ Calls!SessionIsClosed /\ Calls!NoTaskLeft => StreamsEnd
  BY DEF StreamsEnd, StreamEnds, AgpStreamIsClosed, NoTaskLeft
<1> QED
  BY <1>1, StreamsTellTheEnd, PTL

\* A batch tells of each worker once and truly, and leaves none running, for any number
\* of workers, slots, attempts and questions (run_workers_with_hitl).
THEOREM BatchStaysTold ==
  ASSUME Batch!BatchAssumption
  PROVE  Batch!Spec => []BatchIsTold
<1>1. Batch!OneRowEach /\ Batch!NoneLeftRunning /\ Batch!RowsTellTheTruth => BatchIsTold
  BY DEF BatchIsTold, OneRowEach, NoneLeftRunning, RowsTellTheTruth
<1> QED
  BY <1>1, BatchTellsEach, PTL

\* No step undoes what was settled: no attempt begins after a halt, an outcome stays, the
\* skills are seeded once, a connect that fails leaves nothing, for any number of workers,
\* delegations, callers and servers. Delegations are not cancelled: one that completes in
\* spite of its cancel is first cancelled and then completed.
THEOREM NothingIsEverUndone ==
  ASSUME Batch!BatchAssumption, Background!TasksAssumption, Calls!EntryAssumption,
         Mcp!McpAssumption, "cancel" \notin Ops
  PROVE  Batch!Spec /\ Background!Spec /\ Calls!Spec /\ Mcp!Spec => NothingIsUndone
<1>1. Batch!NoAttemptAfterHalt /\ Background!EndsOnce /\ Calls!SeededOnce /\ Mcp!AllOrNothing
        /\ Mcp!ReadyIsConnected => NothingIsUndone
  BY DEF NothingIsUndone, NoAttemptAfterHalt, EndsOnce, SeededOnce, AllOrNothing, ReadyIsConnected
<1> QED
  BY <1>1, HaltEndsAttempts, OutcomesAreFinal, SeedsOnce, AllToolsOrNone, ReadyMeansConnected
===============================================================================
