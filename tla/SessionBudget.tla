----------------------------- MODULE SessionBudget -----------------------------
(***************************************************************************)
(* The token and cost budget of a session: SessionBudgetTracker            *)
(* (runtime/budget_tracker.py), the place in the dispatcher where it       *)
(* refuses an invocation, the translator that feeds it, the command that   *)
(* changes its limits, and the status the terminal client derives from     *)
(* metric.budget.*.  A unit of use is abstract; 0.8 is kept as 4/5.        *)
(***************************************************************************)
EXTENDS Integers

CONSTANTS
  Dim,             \* the dimensions: tokens and cost
  Turn,            \* invocations that may run at once
  None,            \* no limit
  Started,         \* Started[d]: the limits of the command line
  Limit,           \* limits that command.config.set may carry; 0 clears
  Delta,           \* units of one LLM call
  MaxUsed,         \* bound: units a session uses
  MaxPatches,      \* bound: command.config.set
  MaxRuns          \* bound: processes that serve the session

BudgetAssumption ==
  /\ None \notin Nat
  /\ Started \in [Dim -> Nat \cup {None}]
  /\ Limit \subseteq Nat /\ Delta \subseteq Nat
  /\ {MaxUsed, MaxPatches, MaxRuns} \subseteq Nat

VARIABLES
  tracker,         \* a tracker exists: the command line had a limit
  limit,           \* token_limit and cost_limit_usd
  used,            \* _cum_tokens and _cum_cost
  at80, at100,     \* the latches
  running,         \* invocations under way
  shown,           \* budgetUi of the client
  spent,           \* history: the use of the session, in all processes
  patches, runs    \* the bounded counters

vars == <<tracker, limit, used, at80, at100, running, shown, spent, patches, runs>>

\* __init__ and patch_limits drop limits that are not positive
Positive(n) == IF n = None \/ n = 0 THEN None ELSE n

Fresh ==
  /\ tracker' = (\E d \in Dim : Positive(Started[d]) # None)
  /\ limit' = [d \in Dim |-> Positive(Started[d])]
  /\ used' = [d \in Dim |-> 0]
  /\ at80' = [d \in Dim |-> FALSE] /\ at100' = [d \in Dim |-> FALSE]
  /\ running' = {}
  /\ shown' = "ok"

Init ==
  /\ tracker = (\E d \in Dim : Positive(Started[d]) # None)
  /\ limit = [d \in Dim |-> Positive(Started[d])]
  /\ used = [d \in Dim |-> 0]
  /\ at80 = [d \in Dim |-> FALSE] /\ at100 = [d \in Dim |-> FALSE]
  /\ running = {} /\ shown = "ok"
  /\ spent = [d \in Dim |-> 0]
  /\ patches = 0 /\ runs = 1

Reached(lim, use) == lim # None /\ use >= lim
Blocked == tracker /\ \E d \in Dim : Reached(limit[d], used[d])

-------------------------------------------------------------------------------
(* The runtime *)

\* reserve_invoke_slot, then message.user resets the client's status
Invoke(t) ==
  /\ t \notin running /\ ~Blocked
  /\ running' = running \cup {t}
  /\ shown' = "ok"
  /\ UNCHANGED <<tracker, limit, used, at80, at100, spent, patches, runs>>

Finish(t) ==
  /\ t \in running
  /\ running' = running \ {t}
  /\ UNCHANGED <<tracker, limit, used, at80, at100, shown, spent, patches, runs>>

\* Mutant of EventOf: "exhausted" only above the limit.
EventAbove(d, n) ==
  LET use == used[d] + n IN
  IF ~tracker \/ n = 0 \/ limit[d] = None THEN "nothing"
  ELSE IF use > limit[d] /\ ~at100[d] THEN "exhausted"
  ELSE IF 5 * use >= 4 * limit[d] /\ ~at80[d] THEN "approaching"
  ELSE "nothing"

\* the event that recording a use of n units of d emits
EventOf(d, n) ==
  LET use == used[d] + n IN
  IF ~tracker \/ n = 0 \/ limit[d] = None THEN "nothing"
  ELSE IF use >= limit[d] /\ ~at100[d] THEN "exhausted"
  ELSE IF 5 * use >= 4 * limit[d] /\ ~at80[d] THEN "approaching"
  ELSE "nothing"

\* Mutant of LastShown: the client shows an event that is none.
ShownAsIs(e) == e["cost"]

\* the client keeps the event that came last: tokens are recorded before cost
LastShown(e) ==
  IF e["cost"] # "nothing" THEN e["cost"]
  ELSE IF e["tokens"] # "nothing" THEN e["tokens"]
  ELSE shown

\* Mutant of Record: the tracker counts only one invocation at a time.
RecordAlone(t, n) ==
  LET e == [d \in Dim |-> EventOf(d, n[d])] IN
  /\ t \in running
  /\ \A d \in Dim : spent[d] + n[d] <= MaxUsed
  /\ used' = IF tracker /\ running = {t} THEN [d \in Dim |-> used[d] + n[d]] ELSE used
  /\ spent' = [d \in Dim |-> spent[d] + n[d]]
  /\ at100' = [d \in Dim |-> at100[d] \/ e[d] = "exhausted"]
  /\ at80' = [d \in Dim |-> at80[d] \/ e[d] = "approaching"]
  /\ shown' = LastShown(e)
  /\ UNCHANGED <<tracker, limit, running, patches, runs>>

\* an llm_call event of an invocation: record_tokens_delta, record_cost_delta
Record(t, n) ==
  LET e == [d \in Dim |-> EventOf(d, n[d])] IN
  /\ t \in running
  /\ \A d \in Dim : spent[d] + n[d] <= MaxUsed
  /\ used' = IF tracker THEN [d \in Dim |-> used[d] + n[d]] ELSE used
  /\ spent' = [d \in Dim |-> spent[d] + n[d]]
  /\ at100' = [d \in Dim |-> at100[d] \/ e[d] = "exhausted"]
  /\ at80' = [d \in Dim |-> at80[d] \/ e[d] = "approaching"]
  /\ shown' = LastShown(e)
  /\ UNCHANGED <<tracker, limit, running, patches, runs>>

\* Mutant of PatchLimits: patch_limits forgets the latches.
PatchKeepsLatches(ds, n) ==
  /\ patches < MaxPatches /\ patches' = patches + 1
  /\ limit' = [d \in Dim |-> IF d \in ds /\ tracker THEN Positive(n) ELSE limit[d]]
  /\ shown' = "ok"
  /\ UNCHANGED <<tracker, used, at80, at100, running, spent, runs>>

\* command.config.set with a limit for the dimensions in ds; the terminal client
\* shows "ok" as soon as it has sent the command
PatchLimits(ds, n) ==
  /\ patches < MaxPatches /\ patches' = patches + 1
  /\ IF tracker
     THEN /\ limit' = [d \in Dim |-> IF d \in ds THEN Positive(n) ELSE limit[d]]
          /\ at80' = [d \in Dim |-> at80[d] /\ d \notin ds]
          /\ at100' = [d \in Dim |-> at100[d] /\ d \notin ds]
     ELSE UNCHANGED <<limit, at80, at100>>
  /\ shown' = "ok"
  /\ UNCHANGED <<tracker, used, running, spent, runs>>

\* the process ends; the next one resumes the session with the same options
Restart ==
  /\ runs < MaxRuns /\ runs' = runs + 1
  /\ Fresh
  /\ UNCHANGED <<spent, patches>>

Next ==
  \/ \E t \in Turn : Invoke(t) \/ Finish(t)
  \/ \E t \in Turn, n \in [Dim -> Delta] : Record(t, n)
  \/ \E ds \in SUBSET Dim \ {{}}, n \in Limit : PatchLimits(ds, n)
  \/ Restart

Spec == Init /\ [][Next]_vars

-------------------------------------------------------------------------------
(* Properties *)

\* the latches, counters and the client's status have their types
TypeOK ==
  /\ tracker \in BOOLEAN
  /\ limit \in [Dim -> Nat \cup {None}]
  /\ used \in [Dim -> Nat] /\ spent \in [Dim -> Nat]
  /\ at80 \in [Dim -> BOOLEAN] /\ at100 \in [Dim -> BOOLEAN]
  /\ running \subseteq Turn
  /\ shown \in {"ok", "approaching", "exhausted"}

\* a latch that stays set stands for a limit that is still reached: after a
\* raise the next crossing is announced again (patch_limits resets both)
LatchesAreHonest ==
  \A d \in Dim : limit[d] # None =>
    /\ at100[d] => used[d] >= limit[d]
    /\ at80[d] => 5 * used[d] >= 4 * limit[d]

\* without a change of limits, a session that refuses invocations has said
\* which dimension is exhausted
RefusalIsTold ==
  patches = 0 => \A d \in Dim : tracker /\ Reached(limit[d], used[d]) => at100[d]

\* a use is counted once per dimension, whichever invocation caused it: the
\* tracker never has less than what its process spent
NothingEscapes == tracker /\ runs = 1 => used = spent
===============================================================================
