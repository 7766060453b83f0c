----------------------------- MODULE Orchestrator -----------------------------
(***************************************************************************)
(* Recursive pattern dispatch within one user turn: orchestrator/          *)
(* dispatch.py with its guards (safety.py), its limits (plan.py), its      *)
(* escalation rules (escalation.py) and OrchestrationContext of            *)
(* src/models.py.                                                          *)
(*                                                                         *)
(* A frame is one call of dispatch_pattern that passed the guards.  It     *)
(* keeps a context of its own: child_context copies the parent's counters  *)
(* and lists, so that what a child adds to them stays with the child.      *)
(* A handler may await several children at a time (asyncio.gather).        *)
(* Tokens are counted and limited as calls are and are left out.           *)
(***************************************************************************)
EXTENDS Integers, Sequences, FiniteSets

CONSTANTS
  Pattern,         \* the pattern types of the registry
  Task,            \* hashes of normalized task texts
  Agents,          \* settings of agents, see LimitAssumption
  None,            \* where the classifier says nothing
  MaxSpawns        \* bound: spawns of one handler

\* depth and calls are max_pattern_depth and max_orchestration_llm_calls, escalation is
\* enable_auto_escalation, aggressive the ruleset; complexity and suggested are what the
\* classifier may say of a query and of the limits, patterns what is asked for.
LimitAssumption ==
  /\ {"SWARM", "BLACKBOARD", "REFLECTION", "HYBRID_DAG"} \subseteq Pattern
  /\ None \notin Int /\ MaxSpawns \in Nat
  /\ Agents \subseteq
       [depth : Nat, calls : Nat, escalation : BOOLEAN, aggressive : BOOLEAN,
        complexity : SUBSET (0..10), suggested : SUBSET (Int \cup {None}), patterns : SUBSET Pattern]

VARIABLES
  agent,           \* the agent's settings; they never change
  plan,            \* TurnOrchestrationPlan of the turn
  frames           \* the frames, in the order they were admitted

vars == <<agent, plan, frames>>

-------------------------------------------------------------------------------
(* plan.py *)

Least(a, b) == IF a < b THEN a ELSE b
Positive(a) == IF a < 0 THEN 0 ELSE a

\* _clamp_int
Clamp(value, ceiling) ==
  IF ceiling <= 0 THEN Positive(value) ELSE Positive(Least(value, ceiling))

\* derive_orchestration_from_complexity
Derived(c) ==
  CASE c <= 2 -> [depth |-> 0, calls |-> 0, escalate |-> FALSE]
    [] c \in 3..4 -> [depth |-> 1, calls |-> 15, escalate |-> FALSE]
    [] c \in 5..6 -> [depth |-> 2, calls |-> 30, escalate |-> FALSE]
    [] c \in 7..8 -> [depth |-> 3, calls |-> 50, escalate |-> TRUE]
    [] OTHER -> [depth |-> 4, calls |-> 80, escalate |-> TRUE]

\* `int(agent.get("max_orchestration_llm_calls", 100) or 100)'
AgentCalls == IF agent.calls = 0 THEN 100 ELSE agent.calls

Limit(suggested, derived, ceiling) ==
  Clamp(IF suggested = None THEN derived ELSE Positive(suggested), ceiling)

\* resolve_turn_orchestration, from what the classifier says
TurnPlan(c, depth, calls) ==
  IF agent.depth = 0
  THEN [depth |-> 0, calls |-> 0, escalate |-> FALSE]
  ELSE LET d == Limit(depth, Derived(c).depth, agent.depth)
       IN  [depth |-> d,
            calls |-> Limit(calls, Derived(c).calls, AgentCalls),
            escalate |-> agent.escalation /\ Derived(c).escalate /\ d > 0]

\* resolve_turn_orchestration without the classifier
StaticPlan ==
  [depth |-> agent.depth, calls |-> IF agent.depth = 0 THEN 0 ELSE AgentCalls,
   escalate |-> agent.escalation /\ agent.depth > 0]

TurnPlans ==
  {StaticPlan} \cup {TurnPlan(c, d, k) : c \in agent.complexity, d \in agent.suggested, k \in agent.suggested}

-------------------------------------------------------------------------------
(* safety.py and the context *)

Root == 0

\* child_context: the parent's lists and counters are copied.
Depth(p)   == IF p = Root THEN 0 ELSE frames[p].depth + 1
History(p) == IF p = Root THEN <<>> ELSE frames[p].history
Calls(p)   == IF p = Root THEN 0 ELSE frames[p].calls

\* Mutant of WithinBudget.
WithinBudgetLate(p) ==
  /\ plan.depth > 0 => Depth(p) <= plan.depth
  /\ plan.calls > 0 => Calls(p) < plan.calls

\* Mutant of WithinBudget.
WithinBudgetMore(p) ==
  /\ plan.depth > 0 => Depth(p) < plan.depth
  /\ plan.calls > 0 => Calls(p) <= plan.calls

\* OrchestrationContext.check_budget
WithinBudget(p) ==
  /\ plan.depth > 0 => Depth(p) < plan.depth
  /\ plan.calls > 0 => Calls(p) < plan.calls

Key(r) == <<r.pattern, r.task>>

\* Mutant of Cycle.
CycleOfParent(h, d, key) == \E i \in DOMAIN h : h[i].depth = d - 1 /\ Key(h[i]) = key

\* check_cycle: the pair on the chain of ancestors, or the last three alike
Cycle(h, d, key) ==
  LET recent == SelectSeq(h, LAMBDA r : r.depth >= d - 2)
      n == Len(recent)
  IN  \/ \E i \in DOMAIN h : h[i].depth < d /\ Key(h[i]) = key
      \/ n >= 3 /\ Key(recent[n]) = Key(recent[n - 1]) /\ Key(recent[n]) = Key(recent[n - 2])

Admitted(p, pattern, t) ==
  WithinBudget(p) /\ ~Cycle(History(p), Depth(p), <<pattern, t>>)

Frame(p, pattern, t, follows) ==
  [parent |-> p, depth |-> Depth(p), pattern |-> pattern, task |-> t, calls |-> Calls(p),
   history |-> Append(History(p), [pattern |-> pattern, task |-> t, depth |-> Depth(p)]),
   status |-> "handler", due |-> <<>>, spawned |-> 0, follows |-> follows, charged |-> FALSE]

Children(p) == {f \in DOMAIN frames : frames[f].parent = p}
Idle(p) == \A c \in Children(p) : frames[c].status = "done"

-------------------------------------------------------------------------------
(* escalation.py *)

Evaluation ==
  [conflict : BOOLEAN, unsure : BOOLEAN, failed : BOOLEAN, incomplete : BOOLEAN,
   poor : BOOLEAN, suggested : agent.patterns \cup {None}]

\* Mutant of FollowUps: a failure is followed by a type that is not registered.
FollowUpsUnknown(pattern, e) == IF e.failed THEN <<"PLANNER">> ELSE <<>>

\* check_escalation: the first rule that fires.
FollowUps(pattern, e) ==
  CASE e.conflict /\ agent.aggressive /\ e.failed -> <<"SWARM", "BLACKBOARD">>
    [] e.conflict /\ ~(agent.aggressive /\ e.failed) -> <<"SWARM">>
    [] ~e.conflict /\ e.unsure -> <<"REFLECTION">>
    [] ~e.conflict /\ ~e.unsure /\ e.failed ->
         IF pattern = "SUPERVISOR" THEN <<"HYBRID_DAG">> ELSE <<"REFLECTION">>
    [] ~e.conflict /\ ~e.unsure /\ ~e.failed /\ e.incomplete -> <<"BLACKBOARD">>
    [] ~e.conflict /\ ~e.unsure /\ ~e.failed /\ ~e.incomplete /\ e.poor -> <<"REFLECTION">>
    [] OTHER -> IF e.suggested = None THEN <<>> ELSE <<e.suggested>>

Escalations(f) ==
  IF plan.escalate /\ ~(plan.depth > 0 /\ frames[f].depth + 1 >= plan.depth)
  THEN {FollowUps(frames[f].pattern, e) : e \in Evaluation}
  ELSE {<<>>}

-------------------------------------------------------------------------------
(* dispatch.py *)

Init == agent \in Agents /\ plan \in TurnPlans /\ frames = <<>>

\* run_fresh dispatches the query when the plan has a depth.
Start(pattern, t) ==
  /\ frames = <<>> /\ plan.depth > 0 /\ Admitted(Root, pattern, t)
  /\ frames' = <<Frame(Root, pattern, t, FALSE)>>
  /\ UNCHANGED plan

\* SpawnAPI.spawn_pattern; a dispatch that is refused changes nothing.
Spawn(f, pattern, t) ==
  /\ frames[f].status = "handler" /\ frames[f].spawned < MaxSpawns
  /\ Admitted(f, pattern, t)
  /\ frames' = Append([frames EXCEPT ![f].spawned = @ + 1], Frame(f, pattern, t, FALSE))
  /\ UNCHANGED plan

\* The handler's result is charged to its own context, evaluated, and may call
\* for follow-ups; `used' says whether the result carries token usage.
HandlerReturns(f, used) ==
  /\ frames[f].status = "handler" /\ Idle(f)
  /\ \E due \in Escalations(f) :
       frames' = [frames EXCEPT ![f].status = "escalating", ![f].due = due,
                                ![f].charged = used,
                                ![f].calls = IF used THEN @ + 1 ELSE @]
  /\ UNCHANGED plan

\* Mutant of Escalate.
EscalateAgain(f) ==
  /\ frames[f].status = "escalating" /\ frames[f].due # <<>> /\ Idle(f)
  /\ LET p == Head(frames[f].due)
     IN  frames' = IF Admitted(f, p, frames[f].task)
                   THEN Append([frames EXCEPT ![f].due = Tail(@)], Frame(f, p, frames[f].task, TRUE))
                   ELSE frames
  /\ UNCHANGED plan

\* The next follow-up, when the one before is done.
Escalate(f) ==
  /\ frames[f].status = "escalating" /\ frames[f].due # <<>> /\ Idle(f)
  /\ LET p == Head(frames[f].due)
         rest == [frames EXCEPT ![f].due = Tail(@)]
     IN  frames' = IF Admitted(f, p, frames[f].task)
                   THEN Append(rest, Frame(f, p, frames[f].task, TRUE)) ELSE rest
  /\ UNCHANGED plan

\* A frame ends.  Only a follow-up's usage is charged to the context above it.
Complete(f) ==
  /\ frames[f].status = "escalating" /\ frames[f].due = <<>> /\ Idle(f)
  /\ LET p == frames[f].parent
     IN  frames' = [g \in DOMAIN frames |->
                      IF g = f THEN [frames[g] EXCEPT !.status = "done"]
                      ELSE IF g = p /\ frames[f].follows /\ frames[f].charged
                           THEN [frames[g] EXCEPT !.calls = @ + 1, !.charged = TRUE]
                           ELSE frames[g]]
  /\ UNCHANGED plan

\* A handler that raises ends its frame; whoever awaits a follow-up goes with it,
\* and a handler that awaits a spawn may catch the exception or raise in turn.
HandlerRaises(f) ==
  /\ frames[f].status = "handler" /\ Idle(f)
  /\ frames' = [frames EXCEPT ![f].status = "raising"]
  /\ UNCHANGED plan

Unwind(f) ==
  /\ frames[f].status = "raising"
  /\ frames' = [g \in DOMAIN frames |->
                  IF g = f THEN [frames[g] EXCEPT !.status = "done"]
                  ELSE IF g = frames[f].parent /\ frames[f].follows
                       THEN [frames[g] EXCEPT !.status = "raising"] ELSE frames[g]]
  /\ UNCHANGED plan

FrameStep(f) ==
  \/ \E used \in BOOLEAN : HandlerReturns(f, used)
  \/ HandlerRaises(f)
  \/ Unwind(f)
  \/ Escalate(f)
  \/ Complete(f)

Next ==
  /\ UNCHANGED agent
  /\ \/ \E p \in agent.patterns, t \in Task :
          \/ Start(p, t)
          \/ \E f \in DOMAIN frames : Spawn(f, p, t)
     \/ \E f \in DOMAIN frames : FrameStep(f)

\* Model calls and tools have time-outs, so handlers return.
Fairness == WF_vars(UNCHANGED agent /\ \E f \in DOMAIN frames : FrameStep(f))

Spec == Init /\ [][Next]_vars
FairSpec == Spec /\ Fairness

-------------------------------------------------------------------------------
(* Properties. *)

TypeOK ==
  /\ plan \in [depth : Nat, calls : Nat, escalate : BOOLEAN]
  /\ frames \in Seq([parent : Nat, depth : Nat, pattern : Pattern, task : Task, calls : Nat,
                     history : Seq([pattern : Pattern, task : Task, depth : Nat]),
                     status : {"handler", "escalating", "raising", "done"}, due : Seq(Pattern),
                     spawned : Nat, follows : BOOLEAN, charged : BOOLEAN])

\* "Hard safety limits so runs cannot recurse forever": the chain of frames above
\* a frame is no longer than the agent's ceiling, whatever the classifier said
\* (check_budget, _clamp_int).
ChainsAreShort == \A f \in DOMAIN frames : Len(frames[f].history) <= agent.depth

\* No pair of pattern and task comes twice on a chain (check_cycle), although each
\* context only has a copy of its ancestors' history.
ChainsDoNotRepeat ==
  \A f \in DOMAIN frames :
    LET h == frames[f].history
    IN  \A i, j \in DOMAIN h : i # j => Key(h[i]) # Key(h[j])

\* What a frame has been charged for stays within the turn's limit: the follow-ups
\* of a frame are admitted one by one against its own counter.
OwnBudgetHolds ==
  plan.calls > 0 => \A f \in DOMAIN frames : frames[f].calls <= plan.calls
===============================================================================
