----------------------------- MODULE AgentTurn -----------------------------
(***************************************************************************)
(* One agent and the turns its caller makes one after the other            *)
(* (unified_agent.py, _run_fresh_impl and what ainvoke does around it):    *)
(* the frozen plan (frozen.py), the turn planner, a handoff, the query     *)
(* cache (cache.py), the interrupts of level one, the DIRECT short-circuit,*)
(* the handler, and the traces a turn leaves: session memory, cache entry  *)
(* and checkpoint, from which resume() starts again.                       *)
(*                                                                         *)
(* ainvoke runs on a COPY of the agent's config, {**self.config, ...}:     *)
(* `turn' is that copy together with the locals of _run_fresh_impl, `agent'*)
(* is what stays in self.config.                                           *)
(***************************************************************************)
EXTENDS Integers, Sequences, FiniteSets

CONSTANTS
    Queries,        \* what a user may ask
    NeedsTools,     \* the queries for which query_needs_registered_tools holds
    Registered,     \* the patterns with a handler
    Ttl,            \* CACHE_TTL in ticks; 0: the pattern is not cached
    Merging,        \* patterns whose handler adds its workers' tokens to its own
    Setups,         \* how an agent may be set up, see TurnAssumption
    MaxAge,         \* bound: ages are not told apart above it
    None

\* planned is what the turn planner may choose, before and after are interrupt_before and
\* interrupt_after, cache says that a query cache is set, expires that frozen plans do,
\* callable that the system prompt is a function, custom that DIRECT has a handler of its
\* own, targets that the agent has targets to hand a turn to; turns is a bound on turns,
\* resumes and resets together.
TurnAssumption ==
    /\ NeedsTools \subseteq Queries
    /\ {"DIRECT", "REACT"} \subseteq Registered
    /\ \A s \in Setups :
          /\ {s.cache, s.frozen, s.expires, s.callable, s.custom, s.targets} \subseteq BOOLEAN
          /\ s.turns \in Nat /\ None \notin s.before
    /\ MaxAge \in Nat /\ \A p \in Registered : Ttl[p] \in 0..MaxAge
    /\ None \notin [pat : Registered, prompt : {"fixed", "callable"}, text : Queries]

VARIABLES
    setup,          \* how the agent is set up; it never changes
    agent, turn, cache, memory, ckpt, n, seen

vars == <<setup, agent, turn, cache, memory, ckpt, n, seen>>

Outputs == [q : Queries, n : Nat, pat : Registered, ok : BOOLEAN]
Plan == [pat : Registered, prompt : {"fixed", "callable"}, text : Queries]
Phases == {"idle", "prepare", "lock", "open", "classify", "handoff", "cache", "before",
           "coerce", "run", "after", "post", "keep", "store", "end"}

NoTurn == [ph |-> "idle", k |-> 0, q |-> None, text |-> None, plan |-> None, pat |-> None, direct |-> FALSE,
           replay |-> FALSE, res |-> None, agreed |-> {}, ran |-> None, short |-> FALSE,
           work |-> 0, usage |-> 0, how |-> "none"]

Init ==
    /\ setup \in Setups
    /\ agent = [plan |-> None, text |-> None, last |-> None]
    /\ turn = NoTurn
    /\ cache = {}
    /\ memory = <<>>
    /\ ckpt = None
    /\ n = 0
    /\ seen = [calls |-> 0, locks |-> 0, resumed |-> FALSE]

Goto(ph) == [turn EXCEPT !.ph = ph]
Result(ok) == [q |-> turn.q, n |-> turn.k, pat |-> turn.pat, ok |-> ok]

(* _record_turn: a transcript line, whatever the result. *)
Recorded == Append(memory, [q |-> turn.q, n |-> turn.k])

(***************************************************************************)
(* ainvoke, _prepare_turn: the turn lock is taken, the input normalized.   *)
(***************************************************************************)
Begin(q) ==
    /\ turn.ph \in {"idle", "end"} /\ n < setup.turns
    /\ n' = n + 1
    /\ turn' = [NoTurn EXCEPT !.ph = "prepare", !.k = n + 1, !.q = q]
    /\ UNCHANGED <<agent, cache, memory, ckpt, seen>>

(* The prompt's part of agent_fingerprint: str() of the callable in the    *)
(* agent's config, the resolved text in the copy of a turn.                *)
AgentPrompt == IF setup.callable THEN "callable" ELSE "fixed"
Cleared == [agent EXCEPT !.plan = None, !.text = None]

(* _ensure_frozen_plan: keep a live plan; else classify_text_for_freeze    *)
(* takes the text that is stored, or stores the user's.                    *)
EnsureFrozenPlan(expired) ==
    /\ turn.ph = "prepare"
    /\ expired => setup.frozen /\ setup.expires /\ agent.plan # None
    /\ LET a == IF expired THEN Cleared ELSE agent
       IN  IF ~setup.frozen \/ a.plan # None
           THEN agent' = a /\ turn' = [turn EXCEPT !.ph = "open", !.plan = a.plan]
           ELSE /\ agent' = [a EXCEPT !.text = IF @ = None THEN turn.q ELSE @]
                /\ turn' = [turn EXCEPT !.ph = "lock", !.text = agent'.text]
    /\ UNCHANGED <<cache, memory, ckpt, n, seen>>

(* _coerce_unknown_pattern_handler *)

Coerced(p) == IF p \in Registered THEN p ELSE "REACT"

(* The classification returns and build_execution_plan locks it.           *)
LockFrozenPlan(p) ==
    /\ turn.ph = "lock"
    /\ agent' = [agent EXCEPT !.text = turn.text,
                    !.plan = [pat |-> Coerced(p), prompt |-> AgentPrompt, text |-> turn.text]]
    /\ turn' = [turn EXCEPT !.ph = "open", !.plan = agent'.plan]
    /\ seen' = [seen EXCEPT !.calls = @ + 1, !.locks = @ + 1]
    /\ UNCHANGED <<cache, memory, ckpt, n>>

\* Mutant of FrozenReplayActive.
FrozenReplayNever == FALSE

(* get_frozen_plan on the config of the turn: a plan with another          *)
(* fingerprint is cleared there.                                           *)
FrozenReplayActive == setup.frozen /\ turn.plan # None /\ turn.plan.prompt = "fixed"

\* Mutant of OpenTurn.
OpenTurnLive ==
    /\ turn.ph = "open"
    /\ turn' = IF FrozenReplayActive
               THEN [turn EXCEPT !.ph = "before", !.replay = TRUE, !.pat = "SUPERVISOR"]
               ELSE Goto("classify")
    /\ UNCHANGED <<agent, cache, memory, ckpt, n, seen>>

(* The copy of the config, before_agent, the system prompt of the turn and *)
(* the memory context; then replay (apply_frozen_turn) or classify.        *)
OpenTurn ==
    /\ turn.ph = "open"
    /\ turn' = IF FrozenReplayActive
               THEN [turn EXCEPT !.ph = "before", !.replay = TRUE, !.pat = turn.plan.pat]
               ELSE Goto("classify")
    /\ UNCHANGED <<agent, cache, memory, ckpt, n, seen>>

(* The turn planner. config["_last_turn_analysis"] is set in the copy.     *)
Classify(p, direct) ==
    /\ turn.ph = "classify"
    /\ direct => p = "DIRECT"
    /\ turn' = [turn EXCEPT !.ph = "handoff", !.pat = Coerced(p), !.direct = direct]
    /\ seen' = [seen EXCEPT !.calls = @ + 1]
    /\ UNCHANGED <<agent, cache, memory, ckpt, n>>

\* Mutant of Handoff.
HandoffNoRecord(ok) ==
    /\ turn.ph = "handoff" /\ setup.targets
    /\ turn' = [turn EXCEPT !.ph = "store", !.res = Result(ok), !.how = "handoff"]
    /\ UNCHANGED <<agent, cache, memory, ckpt, n, seen>>

(* The reasoning names a target: it answers, the turn is recorded and over.*)
Handoff(ok) ==
    /\ turn.ph = "handoff" /\ setup.targets
    /\ turn' = [turn EXCEPT !.ph = "store", !.res = Result(ok), !.how = "handoff"]
    /\ memory' = Recorded
    /\ UNCHANGED <<agent, cache, ckpt, n, seen>>

NoHandoff ==
    /\ turn.ph = "handoff"
    /\ turn' = Goto(IF setup.cache /\ ~setup.frozen THEN "cache" ELSE "before")
    /\ UNCHANGED <<agent, cache, memory, ckpt, n, seen>>

(***************************************************************************)
(* cache_get: the nearest point, aged against the TTL of the pattern of    *)
(* this turn, deleted when it is older.                                    *)
(***************************************************************************)
Similar == IF Ttl[turn.pat] = 0 THEN {} ELSE {e \in cache : e.out.q = turn.q}

CacheHit(e) ==
    /\ turn.ph = "cache" /\ e \in Similar /\ e.age <= Ttl[turn.pat]
    /\ turn' = [turn EXCEPT !.ph = "store", !.how = "cached",
                            !.res = [e.out EXCEPT !.pat = e.pat, !.ok = TRUE]]
    /\ memory' = Recorded
    /\ UNCHANGED <<agent, cache, ckpt, n, seen>>

CacheMiss(e) ==
    /\ turn.ph = "cache"
    /\ \/ Similar = {} /\ e = None
       \/ e \in Similar /\ e.age > Ttl[turn.pat]
    /\ cache' = cache \ {e}
    /\ turn' = Goto("before")
    /\ UNCHANGED <<agent, memory, ckpt, n, seen>>

(* cache_set *)
Stored(out) ==
    IF setup.cache /\ ~setup.frozen /\ Ttl[turn.pat] > 0
    THEN cache \cup {[out |-> out, pat |-> turn.pat, age |-> 0]} ELSE cache

(* cache_cleanup, of the loop an application may start: each entry against *)
(* the TTL of its own pattern.                                             *)
CacheCleanup ==
    /\ cache' = {e \in cache : e.age <= Ttl[e.pat]}
    /\ cache' # cache
    /\ UNCHANGED <<agent, turn, memory, ckpt, n, seen>>

Tick ==
    /\ \E e \in cache : e.age <= MaxAge
    /\ cache' = {[e EXCEPT !.age = IF @ > MaxAge THEN @ ELSE @ + 1] : e \in cache}
    /\ UNCHANGED <<agent, turn, memory, ckpt, n, seen>>

(***************************************************************************)
(* Interrupts, DIRECT and the handler.                                     *)
(***************************************************************************)
(* _check_pattern_interrupt("before"): no callback or one that raises is a *)
(* yes. A refusal ends the turn: nothing is recorded.                      *)
\* Mutant of InterruptBefore.
InterruptBeforeForgets(yes) ==
    /\ turn.ph = "before"
    /\ yes \/ turn.pat \in setup.before
    /\ turn' = Goto("coerce")
    /\ UNCHANGED <<agent, cache, memory, ckpt, n, seen>>

InterruptBefore(yes) ==
    /\ turn.ph = "before"
    /\ yes \/ turn.pat \in setup.before
    /\ turn' = IF yes THEN [turn EXCEPT !.ph = "coerce",
                              !.agreed = IF turn.pat \in setup.before THEN @ \cup {turn.pat} ELSE @]
               ELSE [turn EXCEPT !.ph = "store", !.res = Result(FALSE), !.how = "aborted"]
    /\ UNCHANGED <<agent, cache, memory, ckpt, n, seen>>

(* DIRECT with tools that the query needs becomes REACT; only then is it   *)
(* known whether the planner's own text is the answer.                     *)
CoerceDirect ==
    /\ turn.ph = "coerce"
    /\ LET tools == turn.pat = "DIRECT" /\ turn.q \in NeedsTools
           short == turn.direct /\ ~turn.replay /\ ~tools /\ ~setup.custom
       IN  turn' = IF short THEN [turn EXCEPT !.ph = "after", !.short = TRUE,
                                              !.usage = 1, !.res = Result(TRUE)]
                   ELSE [turn EXCEPT !.ph = "run", !.pat = IF tools THEN "REACT" ELSE @]
    /\ UNCHANGED <<agent, cache, memory, ckpt, n, seen>>

(* handler(...) or dispatch_pattern(...): its result, its own tokens and   *)
(* those of its workers.                                                   *)
Execute(ok, work) ==
    /\ turn.ph = "run"
    /\ work > 0 => turn.pat \in Merging
    /\ turn' = [turn EXCEPT !.ph = "after", !.res = Result(ok), !.ran = turn.pat,
                            !.work = work,
                            !.usage = 1 + (IF turn.pat \in Merging THEN work ELSE 0)]
    /\ UNCHANGED <<agent, cache, memory, ckpt, n, seen>>

(* A refusal after: another result, a failure; only the short-circuit      *)
(* carries the token usage over.                                           *)
InterruptAfter(yes) ==
    /\ turn.ph = "after"
    /\ yes \/ turn.pat \in setup.after
    /\ turn' = [turn EXCEPT !.ph = "post", !.res = Result(yes /\ turn.res.ok),
                            !.usage = IF yes \/ turn.short THEN @ ELSE 0]
    /\ UNCHANGED <<agent, cache, memory, ckpt, n, seen>>

\* Mutant of RecordTurn: the usage is the result's.
RecordTurnUnbilled ==
    /\ turn.ph = "post"
    /\ turn' = Goto("keep")
    /\ memory' = Recorded
    /\ UNCHANGED <<agent, cache, ckpt, n, seen>>

(* after_agent, response_format, skills and feedback, none of which fails  *)
(* the turn; the usage adds the workers' to the result's; _record_turn.    *)
RecordTurn ==
    /\ turn.ph = "post"
    /\ turn' = [turn EXCEPT !.ph = "keep", !.usage = IF turn.short THEN @ ELSE @ + turn.work]
    /\ memory' = Recorded
    /\ UNCHANGED <<agent, cache, ckpt, n, seen>>

\* Mutant of CacheResult.
CacheResultAlways ==
    /\ turn.ph = "keep"
    /\ cache' = Stored(turn.res)
    /\ turn' = [turn EXCEPT !.ph = "store", !.how = "answered"]
    /\ UNCHANGED <<agent, memory, ckpt, n, seen>>

(* cache_set: a handler's result when it is a success, the short-circuit's *)
(* in any case.                                                            *)
CacheResult ==
    /\ turn.ph = "keep"
    /\ cache' = IF turn.short \/ turn.res.ok THEN Stored(turn.res) ELSE cache
    /\ turn' = [turn EXCEPT !.ph = "store", !.how = "answered"]
    /\ UNCHANGED <<agent, memory, ckpt, n, seen>>

(* _save_checkpoint of whatever came back; a cached result carries no      *)
(* analysis.                                                               *)
SaveCheckpoint ==
    /\ turn.ph = "store"
    /\ ckpt' = [n |-> turn.k, analysis |-> IF turn.how = "cached" THEN None ELSE turn.pat]
    /\ turn' = Goto("end")
    /\ UNCHANGED <<agent, cache, memory, n, seen>>

\* Mutant of Cancel.
CancelClears ==
    /\ turn.ph \notin {"idle", "end"}
    /\ turn' = NoTurn
    /\ agent' = Cleared
    /\ UNCHANGED <<cache, memory, ckpt, n, seen>>

(* The caller cancels the turn, or a step of it raises: the copy is gone.  *)
Cancel ==
    /\ turn.ph \notin {"idle", "end"}
    /\ turn' = NoTurn
    /\ UNCHANGED <<agent, cache, memory, ckpt, n, seen>>

(* reset_frozen takes no lock. *)
ResetFrozen ==
    /\ setup.frozen /\ n < setup.turns
    /\ n' = n + 1
    /\ agent' = Cleared
    /\ UNCHANGED <<turn, cache, memory, ckpt, seen>>

(* resume: the analysis of the checkpoint, else the agent's last one; with *)
(* neither the graph's classify node classifies. A result is recorded, a   *)
(* graph that raises or has none is not.                                   *)
Resume(ok) ==
    /\ turn.ph \in {"idle", "end"} /\ n < setup.turns
    /\ n' = n + 1
    /\ LET kept == IF ckpt # None /\ ckpt.analysis # None THEN ckpt.analysis ELSE agent.last
       IN  seen' = [seen EXCEPT !.resumed = TRUE, !.calls = IF kept = None THEN @ + 1 ELSE @]
    /\ memory' = IF ok THEN Append(memory, [q |-> "RESUME", n |-> n']) ELSE memory
    /\ UNCHANGED <<agent, turn, cache, ckpt>>

Step ==
    \/ \E q \in Queries : Begin(q)
    \/ \E x \in BOOLEAN : EnsureFrozenPlan(x) \/ Handoff(x) \/ InterruptBefore(x) \/ InterruptAfter(x) \/ Resume(x)
    \/ \E p \in setup.planned : LockFrozenPlan(p) \/ \E d \in BOOLEAN : Classify(p, d)
    \/ \E e \in cache : CacheHit(e)
    \/ \E e \in cache \cup {None} : CacheMiss(e)
    \/ \E ok \in BOOLEAN, w \in 0..1 : Execute(ok, w)
    \/ OpenTurn \/ NoHandoff \/ CoerceDirect \/ RecordTurn \/ CacheResult \/ SaveCheckpoint
    \/ CacheCleanup \/ Tick \/ Cancel \/ ResetFrozen

Next == UNCHANGED setup /\ Step

Spec == Init /\ [][Next]_vars

(***************************************************************************)
(* Properties.                                                             *)
(***************************************************************************)
(* Types of the state kept between turns and of the turn under way.        *)
TypeOK ==
    /\ agent.plan \in Plan \cup {None} /\ agent.text \in Queries \cup {None}
    /\ turn.ph \in Phases /\ turn.pat \in Registered \cup {None}
    /\ turn.res \in Outputs \cup {None}
    /\ \A e \in cache : e.out \in Outputs /\ Ttl[e.pat] > 0 /\ e.age \in 0..(MaxAge + 1)
    /\ n \in 0..setup.turns

(* _record_turn: whatever way a turn ends, its question is in the session  *)
(* memory exactly once, and not at all when the user refused it before the *)
(* handler or when it was cancelled before it had a result.                *)
Count(k) == Cardinality({i \in DOMAIN memory : memory[i].n = k})
RecordedOnce ==
    turn.ph = "end" => Count(turn.k) = IF turn.how = "aborted" THEN 0 ELSE 1

(* interrupt_before: a handler runs only after the user agreed to its      *)
(* pattern, where the planner itself chose that pattern.                   *)
ChosenIsAsked ==
    turn.ran \in setup.before /\ turn.ph # "idle" =>
        turn.ran \in turn.agreed \/ turn.q \in NeedsTools

(* What the cache keeps of a handler is a success of that very query, and  *)
(* nothing a frozen agent did.                                             *)
CacheHoldsWork ==
    \A e \in cache : e.pat = e.out.pat /\ ~setup.frozen /\ (e.out.ok \/ e.pat = "DIRECT")

(* The turn's usage counts every token of the workers, whichever way the   *)
(* turn was answered; a refusal after the handler drops only its own.      *)
WorkersAreBilled == turn.how = "answered" => turn.usage >= turn.work

(* frozen: while a plan is in force every turn that replays runs its       *)
(* pattern, whatever was classified later, and asks for no classification. *)
ReplayFollowsPlan ==
    turn.replay /\ turn.ran # None => turn.ran \in {turn.plan.pat, "REACT"} /\ turn.how # "cached"

(* frozen-agents.md: the planner runs once per lock. (With a callable      *)
(* system prompt the plan never has the fingerprint of the turn.)          *)
ClassifiesOnce ==
    setup.frozen /\ ~setup.callable /\ ~seen.resumed => seen.calls <= seen.locks

(* The lock of a plan is released only by its expiry or by reset_frozen:   *)
(* no turn, cancelled or not, takes it away.                               *)
PlanStays ==
    [][agent.plan # None /\ agent'.plan # agent.plan =>
        (turn.ph = "prepare" /\ setup.expires) \/ n' # n]_vars
=============================================================================
