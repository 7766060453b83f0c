--------------------------------- MODULE FanOut ---------------------------------
(***************************************************************************)
(* The patterns that run all their workers at once: supervisor             *)
(* (patterns/supervisor.py) and swarm (patterns/swarm.py), with the        *)
(* recovery and the conflict resolution of orchestrator/hooks.py and the   *)
(* rules of patterns/_synthesis_contract.py.  Besides the rows the model   *)
(* keeps what the event stream says of each worker and which runs the      *)
(* token usage of the result counts.                                       *)
(***************************************************************************)
EXTENDS Integers, FiniteSets

CONSTANTS
  Worker,     \* the workers a plan may name
  Fallback,   \* the worker of the plan when the manager LLM fails
  Setups,     \* how a pattern may be set up, see FanOutAssumption
  MayHalt     \* a bound: a HALT_ALL may be sent

\* gated are the interrupt_before_workers; spawns says that pattern spawns are enabled
FanOutAssumption ==
  /\ Setups \subseteq [mode : {"supervisor", "swarm"}, gated : SUBSET Worker, spawns : BOOLEAN]
  /\ Fallback \in Worker /\ MayHalt \in BOOLEAN

VARIABLES
  setup,      \* the pattern's set-up; it never changes
  pc,         \* "plan", "announce", "gate", "run", "collect", "recover", "resolve", "synthesize", "done"
  plans,      \* the workers of the plan
  live,       \* workers under way
  row,        \* row[w]: "none" or the signal of its WorkerResult
  skipped,    \* skipped_ids
  wire,       \* wire[w]: "none", "started", or the signal of its worker_end
  queued,     \* a HALT_ALL is in the signal queue
  usage,      \* runs the token usage of the result counts
  result,     \* [success, error, usage]
  spent,      \* history: runs that used tokens
  sent        \* history: a HALT_ALL was sent
vars == <<setup, pc, plans, live, row, skipped, wire, queued, usage, result, spent, sent>>

Runs == (Worker \X {"run", "recovery"}) \cup {<<"synthesis">>, <<"resolution">>}

\* run_dag_level_workers gives each worker a batch and a listener of its own
Dispatching == setup.mode = "supervisor" /\ setup.spawns /\ setup.gated = {}

\* nothing runs a second time
NoRecovery == setup.mode = "swarm" \/ ~setup.spawns

With(ws, r) == [w \in Worker |-> IF w \in ws THEN r ELSE row[w]]
Ok == {w \in Worker : row[w] = "ok"}
Rows == {w \in Worker : row[w] # "none"}

Init ==
  /\ setup \in Setups
  /\ pc = "plan" /\ plans = {} /\ live = {} /\ skipped = {}
  /\ row = [w \in Worker |-> "none"] /\ wire = [w \in Worker |-> "none"]
  /\ queued = FALSE /\ usage = {} /\ spent = {} /\ sent = FALSE
  /\ result = [success |-> FALSE, error |-> "none", usage |-> {}]

Return(success, error, used) ==
  /\ pc' = "done"
  /\ result' = [success |-> success, error |-> error, usage |-> used]

\* the classifier's subtasks; without any, a supervisor asks its manager LLM, which
\* may fail (one fallback worker) or plan nothing
Plan ==
  /\ pc = "plan"
  /\ \E subtasks \in SUBSET Worker :
       /\ \/ plans' = subtasks
          \/ setup.mode = "supervisor" /\ subtasks = {} /\ plans' \in {ws \in SUBSET Worker : ws # {}}
          \/ setup.mode = "supervisor" /\ subtasks = {} /\ plans' = {Fallback}
       /\ IF plans' = {} THEN Return(FALSE, "planning", {}) ELSE pc' = "announce" /\ UNCHANGED result
  /\ UNCHANGED <<live, row, skipped, wire, queued, usage, spent, sent>>

\* a worker_start for every worker of the plan, before anything is asked
Announce ==
  /\ pc = "announce"
  /\ wire' = [w \in Worker |-> IF w \in plans THEN "started" ELSE wire[w]]
  /\ pc' = "gate"
  /\ UNCHANGED <<plans, live, row, skipped, queued, usage, result, spent, sent>>

\* Mutant of Gate: declined workers run.
GateIgnored ==
  /\ pc = "gate"
  /\ \E no \in SUBSET (plans \cap setup.gated) : skipped' = no /\ live' = plans
  /\ pc' = "run"
  /\ UNCHANGED <<plans, row, wire, queued, usage, result, spent, sent>>

Gate ==
  /\ pc = "gate"
  /\ \E no \in SUBSET (plans \cap setup.gated) : skipped' = no /\ live' = plans \ no
  /\ pc' = "run"
  /\ UNCHANGED <<plans, row, wire, queued, usage, result, spent, sent>>

End(w, r) ==
  /\ w \in live
  /\ live' = live \ {w} /\ row' = With({w}, r) /\ spent' = spent \cup {<<w, "run">>}
  /\ UNCHANGED <<pc, plans, skipped, wire, queued, usage, result, sent>>

\* Mutant of HaltBatch: the listener cancels one worker.
HaltOne ==
  /\ queued /\ live # {}
  /\ queued' = FALSE
  /\ \E w \in live : live' = live \ {w} /\ row' = With({w}, "halted")
  /\ UNCHANGED <<pc, plans, skipped, wire, usage, result, spent, sent>>

HaltBatch ==
  /\ queued /\ live # {}
  /\ queued' = FALSE
  /\ \E ws \in IF Dispatching THEN {{w} : w \in live} ELSE {live} :
       live' = live \ ws /\ row' = With(ws, "halted")
  /\ UNCHANGED <<pc, plans, skipped, wire, usage, result, spent, sent>>

\* Mutant of Collect: every row ends as a success on the wire.
CollectGreen ==
  /\ pc = "run" /\ live = {}
  /\ row' = IF setup.mode = "swarm" THEN With(skipped, "halted") ELSE row
  /\ wire' = [w \in Worker |-> IF row'[w] # "none" THEN "ok" ELSE wire[w]]
  /\ usage' = {u \in spent : u[1] \in Rows}
  /\ pc' = IF setup.mode = "swarm" THEN "resolve" ELSE "recover"
  /\ UNCHANGED <<plans, live, skipped, queued, result, spent, sent>>

\* Mutant of Collect: a batch without workers is waited for.
CollectSome ==
  /\ pc = "run" /\ live = {} /\ Rows # {}
  /\ row' = IF setup.mode = "swarm" THEN With(skipped, "halted") ELSE row
  /\ wire' = [w \in Worker |-> IF row'[w] # "none" THEN row'[w] ELSE wire[w]]
  /\ usage' = {u \in spent : u[1] \in Rows}
  /\ pc' = IF setup.mode = "swarm" THEN "resolve" ELSE "recover"
  /\ UNCHANGED <<plans, live, skipped, queued, result, spent, sent>>

\* Mutant of Collect: only workers that succeeded get a worker_end.
CollectOk ==
  /\ pc = "run" /\ live = {}
  /\ row' = IF setup.mode = "swarm" THEN With(skipped, "halted") ELSE row
  /\ wire' = [w \in Worker |-> IF row'[w] = "ok" THEN row'[w] ELSE wire[w]]
  /\ usage' = {u \in spent : u[1] \in Rows}
  /\ pc' = IF setup.mode = "swarm" THEN "resolve" ELSE "recover"
  /\ UNCHANGED <<plans, live, skipped, queued, result, spent, sent>>

\* a swarm gives its skipped workers rows; then every row gets its worker_end, and
\* its usage is merged
Collect ==
  /\ pc = "run" /\ live = {}
  /\ row' = IF setup.mode = "swarm" THEN With(skipped, "halted") ELSE row
  /\ wire' = [w \in Worker |-> IF row'[w] # "none" THEN row'[w] ELSE wire[w]]
  /\ usage' = {u \in spent : u[1] \in Rows}
  /\ pc' = IF setup.mode = "swarm" THEN "resolve" ELSE "recover"
  /\ UNCHANGED <<plans, live, skipped, queued, result, spent, sent>>

\* Mutant of Recover: the branch for a declined plan is missing.
RecoverAlways ==
  /\ pc = "recover"
  /\ pc' = "synthesize"
  /\ UNCHANGED <<plans, live, row, skipped, wire, queued, usage, result, spent, sent>>

\* supervisor: recover_failed_workers, then the branch for a declined plan
Recover ==
  /\ pc = "recover"
  /\ \E tried \in IF setup.spawns THEN {Rows \ Ok} ELSE {{}} : \E saved \in SUBSET tried :
       row' = With(saved, "ok") /\ spent' = spent \cup (tried \X {"recovery"})
  /\ IF Rows = {} THEN Return(TRUE, "none", {}) ELSE pc' = "synthesize" /\ UNCHANGED result
  /\ UNCHANGED <<plans, live, skipped, wire, queued, usage, sent>>

\* Mutant of Resolve: agents without success are reconciled too.
ResolveAny ==
  /\ pc = "resolve"
  /\ IF Ok # {} THEN pc' = "synthesize" /\ UNCHANGED result ELSE Return(TRUE, "none", usage)
  /\ UNCHANGED <<plans, live, row, skipped, wire, queued, usage, spent, sent>>

\* swarm: outputs that conflict may be reconciled by a blackboard; then the branch
\* for agents without success
Resolve ==
  /\ pc = "resolve"
  /\ \/ /\ setup.spawns /\ Cardinality(Ok) >= 2
        /\ spent' = spent \cup {<<"resolution">>}
        /\ Return(TRUE, "none", usage \cup {<<"resolution">>})
     \/ /\ UNCHANGED spent
        /\ CASE Ok # {} -> pc' = "synthesize" /\ UNCHANGED result
             [] Ok = {} /\ Rows = {} -> Return(TRUE, "none", usage)
             [] OTHER -> Return(FALSE, "AllPatternWorkersFailed", usage)
  /\ UNCHANGED <<plans, live, row, skipped, wire, queued, usage, sent>>

\* Mutant of Synthesize: a synthesis over failures counts as an answer.
SynthesizeAny ==
  /\ pc = "synthesize"
  /\ spent' = spent \cup {<<"synthesis">>}
  /\ Return(TRUE, "none", usage \cup {<<"synthesis">>})
  /\ UNCHANGED <<plans, live, row, skipped, wire, queued, usage, sent>>

\* Mutant of Synthesize: the usage of the synthesis is lost.
SynthesizeUncounted ==
  /\ pc = "synthesize"
  /\ spent' = spent \cup {<<"synthesis">>}
  /\ Return(Ok # {}, IF Ok = {} THEN "AllPatternWorkersFailed" ELSE "none", usage)
  /\ UNCHANGED <<plans, live, row, skipped, wire, queued, usage, sent>>

\* pattern_synthesis_success: a worker succeeded, and the synthesis is not degraded
Synthesize ==
  /\ pc = "synthesize"
  /\ \E error \in {"none", "SynthesisTimeout", "SynthesisFailed"} :
       LET used == IF error = "none" THEN {<<"synthesis">>} ELSE {} IN
       /\ spent' = spent \cup used
       /\ Return(Ok # {} /\ error = "none", IF Ok = {} THEN "AllPatternWorkersFailed" ELSE error, usage \cup used)
  /\ UNCHANGED <<plans, live, row, skipped, wire, queued, usage, sent>>

SendHalt ==
  /\ MayHalt /\ ~sent /\ pc # "done"
  /\ sent' = TRUE /\ queued' = TRUE
  /\ UNCHANGED <<pc, plans, live, row, skipped, wire, usage, result, spent>>

Engine == Plan \/ Announce \/ Gate \/ Collect \/ Recover \/ Resolve \/ Synthesize
Run(w) == \E r \in {"ok", "failed"} : End(w, r)
Next == UNCHANGED setup /\ (Engine \/ HaltBatch \/ SendHalt \/ \E w \in Worker : Run(w))

Spec == Init /\ [][Next]_vars
\* one coroutine, workers with timeouts
FairSpec ==
  /\ Spec /\ WF_vars(UNCHANGED setup /\ Engine)
  /\ \A w \in Worker : WF_vars(UNCHANGED setup /\ Run(w))

-------------------------------------------------------------------------------
(* Properties *)

\* rows, events and the result have their types
TypeOK ==
  /\ pc \in {"plan", "announce", "gate", "run", "recover", "resolve", "synthesize", "done"}
  /\ plans \subseteq Worker /\ live \subseteq plans /\ skipped \subseteq plans \cap setup.gated
  /\ row \in [Worker -> {"none", "ok", "failed", "halted"}]
  /\ wire \in [Worker -> {"none", "started", "ok", "failed", "halted"}]
  /\ usage \subseteq spent /\ spent \subseteq Runs /\ {queued, sent} \subseteq BOOLEAN
  /\ result \in [success : BOOLEAN, usage : SUBSET Runs,
                 error : {"none", "planning", "AllPatternWorkersFailed", "SynthesisTimeout", "SynthesisFailed"}]

\* a success rests on a worker that succeeded, or on a user who declined them all
SuccessIsEarned == pc = "done" /\ result.success => Ok # {} \/ skipped = plans

\* a worker the user has declined does not run, not even to recover
DeclinedDoesNotRun == \A w \in skipped : row[w] # "ok"

\* without recovery the result counts the tokens of every run
UsageIsWhole == pc = "done" /\ NoRecovery => result.usage = spent

\* in a swarm worker_start and worker_end bracket the execution: what was started has ended
EventsBracket == pc = "done" /\ setup.mode = "swarm" => \A w \in Worker : wire[w] # "started"

\* the events and, without recovery, the rows of the result agree on how a worker ended
EventsAgree == pc = "done" /\ NoRecovery => \A w \in Worker : wire[w] \in {"none", "started", row[w]}

\* a HALT_ALL ends every worker of the batch, unless each has a listener of its own
HaltEndsAll == [][queued /\ ~queued' /\ ~Dispatching => live' = {}]_vars

\* a user of a supervisor who declines every worker gets a success
DeclineIsSuccess ==
  pc = "done" /\ setup.mode = "supervisor" /\ plans # {} /\ skipped = plans => result.success
===============================================================================
