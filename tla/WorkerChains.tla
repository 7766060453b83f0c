------------------------------ MODULE WorkerChains ------------------------------
(***************************************************************************)
(* The patterns that run workers along their dependencies: the sequential  *)
(* engine of pipeline and planner-executor (patterns/_sequential.py) and   *)
(* the levels of the hybrid DAG (patterns/_dag.py, hybrid_dag.py), with    *)
(* the recovery and the dynamic nodes of orchestrator/hooks.py.  A batch   *)
(* of parallel workers is modelled in ParallelWorkers; here it is what it  *)
(* promises: each worker ends with a row, and a HALT_ALL ends them all.    *)
(***************************************************************************)
EXTENDS Integers, Sequences, FiniteSets

CONSTANTS
  N,               \* the workers of the plan are 1..N
  Mode,            \* "pipeline", "planner" or "dag"
  Edges,           \* dependency graphs the planner may produce
  Gated,           \* interrupt_before_workers
  Spawns,          \* pattern spawns are enabled: rows without success recover
  Dynamic,         \* and so are dynamic nodes: each has a batch of its own
  Dispatched,      \* dynamic nodes that run as a pattern of their own
  MayHalt          \* a bound: a HALT_ALL may be sent

Worker == 1..N

ChainAssumption ==
  /\ N \in Nat \ {0} /\ Mode \in {"pipeline", "planner", "dag"}
  /\ Edges \subseteq [Worker -> SUBSET Worker] /\ Gated \subseteq Worker
  /\ {Spawns, Dynamic} \subseteq BOOLEAN /\ (Dynamic => Spawns)
  /\ Dispatched \subseteq Worker /\ (~Dynamic => Dispatched = {}) /\ MayHalt \in BOOLEAN

VARIABLES
  deps,            \* depends_on
  todo,            \* the batches still to run, in order
  pc,              \* "plan", "step", "run", "recover", "done", "refused"
  level,           \* the workers of the level that was started last
  live,            \* workers under way
  row,             \* row[w]: "none" or the signal of its WorkerResult
  halt,            \* halt_event
  queued,          \* a HALT_ALL is in the signal queue
  result,          \* [success, error] of the pattern
  declined,        \* history: workers the user declined
  sent, stopped    \* history: a HALT_ALL was sent, and has ended a worker

history == <<declined, sent, stopped>>
vars == <<deps, todo, pc, level, live, row, halt, queued, result, history>>

-------------------------------------------------------------------------------
(* topological_sort and group_by_level *)

Roots == {w \in Worker : deps[w] = {}}

Ascending(ws) == CHOOSE s \in [1..Cardinality(ws) -> ws] : \A i, j \in DOMAIN s : i < j => s[i] < s[j]

\* one turn of Kahn's loop: the head of the queue is placed, its children whose
\* dependencies are all placed then join the queue
Visit(k) ==
  LET placed == Append(k.result, Head(k.queue))
      Ready(c) == deps[c] \subseteq {placed[i] : i \in DOMAIN placed}
      children == {c \in Worker : Head(k.queue) \in deps[c] /\ Ready(c)}
  IN [queue |-> Tail(k.queue) \o Ascending(children), result |-> placed]

Kahn ==
  LET visit[n \in 0..N] ==
        IF n = 0 THEN [queue |-> Ascending(Roots), result |-> <<>>]
        ELSE LET k == visit[n - 1] IN IF k.queue = <<>> THEN k ELSE Visit(k)
  IN visit[N].result

\* Mutant of Levels: a worker with a dependency that nothing can place joins the
\* last level.
LevelsForced ==
  LET placed[k \in 0..N] ==
        IF k = 0 THEN {}
        ELSE LET below == placed[k - 1] IN below \cup {w \in Worker : deps[w] \subseteq below \/ k = N}
  IN [k \in 1..N |-> placed[k] \ placed[k - 1]]

\* group_by_level: the workers of level k, once the levels below are placed
Levels ==
  LET placed[k \in 0..N] ==
        IF k = 0 THEN {}
        ELSE LET below == placed[k - 1] IN below \cup {w \in Worker : deps[w] \subseteq below}
  IN [k \in 1..N |-> placed[k] \ placed[k - 1]]

\* Mutant of Batches: the workers run in the order of the plan, a DAG in one level.
BatchesAsPlanned ==
  IF Len(Kahn) # N THEN <<>> ELSE IF Mode = "dag" THEN <<Worker>> ELSE [i \in Worker |-> {i}]

Batches ==
  IF Mode = "dag" THEN SelectSeq(Levels, LAMBDA l : l # {})
  ELSE LET order == Kahn IN [i \in DOMAIN order |-> {order[i]}]

InBatches(bs) == UNION {bs[i] : i \in DOMAIN bs}

-------------------------------------------------------------------------------
Init ==
  /\ deps \in Edges
  /\ todo = <<>> /\ pc = "plan" /\ level = {} /\ live = {}
  /\ row = [w \in Worker |-> "none"]
  /\ halt = FALSE /\ queued = FALSE
  /\ result = [success |-> FALSE, error |-> "none"]
  /\ declined = {} /\ sent = FALSE /\ stopped = FALSE

\* a cycle leaves workers unplaced: ValueError
Plan ==
  /\ pc = "plan"
  /\ todo' = Batches
  /\ pc' = IF InBatches(todo') = Worker THEN "step" ELSE "refused"
  /\ UNCHANGED <<deps, level, live, row, halt, queued, result, history>>

With(ws, r) == [w \in Worker |-> IF w \in ws THEN r ELSE row[w]]

\* drain_for_halt between two steps of the sequential engine
HaltChain ==
  /\ pc = "step" /\ Mode # "dag" /\ todo # <<>> /\ queued
  /\ queued' = FALSE /\ stopped' = TRUE
  /\ row' = With(InBatches(todo), "halted")
  /\ todo' = <<>>
  /\ UNCHANGED <<deps, pc, level, live, halt, result, declined, sent>>

StartStep ==
  /\ pc = "step" /\ Mode # "dag" /\ todo # <<>> /\ ~queued
  /\ live' = Head(todo) /\ todo' = Tail(todo)
  /\ pc' = "run"
  /\ UNCHANGED <<deps, level, row, halt, queued, result, history>>

\* Mutant of EndStep: a failure is noted and the chain goes on.
EndStepOn(w, r) ==
  /\ Mode # "dag" /\ w \in live
  /\ live' = {} /\ row' = With({w}, r)
  /\ pc' = "step"
  /\ UNCHANGED <<deps, todo, level, halt, queued, result, history>>

\* the earlier results a worker is given with its task
Context(w) == {d \in deps[w] : row[d] = "ok" \/ (Mode # "pipeline" /\ row[d] \in {"failed", "halted"})}

\* a failure ends a pipeline: the rest get rows "UpstreamFailure"
EndStep(w, r) ==
  /\ Mode # "dag" /\ w \in live
  /\ live' = {}
  /\ IF Mode = "pipeline" /\ r = "failed"
     THEN row' = [With(InBatches(todo), "upstream") EXCEPT ![w] = r] /\ todo' = <<>>
     ELSE row' = With({w}, r) /\ UNCHANGED todo
  /\ pc' = "step"
  /\ UNCHANGED <<deps, level, halt, queued, result, history>>

-------------------------------------------------------------------------------
(* Levels of the DAG *)

\* Mutant of HaltLevel: the levels after a halt get no rows.
HaltLevelSilent ==
  /\ pc = "step" /\ Mode = "dag" /\ todo # <<>> /\ halt
  /\ todo' = Tail(todo)
  /\ UNCHANGED <<deps, pc, level, live, row, halt, queued, result, history>>

\* after a halt the rows of a level are made up without running it
HaltLevel ==
  /\ pc = "step" /\ Mode = "dag" /\ todo # <<>> /\ halt
  /\ row' = With(Head(todo), "halted") /\ todo' = Tail(todo)
  /\ UNCHANGED <<deps, pc, level, live, halt, queued, result, history>>

\* run_workers_with_hitl asks about the gated workers first; in a batch of its
\* own, a worker that is declined leaves no row and counts as failed
StartLevel ==
  /\ pc = "step" /\ Mode = "dag" /\ todo # <<>> /\ ~halt
  /\ LET gates == (Head(todo) \cap Gated) \ Dispatched IN
     /\ \E no \in SUBSET gates :
          /\ declined' = declined \cup no
          /\ live' = Head(todo) \ no
          /\ row' = With(no, IF Dynamic THEN "failed" ELSE "skipped")
  /\ level' = Head(todo) /\ todo' = Tail(todo) /\ pc' = "run"
  /\ UNCHANGED <<deps, halt, queued, result, sent, stopped>>

EndNode(w, r) ==
  /\ Mode = "dag" /\ w \in live
  /\ live' = live \ {w} /\ row' = With({w}, r)
  /\ UNCHANGED <<deps, todo, pc, level, halt, queued, result, history>>

\* Mutant of HaltBatch: the listener cancels the workers and does not set the
\* event.
HaltBatchOnly ==
  /\ Mode = "dag" /\ queued /\ live \ Dispatched # {}
  /\ queued' = FALSE /\ stopped' = TRUE
  /\ live' = {} /\ row' = With(live, "halted")
  /\ UNCHANGED <<deps, todo, pc, level, halt, result, declined, sent>>

\* the listener of a batch takes the HALT_ALL: its workers are cancelled, its
\* halt_event is set; that of a dynamic node is its own
HaltBatch ==
  /\ Mode = "dag" /\ queued /\ live \ Dispatched # {}
  /\ queued' = FALSE /\ stopped' = TRUE
  /\ \E ws \in IF Dynamic THEN {{w} : w \in live \ Dispatched} ELSE {live} :
       live' = live \ ws /\ row' = With(ws, "halted")
  /\ halt' = ~Dynamic
  /\ UNCHANGED <<deps, todo, pc, level, result, declined, sent>>

\* Mutant of EndLevel: a level all of whose workers were declined is waited for.
EndLevelEmpty ==
  /\ pc = "run" /\ Mode = "dag" /\ live = {} /\ ~(level \subseteq declined)
  /\ pc' = IF Spawns THEN "recover" ELSE "step"
  /\ UNCHANGED <<deps, todo, level, live, row, halt, queued, result, history>>

EndLevel ==
  /\ pc = "run" /\ Mode = "dag" /\ live = {}
  /\ pc' = IF Spawns THEN "recover" ELSE "step"
  /\ UNCHANGED <<deps, todo, level, live, row, halt, queued, result, history>>

\* Mutant of Recover: declined workers recover like failed ones.
RecoverDeclined ==
  /\ pc = "recover"
  /\ \E saved \in SUBSET {w \in level : row[w] # "ok"} : row' = With(saved, "ok")
  /\ pc' = "step"
  /\ UNCHANGED <<deps, todo, level, live, halt, queued, result, history>>

\* recover_failed_workers: every row of the level that is no success gets one more
\* run, as a pattern of its own
Recover ==
  /\ pc = "recover"
  /\ \E saved \in SUBSET {w \in level : row[w] \in {"failed", "halted"}} : row' = With(saved, "ok")
  /\ pc' = "step"
  /\ UNCHANGED <<deps, todo, level, live, halt, queued, result, history>>

-------------------------------------------------------------------------------
(* The result *)

Ok == {w \in Worker : row[w] = "ok"}

\* Mutant of ResultOf: the branch for skipped workers is missing.
ResultOfFailed(degraded) ==
  IF Mode = "dag" /\ Ok = {} THEN [success |-> FALSE, error |-> "AllPatternWorkersFailed"]
  ELSE [success |-> Ok # {} /\ ~degraded, error |-> "none"]

\* how each pattern reads its rows; degraded: the synthesis fell back
ResultOf(degraded) ==
  LET manager == [success |-> ~degraded, error |-> IF degraded THEN "SynthesisFailed" ELSE "none"]
      failed == [success |-> FALSE, error |-> "AllPatternWorkersFailed"]
  IN CASE Mode = "pipeline" -> [success |-> Ok # {}, error |-> "none"]
       [] Mode # "pipeline" /\ Ok # {} -> manager
       [] Mode = "planner" /\ Ok = {} -> failed
       [] Mode = "dag" /\ (\A w \in Worker : row[w] = "skipped") -> [success |-> TRUE, error |-> "none"]
       [] Mode = "dag" /\ (\E w \in Worker : row[w] = "halted") /\ Ok = {} -> [success |-> FALSE, error |-> "HALT_ALL"]
       [] OTHER -> failed

Finish ==
  /\ pc = "step" /\ todo = <<>>
  /\ \E degraded \in BOOLEAN : result' = ResultOf(degraded)
  /\ pc' = "done"
  /\ UNCHANGED <<deps, todo, level, live, row, halt, queued, history>>

-------------------------------------------------------------------------------
SendHalt ==
  /\ MayHalt /\ ~sent /\ pc \notin {"done", "refused"}
  /\ sent' = TRUE /\ queued' = TRUE
  /\ UNCHANGED <<deps, todo, pc, level, live, row, halt, result, declined, stopped>>

Engine == Plan \/ HaltChain \/ StartStep \/ HaltLevel \/ StartLevel \/ EndLevel \/ Recover \/ Finish
Run(w) == \E r \in {"ok", "failed"} : EndStep(w, r) \/ EndNode(w, r)

Next == Engine \/ HaltBatch \/ SendHalt \/ \E w \in Worker : Run(w)

Spec == Init /\ [][Next]_vars

\* the engine is one coroutine, and a worker has timeouts of its own
FairSpec == Spec /\ WF_vars(Engine) /\ \A w \in Worker : WF_vars(Run(w))

-------------------------------------------------------------------------------
(* Properties *)

\* rows, batches and the result have their types
TypeOK ==
  /\ deps \in Edges /\ live \subseteq Worker /\ level \subseteq Worker
  /\ \A i \in DOMAIN todo : todo[i] \subseteq Worker
  /\ pc \in {"plan", "step", "run", "recover", "done", "refused"}
  /\ row \in [Worker -> {"none", "ok", "failed", "halted", "upstream", "skipped"}]
  /\ {halt, queued, sent, stopped} \subseteq BOOLEAN
  /\ declined \subseteq Gated
  /\ result \in [success : BOOLEAN, error : {"none", "AllPatternWorkersFailed", "SynthesisFailed", "HALT_ALL"}]

\* no worker runs before each of its dependencies has a row (topological_sort and
\* group_by_level order the plan), and a step of a pipeline is given the outputs of
\* all of them
DependenciesFirst ==
  \A w \in live :
    (\A d \in deps[w] : row[d] # "none") /\ (Mode = "pipeline" => Context(w) = deps[w])

\* a plan is refused exactly if its graph has a cycle (the ValueError of both)
Cyclic == \E ws \in (SUBSET Worker) \ {{}} : \A w \in ws : deps[w] \cap ws # {}
CyclesAreRefused == (pc = "refused" => Cyclic) /\ (pc \notin {"plan", "refused"} => ~Cyclic)

\* when the pattern ends every worker of the plan has a row, however it ended
RowsAreComplete == pc = "done" => \A w \in Worker : row[w] # "none"

\* a pipeline starts nothing after a failure, and a chain nothing once it has seen
\* a HALT_ALL
StartsNothingMore ==
  Mode # "dag" /\ live' \ live # {}
    => ~stopped /\ (Mode = "pipeline" => \A w \in Worker : row[w] \in {"none", "ok"})

\* once a HALT_ALL has ended workers of a level, nothing more is started
HaltReachesLevels == Mode = "dag" /\ stopped => live' \subseteq live

\* a user who declines every worker gets a success, not failed workers
DeclineIsSuccess == pc = "done" /\ declined = Worker => result.success

\* a worker the user has declined does not run, not even to recover
DeclinedDoesNotRun == \A w \in declined : row[w] # "ok" /\ w \notin live
===============================================================================
