------------------------------- MODULE Blackboard -------------------------------
(***************************************************************************)
(* The rounds of patterns/blackboard.py and the board of                   *)
(* patterns/_blackboard_state.py: knowledge sources run one after the      *)
(* other, each may fill its slot, and a synthesis reads the filled slots.  *)
(* A source may report SUCCESS with a text that says it has failed; the    *)
(* board tells these apart, the rows do not.                               *)
(***************************************************************************)
EXTENDS Integers, Sequences, FiniteSets

CONSTANTS
  N,          \* the knowledge sources of the plan are 1..N
  Edges,      \* dependency graphs the planner may produce
  MaxRounds,  \* MAX_ROUNDS
  MayHalt     \* a bound: a HALT_ALL may be sent

Source == 1..N

BlackboardAssumption ==
  /\ N \in Nat \ {0} /\ MaxRounds \in Nat \ {0} /\ MayHalt \in BOOLEAN
  /\ Edges \subseteq [Source -> SUBSET Source]

VARIABLES
  deps,       \* depends_on
  pc,         \* "round", "sources", "run", "after", "result", "done"
  round,      \* rounds that were started
  eligible,   \* the sources this round has still to run, in order
  current,    \* the source under way, 0 for none
  attempted, filled, failed,   \* the board
  row,        \* row[s]: "none", "ok", "marked" (SUCCESS with a failure text), "failed", "halted"
  queued,     \* a HALT_ALL is in the signal queue
  halted,     \* halt_triggered
  result,     \* [success, error, shown], shown: the sources whose text the answer is made of
  sent        \* history: a HALT_ALL was sent
board == <<attempted, filled, failed>>
vars == <<deps, pc, round, eligible, current, board, row, queued, halted, result, sent>>

Ascending(ss) == CHOOSE q \in [1..Cardinality(ss) -> ss] : \A i, j \in DOMAIN q : i < j => q[i] < q[j]

\* Mutant of Complete: the board counts as complete when it has content.
CompleteFilled == filled # {}

\* BlackboardState.is_complete
Complete == Cardinality(attempted) >= N

\* Mutant of Eligible: dependencies that are not in the plan's first round are
\* ignored.
EligibleAll == {s \in Source : s \notin attempted}

Eligible == {s \in Source : s \notin attempted /\ deps[s] \subseteq attempted}

Init ==
  /\ deps \in Edges
  /\ pc = "round" /\ round = 0 /\ eligible = <<>> /\ current = 0
  /\ attempted = {} /\ filled = {} /\ failed = {}
  /\ row = [s \in Source |-> "none"]
  /\ queued = FALSE /\ halted = FALSE /\ sent = FALSE
  /\ result = [success |-> FALSE, error |-> "none", shown |-> {}]

\* a board on which nothing is eligible is complete or stuck
StartRound ==
  /\ pc = "round"
  /\ IF round < MaxRounds /\ Eligible # {}
     THEN eligible' = Ascending(Eligible) /\ round' = round + 1 /\ pc' = "sources"
     ELSE pc' = "result" /\ UNCHANGED <<eligible, round>>
  /\ UNCHANGED <<deps, current, board, row, queued, halted, result, sent>>

\* drain_for_halt before each source
HaltBefore ==
  /\ pc = "sources" /\ eligible # <<>> /\ queued
  /\ queued' = FALSE /\ halted' = TRUE /\ pc' = "result"
  /\ UNCHANGED <<deps, round, eligible, current, board, row, result, sent>>

StartSource ==
  /\ pc = "sources" /\ eligible # <<>> /\ ~queued
  /\ current' = Head(eligible) /\ eligible' = Tail(eligible) /\ pc' = "run"
  /\ UNCHANGED <<deps, round, board, row, queued, halted, result, sent>>

EndRound ==
  /\ pc = "sources" /\ eligible = <<>>
  /\ pc' = IF Complete THEN "result" ELSE "round"
  /\ UNCHANGED <<deps, round, eligible, current, board, row, queued, halted, result, sent>>

\* BlackboardState.write; an output that marks a failure goes to mark_failed
Write(s) ==
  /\ filled' = filled \cup {s} /\ attempted' = attempted \cup {s} /\ failed' = failed \ {s}

MarkFailed(s) ==
  /\ failed' = failed \cup {s} /\ attempted' = attempted \cup {s} /\ UNCHANGED filled

\* Mutant of Record: the output is stored as it is.
RecordAny(s, r) ==
  /\ row' = [row EXCEPT ![s] = r]
  /\ IF r \in {"ok", "marked"} THEN Write(s) ELSE MarkFailed(s)

Record(s, r) ==
  /\ row' = [row EXCEPT ![s] = r]
  /\ IF r = "ok" THEN Write(s) ELSE MarkFailed(s)

EndSource ==
  /\ pc = "run"
  /\ \E r \in {"ok", "marked", "failed"} : Record(current, r)
  /\ pc' = "after"
  /\ UNCHANGED <<deps, round, eligible, current, queued, halted, result, sent>>

\* await_with_halt_polling: the source is cancelled
HaltDuring ==
  /\ pc = "run" /\ queued
  /\ queued' = FALSE /\ halted' = TRUE
  /\ Record(current, "halted")
  /\ current' = 0 /\ pc' = "result"
  /\ UNCHANGED <<deps, round, eligible, result, sent>>

\* Mutant of DrainAfter: a halt is noted and the round goes on.
DrainAfterOn ==
  /\ pc = "after"
  /\ current' = 0
  /\ queued' = FALSE /\ halted' = (halted \/ queued) /\ pc' = "sources"
  /\ UNCHANGED <<deps, round, eligible, board, row, result, sent>>

\* and once more after each source
DrainAfter ==
  /\ pc = "after"
  /\ current' = 0
  /\ IF queued THEN queued' = FALSE /\ halted' = TRUE /\ pc' = "result"
               ELSE pc' = "sources" /\ UNCHANGED <<queued, halted>>
  /\ UNCHANGED <<deps, round, eligible, board, row, result, sent>>

Successful == {s \in Source : row[s] \in {"ok", "marked"}}

\* the synthesis reads the filled slots; when it fails the outputs are joined, and a
\* swarm that resolves their conflicts writes the answer
Finish ==
  /\ pc = "result"
  /\ result' \in
       IF Successful = {} THEN {[success |-> FALSE, error |-> "AllPatternWorkersFailed", shown |-> {}]}
       ELSE {[success |-> TRUE, error |-> "none", shown |-> filled],
             [success |-> FALSE, error |-> "SynthesisFailed", shown |-> Successful]}
  /\ pc' = "done"
  /\ UNCHANGED <<deps, round, eligible, current, board, row, queued, halted, sent>>

SendHalt ==
  /\ MayHalt /\ ~sent /\ pc \notin {"result", "done"}
  /\ sent' = TRUE /\ queued' = TRUE
  /\ UNCHANGED <<deps, pc, round, eligible, current, board, row, halted, result>>

Engine == StartRound \/ HaltBefore \/ StartSource \/ EndRound \/ EndSource \/ DrainAfter \/ Finish
Next == Engine \/ HaltDuring \/ SendHalt
Spec == Init /\ [][Next]_vars
\* one coroutine, whose sources have timeouts
FairSpec == Spec /\ WF_vars(Engine)

-------------------------------------------------------------------------------
(* Properties *)

\* the board, the rows and the result have their types
TypeOK ==
  /\ pc \in {"round", "sources", "run", "after", "result", "done"} /\ round \in 0..MaxRounds
  /\ current \in Source \cup {0} /\ \A i \in DOMAIN eligible : eligible[i] \in Source
  /\ {attempted, filled, failed, result.shown} \subseteq SUBSET Source
  /\ row \in [Source -> {"none", "ok", "marked", "failed", "halted"}]
  /\ {queued, halted, sent, result.success} \subseteq BOOLEAN

\* the board splits what was attempted into real content and failures, and agrees
\* with the rows: a failure text never fills a slot
BoardIsSplit ==
  /\ filled \cap failed = {} /\ attempted = filled \cup failed
  /\ filled = {s \in Source : row[s] = "ok"} /\ attempted = {s \in Source : row[s] # "none"}

\* a source runs once, after all it depends on; failures unblock their dependents
SourcesRunOnce == pc = "run" => current \notin attempted /\ deps[current] \subseteq attempted

\* a run that was not halted leaves out only what a cycle or the limit of rounds
\* keeps from running
NothingIsSkipped ==
  pc = "done" /\ ~halted =>
    \/ attempted = Source \/ round = MaxRounds
    \/ \A s \in Source \ attempted : deps[s] \ attempted # {}

\* after a HALT_ALL was seen no source is started
HaltStops == [][halted => row' = row]_vars
===============================================================================
