------------------------------- MODULE Reflection -------------------------------
(***************************************************************************)
(* The generate, critique, revise loop of patterns/reflection.py.  A draft *)
(* is the number of the iteration that wrote it; a critique is what        *)
(* parse_critic_response makes of the critic's text.  Generator and critic *)
(* are batches of one worker of run_workers_with_hitl, whose listener      *)
(* takes a HALT_ALL that arrives while one of them runs.                   *)
(***************************************************************************)
EXTENDS Integers, FiniteSets

CONSTANTS
  MaxIterations,   \* max_reflection_iterations
  Threshold,       \* reflection_threshold
  Scores,          \* a bound: scores a critic may give
  Gates,           \* what interrupt_before_workers may name of "generator" and "critic"
  MayHalt,         \* a bound: a HALT_ALL may be sent
  None

ReflectionAssumption ==
  /\ MaxIterations \in Nat /\ Threshold \in 1..10 /\ Scores \subseteq 0..10
  /\ None \notin Int \cup {"yes", "no"} \cup [score : Int, trusted : BOOLEAN, passed : BOOLEAN]
  /\ Gates \subseteq SUBSET {"generator", "critic"} /\ MayHalt \in BOOLEAN

Draft == 1..MaxIterations
NoDraft == 0                  \* best_draft is empty, or the text of a failure

VARIABLES
  gated,           \* which of the two it names; it never changes
  pc,              \* "iterate", "generate", "critique", "done"
  iteration,       \* completed iterations
  best, bestScore, \* best_draft and best_score
  queued,          \* a HALT_ALL is in the signal queue
  usage,           \* generator and critic runs counted
  result,          \* [success, output, usage]
  verdict,         \* history: verdict[d], what the critic said of draft d
  spent,           \* history: generator and critic runs
  sent, stopped    \* history: a HALT_ALL was sent, and has ended a worker
history == <<verdict, spent, sent, stopped>>
vars == <<gated, pc, iteration, best, bestScore, queued, usage, result, history>>

-------------------------------------------------------------------------------
(* parse_critic_response: the score clamped to 0..10, PASSED if it is there *)

Parse(score, passed) ==
  LET value == IF score = None THEN 0 ELSE score IN
  [score |-> value, trusted |-> score # None,
   passed |-> CASE passed = None -> value >= Threshold
                [] passed = "yes" -> score = None \/ value >= Threshold
                [] passed = "no" -> FALSE]

Critiques == {Parse(s, p) : s \in Scores \cup {None}, p \in {"yes", "no", None}}

Accepted(v) == v.trusted /\ v.score >= Threshold /\ v.passed

-------------------------------------------------------------------------------
Init ==
  /\ gated \in Gates /\ pc = "iterate" /\ iteration = 0
  /\ best = NoDraft /\ bestScore = 0
  /\ queued = FALSE /\ usage = {} /\ spent = {}
  /\ result = [success |-> FALSE, output |-> NoDraft, usage |-> {}]
  /\ verdict = [d \in Draft |-> None]
  /\ sent = FALSE /\ stopped = FALSE

Return(success, output, used) ==
  /\ pc' = "done"
  /\ result' = [success |-> success, output |-> output, usage |-> used]

\* Mutant of Iterate: one critique more than the limit.
IterateOneMore ==
  /\ pc = "iterate"
  /\ \/ Return(FALSE, best, usage) /\ UNCHANGED <<queued, stopped>>
     \/ /\ iteration <= MaxIterations
        /\ pc' = "generate" /\ UNCHANGED <<queued, stopped, result>>
  /\ UNCHANGED <<iteration, best, bestScore, usage, verdict, spent, sent>>

\* Mutant of Iterate: the last draft is good enough.
IterateSure ==
  /\ pc = "iterate"
  /\ \/ /\ iteration > 0
        /\ Return(best # NoDraft, best, usage) /\ UNCHANGED <<queued, stopped>>
     \/ /\ iteration < MaxIterations
        /\ pc' = "generate" /\ UNCHANGED <<queued, stopped, result>>
  /\ UNCHANGED <<iteration, best, bestScore, usage, verdict, spent, sent>>

\* between iterations: the wall-clock budget, then drain_for_halt, which the first
\* iteration does not call; a halted run returns neither steps nor usage
Iterate ==
  /\ pc = "iterate"
  /\ \/ /\ iteration > 0 \/ MaxIterations = 0
        /\ Return(FALSE, best, usage) /\ UNCHANGED <<queued, stopped>>
     \/ /\ iteration \in 1..MaxIterations - 1 /\ queued
        /\ queued' = FALSE /\ stopped' = TRUE
        /\ Return(TRUE, best, {})
     \/ /\ iteration < MaxIterations /\ ~(iteration > 0 /\ queued)
        /\ pc' = "generate" /\ UNCHANGED <<queued, stopped, result>>
  /\ UNCHANGED <<iteration, best, bestScore, usage, verdict, spent, sent>>

Current == iteration + 1

\* a declined or failed generator ends the loop; a halted one has written the text
\* of its cancellation, which is criticised like a draft
Generate ==
  /\ pc = "generate"
  /\ \/ /\ "generator" \in gated /\ Return(FALSE, best, usage)
        /\ UNCHANGED <<queued, usage, spent, stopped>>
     \/ /\ usage' = usage \cup {<<"generator", Current>>} /\ spent' = spent \cup {<<"generator", Current>>}
        /\ Return(FALSE, best, usage')
        /\ UNCHANGED <<queued, stopped>>
     \/ /\ pc' = "critique"
        /\ usage' = usage \cup {<<"generator", Current>>} /\ spent' = spent \cup {<<"generator", Current>>}
        /\ UNCHANGED <<queued, result, stopped>>
     \/ /\ queued /\ queued' = FALSE /\ stopped' = TRUE
        /\ pc' = "critique" /\ UNCHANGED <<usage, result, spent>>
  /\ UNCHANGED <<iteration, best, bestScore, verdict, sent>>

\* Mutant of Judge: a later draft with the same score takes over.
JudgeLatest(v) ==
  /\ verdict' = [verdict EXCEPT ![Current] = v]
  /\ IF v.trusted /\ v.score >= bestScore
     THEN best' = Current /\ bestScore' = v.score
     ELSE UNCHANGED <<best, bestScore>>
  /\ IF Accepted(v)
     THEN Return(TRUE, best', usage') /\ UNCHANGED iteration
     ELSE pc' = "iterate" /\ iteration' = iteration + 1 /\ UNCHANGED result

\* the verdict on the draft: a better trusted score makes it the best one
Judge(v) ==
  /\ verdict' = [verdict EXCEPT ![Current] = v]
  /\ IF v.trusted /\ v.score > bestScore
     THEN best' = Current /\ bestScore' = v.score
     ELSE UNCHANGED <<best, bestScore>>
  /\ IF Accepted(v)
     THEN Return(TRUE, best', usage') /\ UNCHANGED iteration
     ELSE pc' = "iterate" /\ iteration' = iteration + 1 /\ UNCHANGED result

\* a declined critic ends the loop with a success; one that failed or was halted
\* has a text without a score
Critique ==
  /\ pc = "critique"
  /\ \/ /\ "critic" \in gated
        /\ Return(TRUE, IF best = NoDraft THEN Current ELSE best, usage)
        /\ UNCHANGED <<iteration, best, bestScore, queued, usage, verdict, spent, stopped>>
     \/ /\ usage' = usage \cup {<<"critic", Current>>} /\ spent' = spent \cup {<<"critic", Current>>}
        /\ \E v \in Critiques : Judge(v)
        /\ UNCHANGED <<queued, stopped>>
     \/ /\ queued /\ queued' = FALSE /\ stopped' = TRUE
        /\ UNCHANGED <<usage, spent>>
        /\ Judge(Parse(None, None))
  /\ UNCHANGED sent

SendHalt ==
  /\ MayHalt /\ ~sent /\ pc # "done"
  /\ sent' = TRUE /\ queued' = TRUE
  /\ UNCHANGED <<pc, iteration, best, bestScore, usage, result, verdict, spent, stopped>>

Engine == Iterate \/ Generate \/ Critique
Next == UNCHANGED gated /\ (Engine \/ SendHalt)
Spec == Init /\ [][Next]_vars
\* one coroutine, whose workers have timeouts
FairSpec == Spec /\ WF_vars(UNCHANGED gated /\ Engine)

-------------------------------------------------------------------------------
(* Properties *)

\* verdicts and the result have their types
TypeOK ==
  /\ pc \in {"iterate", "generate", "critique", "done"} /\ iteration \in 0..MaxIterations
  /\ {best, result.output} \subseteq Draft \cup {NoDraft}
  /\ bestScore \in 0..10 /\ {queued, sent, stopped, result.success} \subseteq BOOLEAN
  /\ \A d \in Draft : verdict[d] = None \/ verdict[d] \in Critiques
  /\ usage \subseteq spent

\* best_draft is the first draft with the highest score any draft was trusted with
BestIsBest ==
  LET judged == {d \in Draft : verdict[d] # None /\ verdict[d].trusted} IN
  /\ \A d \in judged : verdict[d].score <= bestScore
  /\ best # NoDraft => best \in judged /\ verdict[best].score = bestScore /\ \A d \in judged : verdict[d].score = bestScore => best <= d

\* without a halt or a declined critic, success needs a verdict that accepts
SuccessIsJudged ==
  pc = "done" /\ result.success /\ ~stopped /\ gated = {}
    => verdict[Current] # None /\ Accepted(verdict[Current])

\* the loop is over after max_reflection_iterations each criticised once
LoopIsBounded == Cardinality(spent) <= 2 * MaxIterations
===============================================================================
