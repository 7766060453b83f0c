------------------------------ MODULE HarnessJobs ------------------------------
(***************************************************************************)
(* HarnessJobRunner (harness/job_runner.py): turns of an agent towards a   *)
(* goal, each committed to a step log that a store keeps for the next      *)
(* runner of the job.  Failures of the store are swallowed.                *)
(***************************************************************************)
EXTENDS Integers, Sequences

CONSTANTS
  None,            \* no item in the store
  MaxSteps,        \* max_steps
  GoalAt,          \* the turn that reaches the goal
  Resumes,         \* bound: resume calls
  Starts,          \* bound: runners
  StoreFails,      \* the store may fail
  TurnFails        \* a turn may end without success

JobAssumption ==
  /\ {MaxSteps, GoalAt, Resumes, Starts} \subseteq Nat /\ {StoreFails, TurnFails} \subseteq BOOLEAN
  /\ None \notin Seq({"ok", "failed"})

VARIABLES
  steps,           \* _step_log of the runner: the outcomes, in order
  stored,          \* the log in the store
  pc,              \* "idle", "load", "run", "commit" or a status
  turn,            \* turn
  outcome,         \* of the turn that is about to be committed
  resumes, starts, \* the bounded counters
  done,            \* history: turns the agent has made
  cut              \* history: steps that resume dropped

vars == <<steps, stored, pc, turn, outcome, resumes, starts, done, cut>>

Init ==
  /\ steps = <<>> /\ stored = None
  /\ pc = "idle" /\ turn = 0 /\ outcome = "ok"
  /\ resumes = 0 /\ starts = 1 /\ done = 0 /\ cut = 0

Kept == IF stored = None THEN 0 ELSE Len(stored)

\* aput, and the exception it may end with
Persist(log) == stored' = log \/ (StoreFails /\ stored' = stored)

\* aget; a store that fails or has nothing leaves the log of the runner
Loaded == {IF stored = None THEN steps ELSE stored} \cup (IF StoreFails THEN {steps} ELSE {})

-------------------------------------------------------------------------------
\* Mutant of Run: a runner counts its own turns.
RunFromZero ==
  /\ pc \in {"idle", "load", "failed", "paused"}
  /\ \E log \in Loaded : steps' = log /\ turn' = 0
  /\ pc' = "run"
  /\ UNCHANGED <<stored, outcome, resumes, starts, done, cut>>

\* run_until_blocked: the turns go on after the last step
Run ==
  /\ pc \in {"idle", "load", "failed", "paused"}
  /\ \E log \in Loaded : steps' = log /\ turn' = Len(log)
  /\ pc' = "run"
  /\ UNCHANGED <<stored, outcome, resumes, starts, done, cut>>

\* Mutant of Turn: one turn more than the limit.
TurnOneMore ==
  /\ pc = "run" /\ turn <= MaxSteps
  /\ turn' = turn + 1 /\ done' = done + 1
  /\ outcome' \in {"ok"} \cup (IF TurnFails THEN {"failed"} ELSE {})
  /\ pc' = "commit"
  /\ UNCHANGED <<steps, stored, resumes, starts, cut>>

\* one ainvoke; nothing looks whether the goal has been reached
Turn ==
  /\ pc = "run" /\ turn < MaxSteps
  /\ turn' = turn + 1 /\ done' = done + 1
  /\ outcome' \in {"ok"} \cup (IF TurnFails THEN {"failed"} ELSE {})
  /\ pc' = "commit"
  /\ UNCHANGED <<steps, stored, resumes, starts, cut>>

\* Mutant of CommitStep: steps are stored only when the run ends.
CommitLate ==
  /\ pc = "commit"
  /\ steps' = Append(steps, outcome)
  /\ IF outcome = "ok" THEN stored' = stored ELSE Persist(steps')
  /\ pc' = IF outcome = "ok" THEN "run" ELSE "failed"
  /\ UNCHANGED <<turn, outcome, resumes, starts, done, cut>>

\* commit_step, then the failed turn ends the run
CommitStep ==
  /\ pc = "commit"
  /\ steps' = Append(steps, outcome)
  /\ Persist(steps')
  /\ pc' = IF outcome = "ok" THEN "run" ELSE "failed"
  /\ UNCHANGED <<turn, outcome, resumes, starts, done, cut>>

Complete ==
  /\ pc = "run" /\ turn >= MaxSteps
  /\ pc' = "completed"
  /\ UNCHANGED <<steps, stored, turn, outcome, resumes, starts, done, cut>>

\* Mutant of Resume: resume cuts the runner's log only.
ResumeUnsaved(from, goal) ==
  /\ pc \in {"idle", "failed", "completed", "paused"}
  /\ resumes < Resumes /\ resumes' = resumes + 1
  /\ \E log \in Loaded :
       /\ from <= Len(log)
       /\ steps' = SubSeq(log, 1, from)
       /\ cut' = cut + Len(log) - from
  /\ turn' = turn
  /\ pc' = IF goal THEN "load" ELSE "paused"
  /\ UNCHANGED <<stored, outcome, starts, done>>

\* resume: the log is cut back to a step, and the run loads it again
Resume(from, goal) ==
  /\ pc \in {"idle", "failed", "completed", "paused"}
  /\ resumes < Resumes /\ resumes' = resumes + 1
  /\ \E log \in Loaded :
       /\ from <= Len(log)
       /\ steps' = SubSeq(log, 1, from)
       /\ cut' = cut + Len(log) - from
       /\ Persist(steps')
  /\ turn' = turn
  /\ pc' = IF goal THEN "load" ELSE "paused"
  /\ UNCHANGED <<outcome, starts, done>>

\* the process ends and another runner of the job starts
Crash ==
  /\ starts < Starts /\ starts' = starts + 1
  /\ steps' = <<>> /\ turn' = 0 /\ pc' = "idle"
  /\ UNCHANGED <<stored, outcome, resumes, done, cut>>

Next ==
  \/ Run \/ Turn \/ CommitStep \/ Complete \/ Crash
  \/ \E from \in 0..MaxSteps, goal \in BOOLEAN : Resume(from, goal)

Spec == Init /\ [][Next]_vars

-------------------------------------------------------------------------------
(* Properties *)

\* logs hold outcomes and the status is one of the runner's
TypeOK ==
  /\ steps \in Seq({"ok", "failed"}) /\ stored \in Seq({"ok", "failed"}) \cup {None}
  /\ pc \in {"idle", "load", "run", "commit", "failed", "completed", "paused"}
  /\ {turn, done, cut, resumes, starts} \subseteq Nat

\* with a store that works, a runner that crashes costs at most the turn it was
\* in: every other turn is a stored step or one that a resume dropped
OneTurnIsRepeated == done <= Kept + cut + starts

\* no run makes the log longer than max_steps, also over several runners
LogIsBounded == Len(steps) <= MaxSteps

\* a job starts its next turn after the last step of its log
TurnFollowsLog == pc \in {"run", "commit"} => turn = Len(steps) + (IF pc = "commit" THEN 1 ELSE 0)

\* resume goes on from the step it was given
BackToLog == pc = "load" /\ pc' = "run" => steps' = steps
ResumeGoesBack == [][BackToLog]_vars
===============================================================================
