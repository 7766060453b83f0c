------------------------------ MODULE HitlBridge ------------------------------
(***************************************************************************)
(* The per-session bridge between the agent's user_callback and the AGP    *)
(* wire: class HITLBridge of runtime/hitl.py.                              *)
(*                                                                         *)
(* A step is what asyncio runs without giving up the loop.  A gate is in   *)
(* the registry (`pending', the three dicts _pending, _kinds, _req_task)   *)
(* from the step that publishes hitl.request to the step in which its task *)
(* runs again.  In between, other steps may set the gate's future, fire    *)
(* its timer or cancel its task, in any order: the races of this module.   *)
(***************************************************************************)
EXTENDS Naturals, FiniteSets

CONSTANTS
  Thread,       \* AGP threads
  Task,         \* asyncio tasks that call user_callback
  Request,      \* request ids (uuid4: never used twice)
  Tool,         \* names of tools that can be allowlisted
  Kind,         \* the kinds of gate, a subset of AllKinds
  NoThread, NoTool, NoGate

VARIABLES
  gate,         \* the request a gate published, or NoGate
  pending,      \* the registry: gates whose task is still waiting
  fut,          \* the gate's future: "waiting", "dropped" (cancelled) or its result
  text,         \* did the answer carry text
  thrown,       \* the exception the waiting task gets at its next step
  bound,        \* _task_thread/_task_emitters: the thread a task emits on
  said,         \* history: the answer respond() acknowledged, or "none"
  decided,      \* the outcome published on the wire, or "none"
  given,        \* what callback() gave back to the agent, or "none"
  allow,        \* the session's tool allowlist
  saved         \* the allowlist in the session marker file

bridgeVars == <<gate, pending, fut, text, thrown, bound, said, decided, given, allow, saved>>

AllKinds == {"tool_approval", "pattern_approval", "worker_approval",
             "clarification", "react_recovery"}

ASSUME KindAssumption == Kind \subseteq AllKinds
Approving == {"accept", "allowlist", "retry"}
Decision  == Approving \cup {"reject", "stop", "timeout", "cancelled"}

\* What command.hitl.respond may carry; "garbled" is any other string.
Inbound == {"accept", "reject", "allowlist", "retry", "stop", "garbled"}

Gate == [kind : Kind, tool : Tool \cup {NoTool}, timed : BOOLEAN,
         owner : Task, via : Thread \cup {NoThread}]

ASSUME NullAssumption ==
  /\ NoThread \notin Thread
  /\ NoTool \notin Tool
  /\ NoGate \notin Gate

TypeOK ==
  /\ gate \in [Request -> Gate \cup {NoGate}]
  /\ pending \subseteq Request
  /\ fut \in [Request -> Decision \cup {"waiting", "dropped"}]
  /\ text \in [Request -> BOOLEAN]
  /\ thrown \in [Request -> {"nothing", "timeout", "cancel"}]
  /\ bound \in [Task -> Thread \cup {NoThread}]
  /\ said \in [Request -> Decision \cup {"none"}]
  /\ decided \in [Request -> Decision \cup {"none"}]
  /\ given \in [Request -> {"none", "continue", "abort", "retry", "answer", "empty",
                            "raised", "lost"}]
  /\ allow \subseteq Tool
  /\ saved \subseteq Tool

-------------------------------------------------------------------------------
(* Conversions *)

\* Mutants of the conversions: the guard of unknown words dropped, lists of
\* refusals where the code has lists of approvals, an event class forgotten.
DecisionAsReceived(d)   == d
ToolGateDenyList(d)     == IF d \in {"reject", "stop"} THEN "abort" ELSE "continue"
RecoveryGateDenyList(d) == IF d \in {"reject", "stop"} THEN "abort" ELSE "retry"
AllowlistNotGranted(d)  == IF d \in {"accept", "retry"} THEN "granted" ELSE "denied"

\* The command model maps unknown words to "reject"; the bridge repeats the check.
NormalizeHitlDecision(d) == IF d \in Decision THEN d ELSE "reject"

\* The event class emit_hitl_decision publishes for a decision.
DecisionEvent(d) ==
  IF d \in {"accept", "retry"} THEN "granted"
  ELSE IF d = "allowlist" THEN "allowlisted"
  ELSE "denied"

ToolGateReturn(d)      == IF d \in {"accept", "allowlist", "retry"} THEN "continue" ELSE "abort"
ReactRecoveryReturn(d) == IF d \in {"retry", "accept", "allowlist"} THEN "retry" ELSE "abort"

DecisionToCallbackValue(kind, d, hasText) ==
  IF kind = "clarification" THEN (IF hasText THEN "answer" ELSE "empty")
  ELSE IF kind = "react_recovery" THEN ReactRecoveryReturn(d)
  ELSE ToolGateReturn(d)

-------------------------------------------------------------------------------
(* The registry of gates *)

FutureDone(r) == fut[r] # "waiting"
Waits(t) == {r \in pending : gate[r].owner = t}

Init ==
  /\ gate = [r \in Request |-> NoGate]
  /\ pending = {}
  /\ fut = [r \in Request |-> "waiting"]
  /\ text = [r \in Request |-> FALSE]
  /\ thrown = [r \in Request |-> "nothing"]
  /\ bound = [t \in Task |-> NoThread]
  /\ said = [r \in Request |-> "none"]
  /\ decided = [r \in Request |-> "none"]
  /\ given = [r \in Request |-> "none"]
  /\ saved \in SUBSET Tool
  /\ allow = saved

\* bind_task_emitter: the first thing an invocation's task does.
BindTaskEmitter(t, h) ==
  /\ bound[t] = NoThread
  /\ Waits(t) = {}
  /\ bound' = [bound EXCEPT ![t] = h]
  /\ UNCHANGED <<gate, pending, fut, text, thrown, said, decided, given, allow, saved>>

\* The done callback of a bound task.
Cleanup(t) ==
  /\ bound[t] # NoThread
  /\ Waits(t) = {}
  /\ bound' = [bound EXCEPT ![t] = NoThread]
  /\ UNCHANGED <<gate, pending, fut, text, thrown, said, decided, given, allow, saved>>

\* callback(), up to its first await: the gate is registered and hitl.request
\* goes out on the emitter of the current task (the default one if unbound).
Ask(r, t, kind, tool, timed) ==
  /\ gate[r] = NoGate
  /\ Waits(t) = {}
  /\ tool # NoTool => kind = "tool_approval"
  /\ gate' = [gate EXCEPT ![r] = [kind |-> kind, tool |-> tool, timed |-> timed,
                                  owner |-> t, via |-> bound[t]]]
  /\ pending' = pending \cup {r}
  /\ UNCHANGED <<fut, text, thrown, bound, said, decided, given, allow, saved>>

\* Mutant: the tool is allowlisted when the answer arrives, not when its gate closes.
RespondAllowlists(r, d, hasText) ==
  /\ r \in pending
  /\ ~FutureDone(r)
  /\ hasText => gate[r].kind = "clarification"
  /\ fut' = [fut EXCEPT ![r] = NormalizeHitlDecision(d)]
  /\ text' = [text EXCEPT ![r] = hasText]
  /\ said' = [said EXCEPT ![r] = NormalizeHitlDecision(d)]
  /\ allow' = IF d = "allowlist" THEN allow \cup ({gate[r].tool} \ {NoTool}) ELSE allow
  /\ UNCHANGED <<gate, pending, thrown, bound, decided, given, saved>>

\* respond() with a live future; otherwise it returns False and changes nothing.
Respond(r, d, hasText) ==
  /\ r \in pending
  /\ ~FutureDone(r)
  /\ hasText => gate[r].kind = "clarification"   \* nobody else reads the text
  /\ fut' = [fut EXCEPT ![r] = NormalizeHitlDecision(d)]
  /\ text' = [text EXCEPT ![r] = hasText]
  /\ said' = [said EXCEPT ![r] = NormalizeHitlDecision(d)]
  /\ UNCHANGED <<gate, pending, thrown, bound, decided, given, allow, saved>>

\* Mutant: only tool gates are given the timeout.
TimerFiresForTools(r) ==
  /\ r \in pending
  /\ gate[r].timed /\ gate[r].kind = "tool_approval"
  /\ thrown[r] = "nothing"
  /\ thrown' = [thrown EXCEPT ![r] = "timeout"]
  /\ UNCHANGED <<gate, pending, fut, text, bound, said, decided, given, allow, saved>>

\* asyncio.wait_for gives up on the shielded future.  A task already being
\* cancelled stays cancelled: Timeout.__aexit__ sees the extra cancel request.
TimerFires(r) ==
  /\ r \in pending
  /\ gate[r].timed
  /\ thrown[r] = "nothing"
  /\ thrown' = [thrown EXCEPT ![r] = "timeout"]
  /\ UNCHANGED <<gate, pending, fut, text, bound, said, decided, given, allow, saved>>

\* Task.cancel() on the tasks ts: a bare future is cancelled with the task that
\* awaits it, one behind shield() is not.
Thrown(ts) == [r \in Request |-> IF r \in pending /\ gate[r].owner \in ts THEN "cancel" ELSE thrown[r]]
Dropped(ts) == [r \in Request |->
  IF r \in pending /\ gate[r].owner \in ts /\ ~gate[r].timed /\ ~FutureDone(r)
  THEN "dropped" ELSE fut[r]]

\* The futures after set_result("cancelled") on those of rs that are not done.
Resolved(f, rs) == [r \in Request |-> IF r \in rs /\ f[r] = "waiting" THEN "cancelled" ELSE f[r]]

CancelTask(t) ==
  /\ Waits(t) # {}
  /\ thrown' = Thrown({t})
  /\ fut' = Dropped({t})
  /\ UNCHANGED <<gate, pending, text, bound, said, decided, given, allow, saved>>

CancelForThread(h) ==
  /\ fut' = Resolved(fut, {r \in pending : bound[gate[r].owner] = h})
  /\ UNCHANGED <<gate, pending, text, thrown, bound, said, decided, given, allow, saved>>

CancelAll ==
  /\ fut' = Resolved(fut, pending)
  /\ UNCHANGED <<gate, pending, text, thrown, bound, said, decided, given, allow, saved>>

\* The waiting task runs again with CancelledError: whatever was answered, the
\* gate is published as cancelled and the exception travels on.
ResumeCancelled(r) ==
  /\ r \in pending
  /\ thrown[r] = "cancel"
  /\ pending' = pending \ {r}
  /\ decided' = [decided EXCEPT ![r] = "cancelled"]
  /\ given' = [given EXCEPT ![r] = "raised"]
  /\ UNCHANGED <<gate, fut, text, thrown, bound, said, allow, saved>>

\* Mutant: a timeout on its way in overrides the answer that arrived meanwhile.
TimeoutWins(r) == IF thrown[r] = "timeout" THEN "timeout" ELSE fut[r]

\* The answer the task finds: a future set while the timeout was on its way in
\* is used, and only an unset one becomes "timeout".
Outcome(r) == IF FutureDone(r) THEN fut[r] ELSE "timeout"

ResumeDecided(r) ==
  /\ r \in pending
  /\ \/ thrown[r] = "timeout"
     \/ thrown[r] = "nothing" /\ FutureDone(r)
  /\ pending' = pending \ {r}
  /\ decided' = [decided EXCEPT ![r] = Outcome(r)]
  /\ given' = [given EXCEPT ![r] = DecisionToCallbackValue(gate[r].kind, Outcome(r), text[r])]
  /\ fut' = [fut EXCEPT ![r] = Outcome(r)]
  /\ IF gate[r].kind = "tool_approval" /\ Outcome(r) = "allowlist" /\ gate[r].tool # NoTool
     THEN /\ allow' = allow \cup {gate[r].tool}
          /\ saved' \in {allow', saved}       \* a failing save is logged and ignored
     ELSE UNCHANGED <<allow, saved>>
  /\ UNCHANGED <<gate, text, thrown, bound, said>>

\* Mutant: the CancelledError is swallowed and the task goes on waiting.
ResumeIgnoresCancel(r) == ResumeDecided(r)

Resume(r) == ResumeCancelled(r) \/ ResumeDecided(r)

\* The runtime dies and is started again on the same session marker: every
\* waiting task is gone, and the allowlist is what the marker holds.
Restart ==
  /\ pending # {} \/ allow # saved \/ \E t \in Task : bound[t] # NoThread
  /\ pending' = {}
  /\ given' = [r \in Request |-> IF r \in pending THEN "lost" ELSE given[r]]
  /\ bound' = [t \in Task |-> NoThread]
  /\ allow' = saved
  /\ UNCHANGED <<gate, fut, text, thrown, said, decided, saved>>

AgentStep(t) ==
  \E r \in Request, kind \in Kind, tool \in Tool \cup {NoTool}, timed \in BOOLEAN :
    Ask(r, t, kind, tool, timed)

Next ==
  \/ \E t \in Task : AgentStep(t) \/ CancelTask(t) \/ Cleanup(t)
  \/ \E t \in Task, h \in Thread : BindTaskEmitter(t, h)
  \/ \E r \in Request, d \in Inbound, hasText \in BOOLEAN : Respond(r, d, hasText)
  \/ \E r \in Request : TimerFires(r) \/ Resume(r)
  \/ \E h \in Thread : CancelForThread(h)
  \/ CancelAll
  \/ Restart

\* The event loop runs every ready task and every due timer; users, cancels and
\* crashes are free to happen or not.
Fairness == \A r \in Request : WF_bridgeVars(TimerFires(r)) /\ WF_bridgeVars(Resume(r))

SafetySpec == Init /\ [][Next]_bridgeVars
Spec == SafetySpec /\ Fairness
-------------------------------------------------------------------------------
(* Properties *)

\* The agent is told to go on at an approval or recovery gate only if the user's
\* acknowledged answer approved: not by a timeout, a cancel, a garbled answer or
\* any race between them (_normalize_hitl_decision, _TOOL_GATE_RETURN, callback).
NeverProceedsUnapproved ==
  \A r \in Request : given[r] \in {"continue", "retry"} => said[r] \in Approving

\* An answer that respond() acknowledged is the one the gate publishes, however
\* late: only cancelling the task may replace it, never the timer or cancel_all.
AcknowledgedAnswerStands ==
  \A r \in Request :
    decided[r] # "none" /\ said[r] # "none" /\ thrown[r] # "cancel" => decided[r] = said[r]

\* What clients see and what the agent does agree: an approval gate is published
\* as granted or allowlisted exactly when the agent was told to go on.
WireAgreesWithAgent ==
  \A r \in Request :
    decided[r] # "none" /\ gate[r].kind # "clarification" =>
      (DecisionEvent(decided[r]) = "denied" <=> given[r] \in {"abort", "raised"})

\* A tool enters the allowlist in the step that closes a tool gate for it whose
\* acknowledged answer was "allowlist", and a cancelled gate adds nothing.
AllowlistIsEarned ==
  [][\A tool \in allow' \ allow :
       \E r \in pending \ pending' :
         /\ gate[r].kind = "tool_approval" /\ gate[r].tool = tool
         /\ said[r] = "allowlist" /\ thrown[r] # "cancel"]_bridgeVars

\* A gate that has a result or an exception waiting for it leaves the registry:
\* no acknowledged answer, cancel_all or cancelled task leaves the agent hanging.
ResolvedGateCloses ==
  \A r \in Request :
    []<>~(r \in pending /\ (FutureDone(r) \/ thrown[r] # "nothing"))

\* A gate with a timeout never waits for ever, whatever the user does.
TimedGateCloses ==
  \A r \in Request : []<>~(r \in pending /\ gate[r].timed)

\* protocol/emitter.py:893 on emit_hitl_decision: "For ``clarification``: always
\* ``hitl.granted`` (with ``text`` carrying the answer)."
ClarificationAlwaysGranted ==
  \A r \in Request :
    decided[r] # "none" /\ gate[r].kind = "clarification" => DecisionEvent(decided[r]) = "granted"

(* The bridge implements the abstract gate. *)
Approves(r) == gate[r].kind = "clarification" \/ said[r] \in Approving

gateStage == [r \in Request |->
  IF gate[r] = NoGate THEN "unopened" ELSE IF r \in pending THEN "open" ELSE "closed"]

gateAnswer == [r \in Request |->
  IF said[r] = "none" THEN "none" ELSE IF Approves(r) THEN "yes" ELSE "no"]

\* A clarification always comes back with a text; it is an answer if the user gave it.
Proceeded(r) == given[r] \in {"continue", "retry"}
                \/ (said[r] # "none" /\ given[r] \in {"answer", "empty"})

gateVerdict == [r \in Request |->
  IF given[r] = "none" THEN "none"
  ELSE IF given[r] \in {"raised", "lost"} THEN "abandon"
  ELSE IF Proceeded(r) THEN "proceed" ELSE "refuse"]

AbstractGate == INSTANCE HitlGate
  WITH stage <- gateStage, answer <- gateAnswer, verdict <- gateVerdict

\* Every behaviour of the bridge is one of a gate that is answered at most once
\* and decided exactly once, on that answer (src/hitl_contract.py:10).
ImplementsGate == AbstractGate!Spec
===============================================================================
