--------------------------- MODULE HitlBridge_proofs ---------------------------
(***************************************************************************)
(* Proofs about HitlBridge, for every set of threads, tasks, requests and  *)
(* tools.  The inductive invariant ties the three places a gate's answer   *)
(* lives in (the future, the acknowledgement, the published outcome) to    *)
(* the stage the gate is in; type correctness alone is not enough to know  *)
(* that a future which approves was set by respond().                      *)
(***************************************************************************)
EXTENDS HitlBridge, TLAPS

\* A gate nobody asked for has no trace.
UnaskedIsBlank ==
  \A r \in Request : gate[r] = NoGate =>
    /\ r \notin pending /\ fut[r] = "waiting" /\ thrown[r] = "nothing"
    /\ said[r] = "none" /\ decided[r] = "none" /\ given[r] = "none"

\* A gate is undecided while it is registered, and has come back once it is not.
OpenIsUndecided ==
  \A r \in Request :
    /\ r \in pending => gate[r] # NoGate /\ decided[r] = "none" /\ given[r] = "none"
    /\ gate[r] # NoGate /\ r \notin pending => given[r] # "none"

\* The acknowledged answer is the future's result, and only respond() approves.
AnswerIsResult ==
  \A r \in Request :
    /\ said[r] # "none" => fut[r] = said[r]
    /\ fut[r] \in Approving => said[r] = fut[r]
    /\ fut[r] = "dropped" => thrown[r] = "cancel"

\* A gate's outcome is its future's result, unless its task was cancelled.
OutcomeIsResult ==
  \A r \in Request :
    /\ decided[r] # "none" /\ thrown[r] # "cancel" => decided[r] = fut[r]
    /\ given[r] \notin {"none", "raised", "lost"} =>
         /\ fut[r] \in Decision /\ decided[r] = fut[r]
         /\ given[r] = DecisionToCallbackValue(gate[r].kind, fut[r], text[r])

IInv == TypeOK /\ UnaskedIsBlank /\ OpenIsUndecided /\ AnswerIsResult /\ OutcomeIsResult

-------------------------------------------------------------------------------
(* The invariant *)

LEMMA InitIInv == Init => IInv
BY KindAssumption
   DEF Init, IInv, TypeOK, UnaskedIsBlank, OpenIsUndecided, AnswerIsResult, OutcomeIsResult,
       Approving, Decision

\* The steps that touch no gate: binding and unbinding a task.
LEMMA BindingIInv ==
  ASSUME IInv, NEW t \in Task, NEW h \in Thread, BindTaskEmitter(t, h) \/ Cleanup(t)
  PROVE  IInv'
BY DEF IInv, TypeOK, UnaskedIsBlank, OpenIsUndecided, AnswerIsResult, OutcomeIsResult,
       BindTaskEmitter, Cleanup

LEMMA AskIInv ==
  ASSUME IInv, NEW r \in Request, NEW t \in Task, NEW kind \in Kind,
         NEW tool \in Tool \cup {NoTool}, NEW timed \in BOOLEAN, Ask(r, t, kind, tool, timed)
  PROVE  IInv'
<1> DEFINE g == [kind |-> kind, tool |-> tool, timed |-> timed, owner |-> t, via |-> bound[t]]
<1>1. g \in Gate
  BY DEF Gate, IInv, TypeOK
<1>2. g # NoGate
  BY <1>1, NullAssumption
<1>3. gate' = [gate EXCEPT ![r] = g] /\ pending' = pending \cup {r} /\ gate[r] = NoGate
  BY DEF Ask
<1>4. UNCHANGED <<fut, text, thrown, bound, said, decided, given, allow, saved>>
  BY DEF Ask
<1> HIDE DEF g
<1>5. TypeOK'
  BY <1>1, <1>3, <1>4 DEF IInv, TypeOK
<1>6. UnaskedIsBlank' /\ OpenIsUndecided'
  BY <1>2, <1>3, <1>4 DEF IInv, TypeOK, UnaskedIsBlank, OpenIsUndecided
<1>7. AnswerIsResult'
  BY <1>4 DEF IInv, AnswerIsResult
<1>8. OutcomeIsResult'
  BY <1>3, <1>4 DEF IInv, TypeOK, UnaskedIsBlank, OutcomeIsResult
<1> QED
  BY <1>5, <1>6, <1>7, <1>8 DEF IInv

LEMMA RespondIInv ==
  ASSUME IInv, NEW r \in Request, NEW d \in Inbound, NEW hasText \in BOOLEAN,
         Respond(r, d, hasText)
  PROVE  IInv'
<1>1. NormalizeHitlDecision(d) \in Decision
  BY DEF NormalizeHitlDecision, Decision
<1> QED
  BY <1>1
     DEF IInv, TypeOK, UnaskedIsBlank, OpenIsUndecided, AnswerIsResult, OutcomeIsResult,
         Respond, FutureDone, Decision, Approving

LEMMA TimerIInv ==
  ASSUME IInv, NEW r \in Request, TimerFires(r)
  PROVE  IInv'
BY DEF IInv, TypeOK, UnaskedIsBlank, OpenIsUndecided, AnswerIsResult, OutcomeIsResult, TimerFires

LEMMA CancelTaskIInv ==
  ASSUME IInv, NEW t \in Task, CancelTask(t)
  PROVE  IInv'
<1>1. /\ fut' \in [Request -> Decision \cup {"waiting", "dropped"}]
      /\ thrown' \in [Request -> {"nothing", "timeout", "cancel"}]
  BY DEF IInv, TypeOK, CancelTask, Thrown, Dropped
<1>2. \A r \in Request :
        /\ fut'[r] # fut[r] => r \in pending /\ fut[r] = "waiting" /\ fut'[r] = "dropped"
                               /\ thrown'[r] = "cancel"
        /\ thrown'[r] # thrown[r] => r \in pending /\ thrown'[r] = "cancel"
  BY DEF IInv, TypeOK, CancelTask, Thrown, Dropped, FutureDone
<1>3. UNCHANGED <<gate, pending, text, bound, said, decided, given, allow, saved>>
  BY DEF CancelTask
<1>4. TypeOK'
  BY <1>1, <1>3 DEF IInv, TypeOK
<1>5. UnaskedIsBlank' /\ OpenIsUndecided'
  BY <1>2, <1>3 DEF IInv, UnaskedIsBlank, OpenIsUndecided
<1>6. AnswerIsResult'
  <2>1. "waiting" \notin Decision /\ "dropped" \notin Approving
    BY DEF Decision, Approving
  <2> QED
    BY <1>2, <1>3, <2>1 DEF IInv, TypeOK, AnswerIsResult
<1>7. OutcomeIsResult'
  BY <1>2, <1>3 DEF IInv, OpenIsUndecided, OutcomeIsResult
<1> QED
  BY <1>4, <1>5, <1>6, <1>7 DEF IInv

\* cancel_for_thread and cancel_all: some open futures get the result "cancelled".
LEMMA ResolveIInv ==
  ASSUME IInv, NEW rs \in SUBSET pending, fut' = Resolved(fut, rs),
         UNCHANGED <<gate, pending, text, thrown, bound, said, decided, given, allow, saved>>
  PROVE  IInv'
BY DEF IInv, TypeOK, UnaskedIsBlank, OpenIsUndecided, AnswerIsResult, OutcomeIsResult,
       Resolved, Decision, Approving

LEMMA ResumeCancelledIInv ==
  ASSUME IInv, NEW r \in Request, ResumeCancelled(r)
  PROVE  IInv'
BY DEF IInv, TypeOK, UnaskedIsBlank, OpenIsUndecided, AnswerIsResult, OutcomeIsResult,
       ResumeCancelled, Decision

LEMMA OutcomeIsDecision ==
  ASSUME IInv, NEW r \in Request, ResumeDecided(r)
  PROVE  /\ Outcome(r) \in Decision
         /\ Outcome(r) \in Approving => fut[r] = Outcome(r)
         /\ said[r] # "none" => fut[r] = Outcome(r)
BY DEF IInv, TypeOK, AnswerIsResult, ResumeDecided, Outcome, FutureDone, Decision, Approving

LEMMA CallbackValueType ==
  ASSUME NEW kind, NEW d, NEW hasText
  PROVE  DecisionToCallbackValue(kind, d, hasText)
           \in {"continue", "abort", "retry", "answer", "empty"}
BY DEF DecisionToCallbackValue, ToolGateReturn, ReactRecoveryReturn

LEMMA ResumeDecidedIInv ==
  ASSUME IInv, NEW r \in Request, ResumeDecided(r)
  PROVE  IInv'
<1> DEFINE o == Outcome(r)
           v == DecisionToCallbackValue(gate[r].kind, o, text[r])
<1>1. /\ o \in Decision
      /\ o \in Approving => fut[r] = o
      /\ said[r] # "none" => fut[r] = o
  BY OutcomeIsDecision
<1>2. v \in {"continue", "abort", "retry", "answer", "empty"}
  BY CallbackValueType
<1>3. /\ r \in pending /\ pending' = pending \ {r}
      /\ decided' = [decided EXCEPT ![r] = o]
      /\ given' = [given EXCEPT ![r] = v]
      /\ fut' = [fut EXCEPT ![r] = o]
      /\ UNCHANGED <<gate, text, thrown, bound, said>>
  BY DEF ResumeDecided
<1>4. o # "dropped" /\ o # "none"
  BY <1>1 DEF Decision, Approving
<1>5. allow' \subseteq Tool /\ saved' \subseteq Tool
  <2>1. CASE gate[r].kind = "tool_approval" /\ o = "allowlist" /\ gate[r].tool # NoTool
    <3>1. gate[r] \in Gate
      BY <1>3 DEF IInv, TypeOK, OpenIsUndecided
    <3>2. gate[r].tool \in Tool
      BY <2>1, <3>1 DEF Gate
    <3> QED
      BY <2>1, <3>2 DEF ResumeDecided, IInv, TypeOK
  <2>2. CASE ~(gate[r].kind = "tool_approval" /\ o = "allowlist" /\ gate[r].tool # NoTool)
    BY <2>2 DEF ResumeDecided, IInv, TypeOK
  <2> QED
    BY <2>1, <2>2
<1>6. gate'[r].kind = gate[r].kind /\ text'[r] = text[r]
  BY <1>3
<1>7. fut'[r] = o /\ decided'[r] = o /\ given'[r] = v
  BY <1>3 DEF IInv, TypeOK
<1> HIDE DEF o
<1>8. given'[r] = DecisionToCallbackValue(gate'[r].kind, fut'[r], text'[r])
  BY <1>6, <1>7
<1> HIDE DEF v
<1>9. TypeOK'
  BY <1>1, <1>2, <1>3, <1>5 DEF IInv, TypeOK
<1>10. UnaskedIsBlank' /\ OpenIsUndecided'
  BY <1>2, <1>3 DEF IInv, TypeOK, UnaskedIsBlank, OpenIsUndecided
<1>11. AnswerIsResult'
  BY <1>1, <1>3, <1>4 DEF IInv, TypeOK, AnswerIsResult
<1>12. OutcomeIsResult'
  <2> SUFFICES ASSUME NEW q \in Request
               PROVE  /\ decided'[q] # "none" /\ thrown'[q] # "cancel" => decided'[q] = fut'[q]
                      /\ given'[q] \notin {"none", "raised", "lost"} =>
                           /\ fut'[q] \in Decision /\ decided'[q] = fut'[q]
                           /\ given'[q] = DecisionToCallbackValue(gate'[q].kind, fut'[q], text'[q])
    BY DEF OutcomeIsResult
  <2>1. CASE q = r
    BY <2>1, <1>1, <1>7, <1>8
  <2>2. CASE q # r
    BY <2>2, <1>3 DEF IInv, TypeOK, OutcomeIsResult
  <2> QED
    BY <2>1, <2>2
<1> QED
  BY <1>9, <1>10, <1>11, <1>12 DEF IInv

LEMMA RestartIInv ==
  ASSUME IInv, Restart
  PROVE  IInv'
BY DEF IInv, TypeOK, UnaskedIsBlank, OpenIsUndecided, AnswerIsResult, OutcomeIsResult, Restart

LEMMA NextIInv == IInv /\ [Next]_bridgeVars => IInv'
<1> SUFFICES ASSUME IInv, [Next]_bridgeVars
             PROVE  IInv'
  OBVIOUS
<1>1. CASE UNCHANGED bridgeVars
  BY <1>1 DEF IInv, TypeOK, UnaskedIsBlank, OpenIsUndecided, AnswerIsResult, OutcomeIsResult,
              bridgeVars
<1>2. ASSUME NEW t \in Task, AgentStep(t) PROVE IInv'
  BY <1>2, AskIInv DEF AgentStep
<1>3. ASSUME NEW t \in Task, CancelTask(t) PROVE IInv'
  BY <1>3, CancelTaskIInv
<1>4. ASSUME NEW t \in Task, Cleanup(t) PROVE IInv'
  BY <1>4
     DEF IInv, TypeOK, UnaskedIsBlank, OpenIsUndecided, AnswerIsResult, OutcomeIsResult, Cleanup
<1>5. ASSUME NEW t \in Task, NEW h \in Thread, BindTaskEmitter(t, h) PROVE IInv'
  BY <1>5, BindingIInv
<1>6. ASSUME NEW r \in Request, NEW d \in Inbound, NEW hasText \in BOOLEAN, Respond(r, d, hasText)
      PROVE  IInv'
  BY <1>6, RespondIInv
<1>7. ASSUME NEW r \in Request, TimerFires(r) PROVE IInv'
  BY <1>7, TimerIInv
<1>8. ASSUME NEW r \in Request, Resume(r) PROVE IInv'
  BY <1>8, ResumeCancelledIInv, ResumeDecidedIInv DEF Resume
<1>9. ASSUME NEW h \in Thread, CancelForThread(h) PROVE IInv'
  <2>1. {r \in pending : bound[gate[r].owner] = h} \in SUBSET pending
    OBVIOUS
  <2> QED
    BY <1>9, <2>1, ResolveIInv DEF CancelForThread
<1>10. CASE CancelAll
  BY <1>10, ResolveIInv DEF CancelAll
<1>11. CASE Restart
  BY <1>11, RestartIInv
<1> QED
  BY <1>1, <1>2, <1>3, <1>4, <1>5, <1>6, <1>7, <1>8, <1>9, <1>10, <1>11 DEF Next

\* The bridge's registry, futures and published outcomes agree in every state.
THEOREM InductiveInvariant == SafetySpec => []IInv
<1>1. Init => IInv
  BY InitIInv
<1>2. IInv /\ [Next]_bridgeVars => IInv'
  BY NextIInv
<1> QED
  BY <1>1, <1>2, PTL DEF SafetySpec

-------------------------------------------------------------------------------
(* Safety *)

\* The bridge's variables keep their types.
THEOREM TypeCorrect == SafetySpec => []TypeOK
<1>1. IInv => TypeOK
  BY DEF IInv
<1> QED
  BY <1>1, InductiveInvariant, PTL

\* No timeout, cancel, crash or garbled answer, in any order, makes the agent go
\* on: it was told to because respond() acknowledged an approving answer.
THEOREM UnapprovedNeverProceeds == SafetySpec => []NeverProceedsUnapproved
<1>1. IInv => NeverProceedsUnapproved
  <2> SUFFICES ASSUME IInv, NEW r \in Request, given[r] \in {"continue", "retry"}
               PROVE  said[r] \in Approving
    BY DEF NeverProceedsUnapproved
  <2>1. given[r] = DecisionToCallbackValue(gate[r].kind, fut[r], text[r])
    BY DEF IInv, OutcomeIsResult
  <2>2. fut[r] \in Approving
    BY <2>1 DEF DecisionToCallbackValue, ToolGateReturn, ReactRecoveryReturn, Approving
  <2> QED
    BY <2>2 DEF IInv, AnswerIsResult
<1> QED
  BY <1>1, InductiveInvariant, PTL

\* What respond() acknowledged is what the gate publishes, unless its task was
\* cancelled: the timer of wait_for and cancel_all never overwrite it.
THEOREM AcknowledgedAnswers == SafetySpec => []AcknowledgedAnswerStands
<1>1. IInv => AcknowledgedAnswerStands
  BY DEF IInv, AnswerIsResult, OutcomeIsResult, AcknowledgedAnswerStands
<1> QED
  BY <1>1, InductiveInvariant, PTL

\* The session never remembers on disk a tool it has not allowed.
SavedIsAllowed == saved \subseteq allow

\* Which steps touch the allowlist: closing a gate, and starting again.
LEMMA AllowlistSteps ==
  ASSUME [Next]_bridgeVars
  PROVE  \/ UNCHANGED <<allow, saved>>
         \/ Restart
         \/ \E r \in Request : ResumeDecided(r)
<1>1. CASE UNCHANGED bridgeVars
  BY <1>1 DEF bridgeVars
<1>2. ASSUME NEW t \in Task, AgentStep(t) \/ CancelTask(t) \/ Cleanup(t)
      PROVE  UNCHANGED <<allow, saved>>
  BY <1>2 DEF AgentStep, Ask, CancelTask, Cleanup
<1>3. ASSUME NEW t \in Task, NEW h \in Thread, BindTaskEmitter(t, h)
      PROVE  UNCHANGED <<allow, saved>>
  BY <1>3 DEF BindTaskEmitter
<1>4. ASSUME NEW r \in Request, NEW d \in Inbound, NEW hasText \in BOOLEAN, Respond(r, d, hasText)
      PROVE  UNCHANGED <<allow, saved>>
  BY <1>4 DEF Respond
<1>5. ASSUME NEW r \in Request, TimerFires(r) \/ ResumeCancelled(r)
      PROVE  UNCHANGED <<allow, saved>>
  BY <1>5 DEF TimerFires, ResumeCancelled
<1>6. ASSUME NEW h \in Thread, CancelForThread(h) \/ CancelAll
      PROVE  UNCHANGED <<allow, saved>>
  BY <1>6 DEF CancelForThread, CancelAll
<1>7. CASE CancelAll
  BY <1>7 DEF CancelAll
<1> QED
  BY <1>1, <1>2, <1>3, <1>4, <1>5, <1>6, <1>7 DEF Next, Resume

LEMMA SavedStaysAllowed == SafetySpec => []SavedIsAllowed
<1>1. Init => SavedIsAllowed
  BY DEF Init, SavedIsAllowed
<1>2. SavedIsAllowed /\ [Next]_bridgeVars => SavedIsAllowed'
  BY AllowlistSteps DEF SavedIsAllowed, Restart, ResumeDecided
<1> QED
  BY <1>1, <1>2, PTL DEF SafetySpec

\* A tool enters the allowlist only in the step in which its own gate closes on
\* an acknowledged "allowlist"; a cancelled gate and a restart add nothing.
THEOREM AllowlistEarned == SafetySpec => AllowlistIsEarned
<1> DEFINE Earned(tool) == \E r \in pending \ pending' :
             /\ gate[r].kind = "tool_approval" /\ gate[r].tool = tool
             /\ said[r] = "allowlist" /\ thrown[r] # "cancel"
           EarnedStep == \A tool \in allow' \ allow : Earned(tool)
<1>1. ASSUME IInv, SavedIsAllowed, [Next]_bridgeVars
      PROVE  EarnedStep
  <2> SUFFICES ASSUME NEW tool \in allow' \ allow
               PROVE  Earned(tool)
    OBVIOUS
  <2>1. PICK r \in Request : ResumeDecided(r)
    BY <1>1, AllowlistSteps DEF SavedIsAllowed, Restart
  <2>2. gate[r].kind = "tool_approval" /\ Outcome(r) = "allowlist" /\ gate[r].tool = tool
    BY <2>1 DEF ResumeDecided
  <2>3. fut[r] = "allowlist"
    BY <1>1, <2>1, <2>2, OutcomeIsDecision DEF Approving
  <2>4. said[r] = "allowlist"
    BY <1>1, <2>3 DEF IInv, AnswerIsResult, Approving
  <2>5. thrown[r] # "cancel" /\ r \in pending \ pending'
    BY <2>1 DEF ResumeDecided
  <2> QED
    BY <2>2, <2>4, <2>5
<1>2. IInv /\ SavedIsAllowed /\ [Next]_bridgeVars => [EarnedStep]_bridgeVars
  BY <1>1
<1>3. AllowlistIsEarned <=> [][EarnedStep]_bridgeVars
  BY DEF AllowlistIsEarned
<1> QED
  BY <1>2, <1>3, InductiveInvariant, SavedStaysAllowed, PTL DEF SafetySpec

\* A gate that came back with an exception was published as cancelled, and one
\* that did not come back was not published.
RaisedIsCancelled ==
  \A r \in Request :
    /\ given[r] = "raised" => decided[r] = "cancelled"
    /\ given[r] \in {"none", "lost"} => decided[r] = "none"

\* Which steps touch what a gate published and gave back.
LEMMA VerdictSteps ==
  ASSUME [Next]_bridgeVars
  PROVE  \/ UNCHANGED <<decided, given>>
         \/ Restart
         \/ \E r \in Request : ResumeCancelled(r) \/ ResumeDecided(r)
<1>1. CASE UNCHANGED bridgeVars
  BY <1>1 DEF bridgeVars
<1>2. ASSUME NEW t \in Task, AgentStep(t) \/ CancelTask(t) \/ Cleanup(t)
      PROVE  UNCHANGED <<decided, given>>
  BY <1>2 DEF AgentStep, Ask, CancelTask, Cleanup
<1>3. ASSUME NEW t \in Task, NEW h \in Thread, BindTaskEmitter(t, h)
      PROVE  UNCHANGED <<decided, given>>
  BY <1>3 DEF BindTaskEmitter
<1>4. ASSUME NEW r \in Request, NEW d \in Inbound, NEW hasText \in BOOLEAN, Respond(r, d, hasText)
      PROVE  UNCHANGED <<decided, given>>
  BY <1>4 DEF Respond
<1>5. ASSUME NEW r \in Request, TimerFires(r)
      PROVE  UNCHANGED <<decided, given>>
  BY <1>5 DEF TimerFires
<1>6. ASSUME NEW h \in Thread, CancelForThread(h) \/ CancelAll
      PROVE  UNCHANGED <<decided, given>>
  BY <1>6 DEF CancelForThread, CancelAll
<1>7. CASE CancelAll
  BY <1>7 DEF CancelAll
<1> QED
  BY <1>1, <1>2, <1>3, <1>4, <1>5, <1>6, <1>7 DEF Next, Resume

LEMMA RaisedStaysCancelled == SafetySpec => []RaisedIsCancelled
<1>1. Init => RaisedIsCancelled
  BY DEF Init, RaisedIsCancelled
<1>2. IInv /\ RaisedIsCancelled /\ [Next]_bridgeVars => RaisedIsCancelled'
  <2> SUFFICES ASSUME IInv, RaisedIsCancelled, [Next]_bridgeVars
               PROVE  RaisedIsCancelled'
    OBVIOUS
  <2>1. CASE UNCHANGED <<decided, given>>
    BY <2>1 DEF RaisedIsCancelled
  <2>2. CASE Restart
    BY <2>2 DEF RaisedIsCancelled, Restart, IInv, OpenIsUndecided
  <2>3. ASSUME NEW r \in Request, ResumeCancelled(r)
        PROVE  RaisedIsCancelled'
    BY <2>3 DEF RaisedIsCancelled, ResumeCancelled, IInv, TypeOK
  <2>4. ASSUME NEW r \in Request, ResumeDecided(r)
        PROVE  RaisedIsCancelled'
    <3> DEFINE o == Outcome(r)
               v == DecisionToCallbackValue(gate[r].kind, o, text[r])
    <3>1. v \in {"continue", "abort", "retry", "answer", "empty"}
      BY CallbackValueType
    <3>2. /\ decided' = [decided EXCEPT ![r] = o]
          /\ given' = [given EXCEPT ![r] = v]
      BY <2>4 DEF ResumeDecided
    <3> HIDE DEF o, v
    <3> QED
      BY <3>1, <3>2 DEF RaisedIsCancelled, IInv, TypeOK
  <2> QED
    BY <2>1, <2>2, <2>3, <2>4, VerdictSteps
<1> QED
  BY <1>1, <1>2, InductiveInvariant, PTL DEF SafetySpec

\* The verdict a gate's decision gives the agent is the one its event tells the
\* clients: _TOOL_GATE_RETURN, _REACT_RECOVERY_RETURN and emit_hitl_decision agree.
LEMMA ValueMatchesEvent ==
  ASSUME NEW kind, kind # "clarification", NEW d \in Decision, NEW hasText
  PROVE  DecisionEvent(d) = "denied" <=> DecisionToCallbackValue(kind, d, hasText) = "abort"
BY DEF DecisionEvent, DecisionToCallbackValue, ToolGateReturn, ReactRecoveryReturn,
       Decision, Approving

\* What clients see and what the agent does agree, whatever the races: an approval
\* gate is published as granted exactly when the agent was told to go on.
THEOREM WireAgrees == SafetySpec => []WireAgreesWithAgent
<1>1. IInv /\ RaisedIsCancelled => WireAgreesWithAgent
  <2> SUFFICES ASSUME IInv, RaisedIsCancelled,
                      NEW r \in Request, decided[r] # "none", gate[r].kind # "clarification"
               PROVE  DecisionEvent(decided[r]) = "denied" <=> given[r] \in {"abort", "raised"}
    BY DEF WireAgreesWithAgent
  <2>1. CASE given[r] = "raised"
    BY <2>1 DEF RaisedIsCancelled, DecisionEvent
  <2>2. CASE given[r] # "raised"
    <3>1. /\ fut[r] \in Decision /\ decided[r] = fut[r]
          /\ given[r] = DecisionToCallbackValue(gate[r].kind, fut[r], text[r])
      BY <2>2 DEF RaisedIsCancelled, IInv, OutcomeIsResult
    <3> QED
      BY <2>2, <3>1, ValueMatchesEvent
  <2> QED
    BY <2>1, <2>2
<1> QED
  BY <1>1, InductiveInvariant, RaisedStaysCancelled, PTL

-------------------------------------------------------------------------------
(* Refinement: every step of the bridge is one of the abstract gate, or none. *)

\* Steps that change neither the stage, nor the answer, nor the verdict of a gate.
LEMMA GateStutters ==
  ASSUME UNCHANGED <<gate, pending, said, given>>
  PROVE  UNCHANGED AbstractGate!vars
BY DEF AbstractGate!vars, gateStage, gateAnswer, gateVerdict, Proceeded, Approves

LEMMA InitMaps == Init => AbstractGate!Init
BY DEF Init, AbstractGate!Init, gateStage, gateAnswer, gateVerdict, Proceeded

LEMMA AskMaps ==
  ASSUME IInv, NEW r \in Request, NEW t \in Task, NEW kind \in Kind,
         NEW tool \in Tool \cup {NoTool}, NEW timed \in BOOLEAN, Ask(r, t, kind, tool, timed)
  PROVE  AbstractGate!Open(r)
<1> DEFINE g == [kind |-> kind, tool |-> tool, timed |-> timed, owner |-> t, via |-> bound[t]]
<1>1. g \in Gate
  BY DEF Gate, IInv, TypeOK
<1>2. g # NoGate
  BY <1>1, NullAssumption
<1>3. gate' = [gate EXCEPT ![r] = g] /\ pending' = pending \cup {r} /\ gate[r] = NoGate
      /\ UNCHANGED <<said, given>>
  BY DEF Ask
<1> HIDE DEF g
<1>4. gateStage[r] = "unopened"
  BY <1>3 DEF gateStage
<1>5. gateStage' = [gateStage EXCEPT ![r] = "open"]
  BY <1>2, <1>3 DEF gateStage, IInv, TypeOK
<1>6. UNCHANGED gateVerdict
  BY <1>3 DEF gateVerdict, Proceeded
<1>7. UNCHANGED gateAnswer
  BY <1>3 DEF gateAnswer, Approves, IInv, TypeOK, UnaskedIsBlank
<1> QED
  BY <1>4, <1>5, <1>6, <1>7 DEF AbstractGate!Open

LEMMA RespondMaps ==
  ASSUME IInv, NEW r \in Request, NEW d \in Inbound, NEW hasText \in BOOLEAN,
         Respond(r, d, hasText)
  PROVE  \E a \in {"yes", "no"} : AbstractGate!Answer(r, a)
<1> DEFINE n == NormalizeHitlDecision(d)
           a == IF gate[r].kind = "clarification" \/ n \in Approving THEN "yes" ELSE "no"
<1>1. n # "none"
  BY DEF NormalizeHitlDecision, Decision, Approving, Inbound
<1>2. said' = [said EXCEPT ![r] = n] /\ r \in pending /\ fut[r] = "waiting"
      /\ UNCHANGED <<gate, pending, given>>
  BY DEF Respond, FutureDone
<1> HIDE DEF n
<1>3. said[r] = "none" /\ given[r] = "none" /\ gate[r] # NoGate
  BY <1>2 DEF IInv, TypeOK, AnswerIsResult, OpenIsUndecided, Decision, Approving
<1>4. gateStage[r] = "open" /\ UNCHANGED gateStage
  BY <1>2, <1>3 DEF gateStage
<1>5. gateAnswer[r] = "none" /\ gateAnswer' = [gateAnswer EXCEPT ![r] = a]
  BY <1>1, <1>2, <1>3 DEF gateAnswer, Approves, IInv, TypeOK
<1>6. UNCHANGED gateVerdict
  BY <1>2, <1>3 DEF gateVerdict, Proceeded, IInv, TypeOK
<1> QED
  BY <1>4, <1>5, <1>6 DEF AbstractGate!Answer

LEMMA ResumeCancelledMaps ==
  ASSUME IInv, NEW r \in Request, ResumeCancelled(r)
  PROVE  AbstractGate!Abandon({r})
<1>1. gate[r] # NoGate
  BY DEF IInv, OpenIsUndecided, ResumeCancelled
<1> QED
  BY <1>1 DEF IInv, TypeOK, ResumeCancelled, AbstractGate!Abandon, gateStage, gateAnswer,
              gateVerdict, Proceeded, Approves

LEMMA ResumeDecidedMaps ==
  ASSUME IInv, NEW r \in Request, ResumeDecided(r)
  PROVE  AbstractGate!Proceed(r) \/ AbstractGate!Refuse(r)
<1> DEFINE o == Outcome(r)
           v == DecisionToCallbackValue(gate[r].kind, o, text[r])
           w == IF v \in {"continue", "retry"} \/ (said[r] # "none" /\ v \in {"answer", "empty"})
                THEN "proceed" ELSE "refuse"
<1>1. /\ said[r] # "none" => said[r] = o
      /\ o \in Approving => said[r] = o /\ o # "none"
  BY OutcomeIsDecision DEF IInv, AnswerIsResult, Approving
<1>2. IF gate[r].kind = "clarification" THEN v \in {"answer", "empty"}
      ELSE \/ v \in {"continue", "retry"} /\ o \in Approving
           \/ v = "abort" /\ o \notin Approving
  BY DEF DecisionToCallbackValue, ToolGateReturn, ReactRecoveryReturn, Approving
<1>3. v \in {"continue", "abort", "retry", "answer", "empty"}
  BY CallbackValueType
<1>4. r \in pending /\ pending' = pending \ {r} /\ given' = [given EXCEPT ![r] = v]
      /\ UNCHANGED <<gate, said>>
  BY DEF ResumeDecided
<1>5. gate[r] # NoGate
  BY <1>4 DEF IInv, OpenIsUndecided
<1> HIDE DEF o, v
<1>6. gateAnswer[r] = "yes" <=> w = "proceed"
  BY <1>1, <1>2 DEF gateAnswer, Approves
<1>7. gateStage[r] = "open" /\ gateStage' = [gateStage EXCEPT ![r] = "closed"]
  BY <1>4, <1>5 DEF gateStage
<1>8. gateVerdict' = [gateVerdict EXCEPT ![r] = w]
  BY <1>3, <1>4 DEF gateVerdict, Proceeded, IInv, TypeOK
<1>9. UNCHANGED gateAnswer
  BY <1>4 DEF gateAnswer, Approves
<1> QED
  BY <1>6, <1>7, <1>8, <1>9 DEF AbstractGate!Proceed, AbstractGate!Refuse, AbstractGate!Close

LEMMA RestartMaps ==
  ASSUME IInv, Restart
  PROVE  AbstractGate!Abandon(pending)
<1>1. /\ UNCHANGED <<gate, said>> /\ pending' = {}
      /\ given' = [r \in Request |-> IF r \in pending THEN "lost" ELSE given[r]]
  BY DEF Restart
<1>2. \A r \in pending : r \in Request /\ gate[r] # NoGate
  BY DEF IInv, TypeOK, OpenIsUndecided
<1>3. \A r \in pending : gateStage[r] = "open"
  BY <1>2 DEF gateStage
<1>4. gateStage' = [r \in Request |-> IF r \in pending THEN "closed" ELSE gateStage[r]]
  BY <1>1, <1>2 DEF gateStage
<1>5. gateVerdict' = [r \in Request |-> IF r \in pending THEN "abandon" ELSE gateVerdict[r]]
  BY <1>1 DEF gateVerdict, Proceeded
<1>6. UNCHANGED gateAnswer
  BY <1>1 DEF gateAnswer, Approves
<1> QED
  BY <1>3, <1>4, <1>5, <1>6 DEF AbstractGate!Abandon

LEMMA StepMaps ==
  ASSUME IInv, [Next]_bridgeVars
  PROVE  [AbstractGate!Next]_(AbstractGate!vars)
<1>1. CASE UNCHANGED bridgeVars
  BY <1>1, GateStutters DEF bridgeVars
<1>2. ASSUME NEW t \in Task, AgentStep(t) PROVE AbstractGate!Next
  BY <1>2, AskMaps DEF AgentStep, AbstractGate!Next
<1>3. ASSUME NEW t \in Task, CancelTask(t) \/ Cleanup(t) PROVE UNCHANGED AbstractGate!vars
  BY <1>3, GateStutters DEF CancelTask, Cleanup
<1>4. ASSUME NEW t \in Task, NEW h \in Thread, BindTaskEmitter(t, h)
      PROVE  UNCHANGED AbstractGate!vars
  BY <1>4, GateStutters DEF BindTaskEmitter
<1>5. ASSUME NEW r \in Request, NEW d \in Inbound, NEW hasText \in BOOLEAN, Respond(r, d, hasText)
      PROVE  AbstractGate!Next
  BY <1>5, RespondMaps DEF AbstractGate!Next
<1>6. ASSUME NEW r \in Request, TimerFires(r) PROVE UNCHANGED AbstractGate!vars
  BY <1>6, GateStutters DEF TimerFires
<1>7. ASSUME NEW r \in Request, Resume(r) PROVE AbstractGate!Next
  BY <1>7, ResumeCancelledMaps, ResumeDecidedMaps DEF Resume, AbstractGate!Next
<1>8. ASSUME NEW h \in Thread, CancelForThread(h) PROVE UNCHANGED AbstractGate!vars
  BY <1>8, GateStutters DEF CancelForThread
<1>9. CASE CancelAll
  BY <1>9, GateStutters DEF CancelAll
<1>10. CASE Restart
  <2>1. pending \in SUBSET Request
    BY DEF IInv, TypeOK
  <2> QED
    BY <1>10, <2>1, RestartMaps DEF AbstractGate!Next
<1> QED
  BY <1>1, <1>2, <1>3, <1>4, <1>5, <1>6, <1>7, <1>8, <1>9, <1>10 DEF Next

\* The bridge is a gate that opens once, is answered at most once and is decided
\* exactly once, on that answer: futures, timers and cancels add nothing to it.
THEOREM BridgeImplementsGate == SafetySpec => ImplementsGate
<1>1. Init => AbstractGate!Init
  BY InitMaps
<1>2. IInv /\ [Next]_bridgeVars => [AbstractGate!Next]_(AbstractGate!vars)
  BY StepMaps
<1> QED
  BY <1>1, <1>2, InductiveInvariant, PTL DEF SafetySpec, ImplementsGate, AbstractGate!Spec
===============================================================================
