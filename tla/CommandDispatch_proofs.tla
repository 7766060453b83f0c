------------------------- MODULE CommandDispatch_proofs -------------------------
(***************************************************************************)
(* Proofs about CommandDispatch, for any number of threads and tasks.  The *)
(* thread table is of no help: it may name the wrong task or none.  What   *)
(* the teardown rests on is the set of invocation tasks, which keeps every *)
(* task from its creation to its done callbacks.                           *)
(***************************************************************************)
EXTENDS CommandDispatch, SequenceTheorems, TLAPS

\* invocation_tasks has every task that has not run its done callbacks.
TrackedUntilForgotten ==
  \A t \in Task : state[t] \in {"created", "running", "done"} => t \in invocation_tasks

\* The teardown waits for every task that still lives, at most up to its timeout.
JoinedCoversLive ==
  \A t \in Task : Live(t) =>
    /\ main \in {"joining", "closed"} => t \in joined
    /\ main = "closed" => t \in late

\* A task is cancelled while it lives, for a reason that is on record and true.
CancelHasReason ==
  \A t \in Task :
    /\ t \in must_cancel => Live(t) /\ reason[t] # "none"
    /\ reason[t] = "user_aborted" => t \in hit
    /\ reason[t] = "shutdown" => main \in {"joining", "closed"}

\* A cancelled task is still to be told, or was told, unless its agent caught it.
HitIsTold ==
  \A t \in hit :
    /\ state[t] # "unused"
    /\ Live(t) => t \in must_cancel \/ t \in swallowed

\* The wire follows the task's life.
WireFollowsState ==
  \A t \in Task :
    /\ state[t] \in {"unused", "created"} => wire[t] = "silent"
    /\ state[t] = "running" => wire[t] = "busy"

IInv ==
  /\ TypeOK
  /\ TrackedUntilForgotten
  /\ JoinedCoversLive
  /\ CancelHasReason
  /\ HitIsTold
  /\ WireFollowsState
  /\ ReasonIsTrue
  /\ AbortIsHonoured

-------------------------------------------------------------------------------
(* The invariant *)

LEMMA InitIInv == Init => IInv
<1>1. Init => TypeOK
  <2>1. <<>> \in Seq(Task)
    BY EmptySeq
  <2> QED
    BY <2>1 DEF Init, TypeOK
<1> QED
  BY <1>1
     DEF Init, IInv, TrackedUntilForgotten, JoinedCoversLive, CancelHasReason, HitIsTold,
         WireFollowsState, ReasonIsTrue, AbortIsHonoured, Live, Outcome, Reason

LEMMA InvokeIInv ==
  ASSUME IInv, NEW t \in Task, Invoke(t)
  PROVE  IInv'
<1>1. main' \in {"serving", "leaving"}
  BY DEF Invoke, AfterCommand
<1>2. TypeOK'
  <2>1. Append(ready, t) \in Seq(Task)
    BY DEF IInv, TypeOK
  <2> QED
    BY <1>1, <2>1 DEF IInv, TypeOK, Invoke
<1> QED
  BY <1>1, <1>2
     DEF IInv, TypeOK, TrackedUntilForgotten, JoinedCoversLive, CancelHasReason, HitIsTold,
         WireFollowsState, ReasonIsTrue, AbortIsHonoured, Live, Invoke

\* A command.cancel, whichever tasks it finds.
LEMMA UserCancelIInv ==
  ASSUME IInv, NEW ts \in SUBSET Task, UserCancel(ts)
  PROVE  IInv'
<1>1. main' \in {"serving", "leaving"}
  BY DEF UserCancel, AfterCommand
<1>2. TypeOK'
  BY <1>1 DEF IInv, TypeOK, UserCancel, CancelTasks, Reason, tableVars
<1>3. TrackedUntilForgotten' /\ JoinedCoversLive'
  BY <1>1 DEF IInv, TrackedUntilForgotten, JoinedCoversLive, UserCancel, tableVars, Live
<1>4. CancelHasReason'
  BY <1>1 DEF IInv, TypeOK, CancelHasReason, UserCancel, CancelTasks, Live
<1>5. HitIsTold' /\ WireFollowsState' /\ ReasonIsTrue' /\ AbortIsHonoured'
  BY <1>1 DEF IInv, TypeOK, HitIsTold, WireFollowsState, ReasonIsTrue, AbortIsHonoured,
              UserCancel, CancelTasks, Live
<1> QED
  BY <1>2, <1>3, <1>4, <1>5 DEF IInv

LEMMA SeenAreTasks == IInv => Seen \in SUBSET Task
BY DEF IInv, TypeOK, Seen

\* The steps of the serve loop that leave every task and both tables alone.
LEMMA QuietLoopIInv ==
  ASSUME IInv, UNCHANGED <<joined, late, tableVars, taskVars>>,
         main' \in {"serving", "awaiting", "leaving"}, main \in {"serving", "awaiting"},
         clearing' \in Thread \cup {NoThread}, stop' \in BOOLEAN
  PROVE  IInv'
BY DEF IInv, TypeOK, TrackedUntilForgotten, JoinedCoversLive, CancelHasReason, HitIsTold,
       WireFollowsState, ReasonIsTrue, AbortIsHonoured, Live, tableVars, taskVars

LEMMA SignalIInv ==
  ASSUME IInv, Signal
  PROVE  IInv'
BY DEF IInv, TypeOK, TrackedUntilForgotten, JoinedCoversLive, CancelHasReason, HitIsTold,
       WireFollowsState, ReasonIsTrue, AbortIsHonoured, Live, tableVars, taskVars, Signal

LEMMA CancelInvocationsIInv ==
  ASSUME IInv, CancelInvocations
  PROVE  IInv'
<1>1. Seen \in SUBSET Task /\ invocation_tasks \subseteq Seen
  BY SeenAreTasks DEF Seen
<1>2. TypeOK'
  BY <1>1 DEF IInv, TypeOK, CancelInvocations, CancelTasks, Reason, tableVars
<1>3. TrackedUntilForgotten'
  BY DEF IInv, TrackedUntilForgotten, CancelInvocations, tableVars
<1>4. JoinedCoversLive'
  BY <1>1 DEF IInv, TrackedUntilForgotten, JoinedCoversLive, CancelInvocations, Live
<1>5. CancelHasReason'
  BY <1>1 DEF IInv, TypeOK, CancelHasReason, CancelInvocations, CancelTasks, Live
<1>6. HitIsTold' /\ WireFollowsState' /\ ReasonIsTrue' /\ AbortIsHonoured'
  BY <1>1 DEF IInv, TypeOK, HitIsTold, WireFollowsState, ReasonIsTrue, AbortIsHonoured,
              CancelInvocations, CancelTasks, Live
<1> QED
  BY <1>2, <1>3, <1>4, <1>5, <1>6 DEF IInv

LEMMA JoinTimesOutIInv ==
  ASSUME IInv, NEW t \in Task, JoinTimesOut(t)
  PROVE  IInv'
BY DEF IInv, TypeOK, TrackedUntilForgotten, JoinedCoversLive, CancelHasReason, HitIsTold,
       WireFollowsState, ReasonIsTrue, AbortIsHonoured, Live, tableVars, taskVars, JoinTimesOut

LEMMA CloseSessionIInv ==
  ASSUME IInv, CloseSession
  PROVE  IInv'
BY DEF IInv, TypeOK, TrackedUntilForgotten, JoinedCoversLive, CancelHasReason, HitIsTold,
       WireFollowsState, ReasonIsTrue, AbortIsHonoured, Live, tableVars, taskVars, CloseSession

LEMMA StartIInv ==
  ASSUME IInv, NEW t \in Task, Start(t)
  PROVE  IInv'
<1>1. /\ Tail(ready) \in Seq(Task) /\ Append(Tail(ready), t) \in Seq(Task)
  BY DEF IInv, TypeOK, Start
<1>2. TypeOK'
  BY <1>1 DEF IInv, TypeOK, Start, loopVars, tableVars
<1>3. /\ state[t] = "created" /\ state'[t] \in {"running", "done"}
      /\ \A u \in Task \ {t} : state'[u] = state[u] /\ wire'[u] = wire[u]
      /\ \A u \in Task : u \in must_cancel' <=> u \in must_cancel /\ u # t
      /\ UNCHANGED <<main, joined, late, invocation_tasks, reason, hit, swallowed>>
  BY DEF IInv, TypeOK, Start, loopVars, tableVars
<1>4. IF t \in must_cancel THEN state'[t] = "done" /\ wire'[t] = wire[t]
                          ELSE state'[t] = "running" /\ wire'[t] = "busy"
  BY DEF IInv, TypeOK, Start
<1>5. TrackedUntilForgotten' /\ JoinedCoversLive' /\ CancelHasReason'
  BY <1>3 DEF IInv, TrackedUntilForgotten, JoinedCoversLive, CancelHasReason, Live
<1>6. HitIsTold'
  BY <1>3, <1>4 DEF IInv, TypeOK, HitIsTold, Live
<1>7. WireFollowsState' /\ ReasonIsTrue' /\ AbortIsHonoured'
  <2>1. wire[t] = "silent"
    BY <1>3 DEF IInv, WireFollowsState
  <2> QED
    BY <1>3, <1>4, <2>1 DEF IInv, TypeOK, WireFollowsState, ReasonIsTrue, AbortIsHonoured
<1> QED
  BY <1>2, <1>5, <1>6, <1>7 DEF IInv

LEMMA FinishIInv ==
  ASSUME IInv, NEW t \in Task, Finish(t)
  PROVE  IInv'
<1>1. PICK outcome \in {"completed", "error"} : Ends(t, outcome)
  BY DEF Finish
<1>2. TypeOK'
  <2>1. Append(ready, t) \in Seq(Task)
    BY DEF IInv, TypeOK
  <2> QED
    BY <1>1, <2>1 DEF IInv, TypeOK, Finish, Ends, Outcome, loopVars, tableVars
<1>3. AbortIsHonoured'
  BY <1>1 DEF IInv, TypeOK, HitIsTold, AbortIsHonoured, Live, Finish, Ends
<1> QED
  BY <1>1, <1>2, <1>3
     DEF IInv, TypeOK, TrackedUntilForgotten, JoinedCoversLive, CancelHasReason, HitIsTold,
         WireFollowsState, ReasonIsTrue, Live, Finish, Ends, loopVars, tableVars

LEMMA AbortIInv ==
  ASSUME IInv, NEW t \in Task, Abort(t)
  PROVE  IInv'
<1>1. ConsumedReason(t) = reason[t] /\ reason[t] \in Reason
  BY DEF IInv, TypeOK, CancelHasReason, Abort, ConsumedReason
<1>2. TypeOK'
  <2>1. Append(ready, t) \in Seq(Task)
    BY DEF IInv, TypeOK
  <2> QED
    BY <1>1, <2>1 DEF IInv, TypeOK, Abort, Ends, Outcome, loopVars, tableVars
<1>3. ReasonIsTrue' /\ AbortIsHonoured'
  BY <1>1 DEF IInv, TypeOK, CancelHasReason, ReasonIsTrue, AbortIsHonoured, Abort, Ends, Reason,
              loopVars
<1> QED
  BY <1>2, <1>3
     DEF IInv, TypeOK, TrackedUntilForgotten, JoinedCoversLive, CancelHasReason, HitIsTold,
         WireFollowsState, Live, Abort, Ends, loopVars, tableVars

LEMMA SwallowIInv ==
  ASSUME IInv, NEW t \in Task, Swallow(t)
  PROVE  IInv'
BY DEF IInv, TypeOK, TrackedUntilForgotten, JoinedCoversLive, CancelHasReason, HitIsTold,
       WireFollowsState, ReasonIsTrue, AbortIsHonoured, Live, loopVars, tableVars, Swallow

LEMMA DoneCallbacksIInv ==
  ASSUME IInv, NEW t \in Task, DoneCallbacks(t)
  PROVE  IInv'
<1>1. Tail(ready) \in Seq(Task)
  BY DEF IInv, TypeOK, DoneCallbacks
<1>2. TypeOK'
  BY <1>1 DEF IInv, TypeOK, DoneCallbacks, loopVars
<1> QED
  BY <1>2
     DEF IInv, TypeOK, TrackedUntilForgotten, JoinedCoversLive, CancelHasReason, HitIsTold,
         WireFollowsState, ReasonIsTrue, AbortIsHonoured, Live, DoneCallbacks, loopVars

LEMMA NextIInv == IInv /\ [Next]_dispatchVars => IInv'
<1> SUFFICES ASSUME IInv, [Next]_dispatchVars
             PROVE  IInv'
  OBVIOUS
<1>1. CASE UNCHANGED dispatchVars
  BY <1>1
     DEF IInv, TypeOK, TrackedUntilForgotten, JoinedCoversLive, CancelHasReason, HitIsTold,
         WireFollowsState, ReasonIsTrue, AbortIsHonoured, Live, dispatchVars, loopVars,
         tableVars, taskVars
<1>2. ASSUME NEW t \in Task, Invoke(t) PROVE IInv'
  BY <1>2, InvokeIInv
<1>3. ASSUME NEW t \in Task, Start(t) PROVE IInv'
  BY <1>3, StartIInv
<1>4. ASSUME NEW t \in Task, AgentStep(t) PROVE IInv'
  BY <1>4, FinishIInv, AbortIInv, SwallowIInv DEF AgentStep
<1>5. ASSUME NEW t \in Task, DoneCallbacks(t) PROVE IInv'
  BY <1>5, DoneCallbacksIInv
<1>6. ASSUME NEW t \in Task, JoinTimesOut(t) PROVE IInv'
  BY <1>6, JoinTimesOutIInv
<1>7. ASSUME NEW h \in Thread, CancelThread(h) PROVE IInv'
  <2>1. {thread_tasks[h]} \in SUBSET Task
    BY <1>7 DEF CancelThread, Busy, IInv, TypeOK
  <2> QED
    BY <1>7, <2>1, UserCancelIInv DEF CancelThread
<1>8. ASSUME NEW h \in Thread, ClearMemory(h) PROVE IInv'
  <2>1. clearing' \in Thread \cup {NoThread} /\ stop' \in BOOLEAN
    BY <1>8 DEF ClearMemory, IInv, TypeOK
  <2> QED
    BY <1>8, <2>1, QuietLoopIInv DEF ClearMemory
<1>9. CASE CancelEverything
  BY <1>9, SeenAreTasks, UserCancelIInv DEF CancelEverything
<1>10. CASE AwaitOther \/ HandlerReturns \/ Shutdown
  <2>1. clearing' \in Thread \cup {NoThread} /\ stop' \in BOOLEAN
    BY <1>10 DEF AwaitOther, HandlerReturns, Shutdown, IInv, TypeOK
  <2> QED
    BY <1>10, <2>1, QuietLoopIInv DEF AwaitOther, HandlerReturns, Shutdown, AfterCommand
<1>11. CASE Signal
  BY <1>11, SignalIInv
<1>12. CASE LoopStep
  BY <1>10, <1>12, CancelInvocationsIInv, CloseSessionIInv DEF LoopStep
<1> QED
  BY <1>1, <1>2, <1>3, <1>4, <1>5, <1>6, <1>7, <1>8, <1>9, <1>10, <1>11, <1>12 DEF Next

\* The invocation set, the cancel reasons and the wire agree with the tasks' lives.
THEOREM InductiveInvariant == SafetySpec => []IInv
<1>1. Init => IInv
  BY InitIInv
<1>2. IInv /\ [Next]_dispatchVars => IInv'
  BY NextIInv
<1> QED
  BY <1>1, <1>2, PTL DEF SafetySpec

-------------------------------------------------------------------------------
(* Safety *)

\* The variables of the serve loop and of the tasks keep their types.
THEOREM TypeCorrect == SafetySpec => []TypeOK
<1>1. IInv => TypeOK
  BY DEF IInv
<1> QED
  BY <1>1, InductiveInvariant, PTL

\* The agent and its stores are closed under no invocation but one that outlasted
\* its join timeout, however many tasks the thread table has lost.
THEOREM AgentOutlivesInvocations == SafetySpec => []AgentClosedLast
<1>1. IInv => AgentClosedLast
  BY DEF IInv, JoinedCoversLive, AgentClosedLast
<1> QED
  BY <1>1, InductiveInvariant, PTL

\* The reason on the wire is the one that happened.
THEOREM ReasonsAreTrue == SafetySpec => []ReasonIsTrue
<1>1. IInv => ReasonIsTrue
  BY DEF IInv
<1> QED
  BY <1>1, InductiveInvariant, PTL

\* An aborted invocation completes only if its agent caught the CancelledError.
THEOREM AbortsAreHonoured == SafetySpec => []AbortIsHonoured
<1>1. IInv => AbortIsHonoured
  BY DEF IInv
<1> QED
  BY <1>1, InductiveInvariant, PTL
===============================================================================
