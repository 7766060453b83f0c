------------------------------ MODULE Handoffs ------------------------------
(***************************************************************************)
(* Agents that hand their turns to each other (delegation.py, the hand-off *)
(* of run_fresh, adelegate, as_tool). A call is a stack of turns, one per  *)
(* agent it has reached; every turn holds the lock of its agent until it   *)
(* returns, and the lock is not reentrant.                                 *)
(***************************************************************************)
EXTENDS Integers, Sequences, FiniteSets, SequencesExt

CONSTANTS
    Agents, Callers,
    Targets,     \* Targets[a]: the hand-off targets, then the delegates of a
    Tools,       \* Tools[a]: the agents a was given with as_tool
    MaxAsks,     \* tool calls of one turn (its iterations are limited)
    None

HandoffAssumption == Targets \in [Agents -> Seq(Agents)] /\ None \notin Agents \cup Callers

VARIABLES stack, lock, call

vars == <<stack, lock, call>>

NoCall == [out |-> "idle"]

Init ==
    /\ stack = [c \in Callers |-> <<>>]
    /\ lock = [a \in Agents |-> None]
    /\ call = [c \in Callers |-> NoCall]

Turn(a) == [agent |-> a, at |-> "want", asks |-> 0]
Top(c) == stack[c][Len(stack[c])]
Running(c) == call[c].out = "running" /\ stack[c] # <<>>
At(c, p) == [stack EXCEPT ![c][Len(stack[c])].at = p]

(***************************************************************************)
(* resolve_handoff: the target of that name if its filter takes the query, *)
(* else the first target whose filter does (accepts is what they say).     *)
(***************************************************************************)
ResolveHandoff(targets, name, accepts) ==
    LET first == {i \in DOMAIN targets : /\ targets[i] \in accepts
                                         /\ \A j \in 1..(i - 1) : targets[j] \notin accepts}
    IN  IF name \in ToSet(targets) \cap accepts THEN name
        ELSE IF first = {} THEN None ELSE targets[CHOOSE i \in first : TRUE]

(* ainvoke on a                                                            *)
Ainvoke(c, a) ==
    /\ call[c].out = "idle"
    /\ call' = [call EXCEPT ![c].out = "running"]
    /\ stack' = [stack EXCEPT ![c] = <<Turn(a)>>]
    /\ UNCHANGED lock

(* adelegate on a: no turn of a itself; ValueError when nobody takes it.   *)
Adelegate(c, a, name, accepts) ==
    /\ call[c].out = "idle"
    /\ LET t == ResolveHandoff(Targets[a], name, accepts)
       IN  /\ call' = [call EXCEPT ![c].out = IF t = None THEN "ValueError" ELSE "running"]
           /\ stack' = [stack EXCEPT ![c] = IF t = None THEN <<>> ELSE <<Turn(t)>>]
    /\ UNCHANGED lock

TakeTurn(c) ==
    /\ Running(c) /\ Top(c).at = "want" /\ lock[Top(c).agent] = None
    /\ lock' = [lock EXCEPT ![Top(c).agent] = c]
    /\ stack' = At(c, "plan")
    /\ UNCHANGED call

(* _extract_delegate_from_analysis: a target the reasoning mentions.       *)
Mentioned(a) == ToSet(Targets[a]) \cup {None}

(***************************************************************************)
(* After classification: the first target whose name is a word of the      *)
(* reasoning is resolved like a name given by a caller; its turn becomes   *)
(* this turn's answer.                                                     *)
(***************************************************************************)
HandOff(c, name, accepts) ==
    /\ Running(c) /\ Top(c).at = "plan"
    /\ LET t == IF name = None THEN None ELSE ResolveHandoff(Targets[Top(c).agent], name, accepts)
       IN  stack' = IF t = None THEN At(c, "own")
                    ELSE [stack EXCEPT ![c] = Append(At(c, "handed_off")[c], Turn(t))]
    /\ UNCHANGED <<lock, call>>

(* _invoke of make_agent_tool, in a turn the agent runs itself             *)
AskTool(c, b) ==
    /\ Running(c) /\ Top(c).at = "own" /\ b \in Tools[Top(c).agent] /\ Top(c).asks < MaxAsks
    /\ stack' = [stack EXCEPT ![c] = Append([At(c, "asking")[c] EXCEPT ![Len(stack[c])].asks = @ + 1], Turn(b))]
    /\ UNCHANGED <<lock, call>>

Release(c) == [lock EXCEPT ![Top(c).agent] = None]
Popped(c) == Front(stack[c])

\* Mutant of Return.
AtReturnForgets(c) ==
    /\ Running(c) /\ Top(c).at \in {"own", "returned"}
    /\ lock' = Release(c)
    /\ IF Popped(c) = <<>>
       THEN /\ stack' = [stack EXCEPT ![c] = <<>>]
            /\ call' = [call EXCEPT ![c].out = "answered"]
       ELSE stack' = [stack EXCEPT ![c] = Popped(c)] /\ UNCHANGED call

(* A turn returns: a hand-off returns with it, a tool gives its answer.    *)
Return(c) ==
    /\ Running(c) /\ Top(c).at \in {"own", "returned"}
    /\ lock' = Release(c)
    /\ IF Popped(c) = <<>>
       THEN /\ stack' = [stack EXCEPT ![c] = <<>>]
            /\ call' = [call EXCEPT ![c].out = "answered"]
       ELSE /\ LET n == Len(Popped(c))
               IN  stack' = [stack EXCEPT ![c] = [Popped(c) EXCEPT ![n].at = IF @ = "handed_off" THEN "returned" ELSE "own"]]
            /\ UNCHANGED call

\* Mutant of Raise.
RaiseKeeps(c) ==
    /\ call[c].out \in {"running", "raising"} /\ stack[c] # <<>>
    /\ lock' = IF call[c].out = "raising" THEN lock ELSE Release(c)
    /\ stack' = [stack EXCEPT ![c] = Popped(c)]
    /\ call' = [call EXCEPT ![c].out = IF Popped(c) = <<>> THEN "raised" ELSE "raising"]

(* An error, or a cancelled caller: through every turn of the stack, one   *)
(* after the other. An error of a tool may be answered by the model.       *)
Raise(c) ==
    /\ call[c].out \in {"running", "raising"} /\ stack[c] # <<>>
    /\ lock' = IF Top(c).at = "want" THEN lock ELSE Release(c)
    /\ stack' = [stack EXCEPT ![c] = Popped(c)]
    /\ call' = [call EXCEPT ![c].out = IF Popped(c) = <<>> THEN "raised" ELSE "raising"]
Survive(c) ==
    /\ call[c].out = "raising" /\ Top(c).at = "asking"
    /\ stack' = At(c, "own")
    /\ call' = [call EXCEPT ![c].out = "running"]
    /\ UNCHANGED lock

Work(c) ==
    \/ TakeTurn(c) \/ Return(c)
    \/ \E n \in Mentioned(Top(c).agent), s \in SUBSET Agents : HandOff(c, n, s)
    \/ call[c].out = "raising" /\ Raise(c)

Next ==
    \E c \in Callers :
        \/ \E a \in Agents :
              \/ Ainvoke(c, a)
              \/ \E n \in Agents, s \in SUBSET Agents : Adelegate(c, a, n, s)
        \/ stack[c] # <<>> /\ (Work(c) \/ Raise(c) \/ Survive(c) \/ \E b \in Agents : AskTool(c, b))

Spec == Init /\ [][Next]_vars

(* A task runs on while it can, and a lock is handed to its waiters in     *)
(* turn.                                                                   *)
FairSpec ==
    /\ Spec
    /\ \A c \in Callers : WF_vars(stack[c] # <<>> /\ Work(c)) /\ SF_vars(stack[c] # <<>> /\ TakeTurn(c))

(***************************************************************************)
(* Properties.                                                             *)
(***************************************************************************)
(* Types, and a turn that is not on top waits for the one above it.        *)
TypeOK ==
    \A c \in Callers :
        /\ call[c].out \in {"idle", "running", "raising", "answered", "raised", "ValueError"}
        /\ \A i \in 1..(Len(stack[c]) - 1) : stack[c][i].at \in {"handed_off", "asking"}

(* _hold_turn_lock: an agent is locked exactly while one turn is on it, so *)
(* no lock outlives its call, however deep the error came from.            *)
LocksAreHeld ==
    \A c \in Callers, a \in Agents :
        (lock[a] = c) = \E i \in DOMAIN stack[c] : stack[c][i].agent = a /\ stack[c][i].at # "want"

(* Every call ends. The agents may hand off in any direction.              *)
EveryCallEnds == \A c \in Callers : (call[c].out = "running") ~> (stack[c] = <<>>)
=============================================================================
