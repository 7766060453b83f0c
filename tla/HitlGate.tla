------------------------------- MODULE HitlGate -------------------------------
(***************************************************************************)
(* What a human-in-the-loop gate promises, with no futures, timers or      *)
(* asyncio tasks: src/agloom/src/hitl_contract.py ("one interrupt -> one   *)
(* decision -> execute or skip") and docs/protocol/agp.md.                 *)
(*                                                                         *)
(* A gate is opened once.  While it is open the user may answer it once.   *)
(* It closes once: the agent proceeds only if the answer was a "yes"; it   *)
(* is refused when the answer was a "no" or when nobody answered; it is    *)
(* abandoned, whatever was answered, when the agent's task goes away.      *)
(***************************************************************************)

CONSTANT Request      \* request ids; a gate each

VARIABLES
  stage,              \* "unopened", "open" or "closed"
  answer,             \* the first answer the gate accepted, or "none"
  verdict             \* what the waiting agent was told, or "none"

vars == <<stage, answer, verdict>>

TypeOK ==
  /\ stage \in [Request -> {"unopened", "open", "closed"}]
  /\ answer \in [Request -> {"none", "yes", "no"}]
  /\ verdict \in [Request -> {"none", "proceed", "refuse", "abandon"}]

Init ==
  /\ stage = [r \in Request |-> "unopened"]
  /\ answer = [r \in Request |-> "none"]
  /\ verdict = [r \in Request |-> "none"]

Open(r) ==
  /\ stage[r] = "unopened"
  /\ stage' = [stage EXCEPT ![r] = "open"]
  /\ UNCHANGED <<answer, verdict>>

Answer(r, a) ==
  /\ stage[r] = "open"
  /\ answer[r] = "none"
  /\ answer' = [answer EXCEPT ![r] = a]
  /\ UNCHANGED <<stage, verdict>>

Close(r, v) ==
  /\ stage[r] = "open"
  /\ stage' = [stage EXCEPT ![r] = "closed"]
  /\ verdict' = [verdict EXCEPT ![r] = v]
  /\ UNCHANGED answer

Proceed(r) == answer[r] = "yes" /\ Close(r, "proceed")
Refuse(r)  == answer[r] # "yes" /\ Close(r, "refuse")

\* Several gates may be abandoned at once: a process that dies loses them all.
Abandon(R) ==
  /\ \A r \in R : stage[r] = "open"
  /\ stage' = [r \in Request |-> IF r \in R THEN "closed" ELSE stage[r]]
  /\ verdict' = [r \in Request |-> IF r \in R THEN "abandon" ELSE verdict[r]]
  /\ UNCHANGED answer

Next ==
  \/ \E r \in Request :
       \/ Open(r)
       \/ \E a \in {"yes", "no"} : Answer(r, a)
       \/ Proceed(r)
       \/ Refuse(r)
  \/ \E R \in SUBSET Request : Abandon(R)

Spec == Init /\ [][Next]_vars
===============================================================================
