-------------------------------- MODULE LlmGate --------------------------------
(***************************************************************************)
(* How calls reach one LLM: the circuit breaker and the semaphore of       *)
(* src/llm_utils.py, the strategies of robust_structured_call, the ReAct   *)
(* workers of src/worker.py that hold both during their whole graph, and   *)
(* the calls that pass neither.                                            *)
(*                                                                         *)
(* A tool of a worker may start a call of its own (an agent as a tool),    *)
(* which ends with the worker.  Time is abstract: the cooldown elapses     *)
(* when Cool says so, a timeout is one way for a call to fail.             *)
(***************************************************************************)
EXTENDS Integers, FiniteSets

CONSTANTS
  Caller,
  Kind,            \* Kind[c]: "structured", "worker" or "plain"
  Inner,           \* Inner[c]: the calls that the tools of worker c make
  Threshold,       \* failure_threshold
  Slots,           \* permits of DEFAULT_LLM_SEMAPHORE
  Strategies,      \* attempts of a structured call before the raw one
  BusyRetries,     \* further attempts while a probe is under way
  Retries,         \* max_retries of a worker
  MayCancel        \* callers may be cancelled

GateAssumption ==
  /\ Kind \in [Caller -> {"structured", "worker", "plain"}]
  /\ Inner \in [Caller -> SUBSET Caller]
  /\ {Threshold, Slots, Strategies} \subseteq Nat \ {0}
  /\ {BusyRetries, Retries} \subseteq Nat
  /\ MayCancel \in BOOLEAN

VARIABLES
  state,           \* CircuitBreaker._state
  failures,        \* _failures, up to the threshold
  cooled,          \* recovery_timeout has passed since _last_failure
  free,            \* permits left
  pc,              \* pc[c]: where caller c is
  left,            \* left[c]: its attempts
  busy,            \* busy[c]: its attempts to find no probe
  probe            \* history: the callers that are in as probes

vars == <<state, failures, cooled, free, pc, left, busy, probe>>
breaker == <<state, failures, cooled>>

Nested(c) == \E w \in Caller : c \in Inner[w]
Active(c) == pc[c] \notin {"idle", "done"}
Holds(c) == pc[c] \in {"call", "raw"}

Init ==
  /\ state = "closed" /\ failures = 0 /\ cooled = FALSE
  /\ free = Slots
  /\ pc = [c \in Caller |-> "idle"]
  /\ left = [c \in Caller |-> 0] /\ busy = [c \in Caller |-> 0]
  /\ probe = {}

-------------------------------------------------------------------------------
(* CircuitBreaker *)

\* __aenter__ lets the caller in, as the probe or as one of many
Admitted(c) ==
  \/ state = "closed" /\ UNCHANGED <<breaker, probe>>
  \/ /\ state = "open" /\ cooled
     /\ state' = "half" /\ probe' = probe \cup {c}
     /\ UNCHANGED <<failures, cooled>>

\* __aexit__ after a result, and after an exception that is no cancellation
Passed == state' = "closed" /\ failures' = 0 /\ UNCHANGED cooled
\* Mutant of Failed: the breaker opens one failure late.
FailedLate ==
  LET n == IF failures < Threshold THEN failures + 1 ELSE failures
  IN /\ failures' = n
     /\ state' = IF state = "half" \/ failures >= Threshold THEN "open" ELSE state
     /\ cooled' = FALSE

\* Mutant of Failed: the failure of the probe leaves the breaker as it is.
FailedKeepsHalf ==
  LET n == IF failures < Threshold THEN failures + 1 ELSE failures
  IN /\ failures' = n
     /\ state' = IF state = "closed" /\ n >= Threshold THEN "open" ELSE state
     /\ cooled' = FALSE

Failed ==
  LET n == IF failures < Threshold THEN failures + 1 ELSE failures
  IN /\ failures' = n
     /\ state' = IF state = "half" \/ n >= Threshold THEN "open" ELSE state
     /\ cooled' = FALSE

Cool ==
  /\ state = "open" /\ ~cooled
  /\ cooled' = TRUE
  /\ UNCHANGED <<state, failures, free, pc, left, busy, probe>>

-------------------------------------------------------------------------------
(* Callers *)

Attempts(c) == IF Kind[c] = "worker" THEN Retries ELSE Strategies - 1

Start(c) ==
  /\ pc[c] = "idle"
  /\ Nested(c) => \E w \in Caller : c \in Inner[w] /\ pc[w] = "call"
  /\ pc' = [pc EXCEPT ![c] = IF Kind[c] = "plain" THEN "plain" ELSE "enter"]
  /\ left' = [left EXCEPT ![c] = Attempts(c)]
  /\ busy' = [busy EXCEPT ![c] = BusyRetries]
  /\ UNCHANGED <<breaker, free, probe>>

\* where a caller goes after an attempt without result
Retry(c) ==
  IF left[c] > 0
  THEN pc' = [pc EXCEPT ![c] = "enter"] /\ left' = [left EXCEPT ![c] = @ - 1]
       /\ busy' = [busy EXCEPT ![c] = BusyRetries]
  ELSE pc' = [pc EXCEPT ![c] = IF Kind[c] = "structured" THEN "fallback" ELSE "done"]
       /\ UNCHANGED <<left, busy>>

\* async with breaker
Enter(c) ==
  /\ pc[c] = "enter" /\ Admitted(c)
  /\ pc' = [pc EXCEPT ![c] = "wait"]
  /\ UNCHANGED <<free, left, busy>>

\* CircuitBreakerOpen, or CircuitBreakerHalfOpenBusy for the last time
Rejected(c) ==
  /\ pc[c] = "enter"
  /\ \/ state = "open" /\ ~cooled
     \/ state = "half" /\ (Kind[c] = "structured" => busy[c] = 0)
  /\ Retry(c)
  /\ UNCHANGED <<breaker, free, probe>>

\* a structured call tries again while the probe of another is under way
BusyAgain(c) ==
  /\ pc[c] = "enter" /\ state = "half"
  /\ Kind[c] = "structured" /\ busy[c] > 0
  /\ busy' = [busy EXCEPT ![c] = @ - 1]
  /\ UNCHANGED <<breaker, free, pc, left, probe>>

\* the semaphore; the raw call of a structured one passes no breaker
Acquire(c) ==
  /\ pc[c] \in {"wait", "fallback"} /\ free > 0
  /\ free' = free - 1
  /\ pc' = [pc EXCEPT ![c] = IF @ = "wait" THEN "call" ELSE "raw"]
  /\ UNCHANGED <<breaker, left, busy, probe>>

\* the call, with a worker's tools, returns
Succeed(c) ==
  /\ pc[c] = "call" /\ \A d \in Inner[c] : ~Active(d)
  /\ Passed
  /\ free' = free + 1
  /\ pc' = [pc EXCEPT ![c] = "done"]
  /\ probe' = probe \ {c}
  /\ UNCHANGED <<left, busy>>

\* what a call that ends early takes along: its tools' calls are cancelled
Dropped(c) == {d \in Inner[c] : Active(d)}
Freed(S) == Cardinality({d \in S : Holds(d)})

\* Mutant of Fail: a permit is released after a result only.
FailKeepsPermit(c) ==
  /\ pc[c] = "call"
  /\ Failed
  /\ pc' = [pc EXCEPT ![c] = "done"]
  /\ probe' = probe \ {c}
  /\ UNCHANGED <<free, left, busy>>

\* the call raises or times out; a worker's timeout is its last attempt
Fail(c) ==
  /\ pc[c] = "call"
  /\ Failed
  /\ free' = free + 1 + Freed(Dropped(c))
  /\ probe' = probe \ ({c} \cup Dropped(c))
  /\ LET end == [d \in Caller |-> IF d \in Dropped(c) THEN "done" ELSE pc[d]]
         again == left[c] > 0
     IN \/ /\ again
           /\ pc' = [end EXCEPT ![c] = "enter"]
           /\ left' = [left EXCEPT ![c] = @ - 1]
           /\ busy' = [busy EXCEPT ![c] = BusyRetries]
        \/ /\ ~again \/ Kind[c] = "worker"
           /\ pc' = [end EXCEPT ![c] =
                      IF Kind[c] = "structured" THEN "fallback" ELSE "done"]
           /\ UNCHANGED <<left, busy>>

\* a raw or plain call ends, with a result or without
End(c) ==
  /\ pc[c] \in {"raw", "plain"}
  /\ free' = IF Holds(c) THEN free + 1 ELSE free
  /\ pc' = [pc EXCEPT ![c] = "done"]
  /\ UNCHANGED <<breaker, left, busy, probe>>

\* CancelledError passes the breaker without a change
Cancel(c) ==
  /\ MayCancel /\ Active(c) /\ ~Nested(c)
  /\ LET S == {c} \cup Dropped(c)
     IN /\ free' = free + Freed(S)
        /\ pc' = [d \in Caller |-> IF d \in S THEN "done" ELSE pc[d]]
        /\ probe' = probe \ S
  /\ UNCHANGED <<breaker, left, busy>>

\* the next call of the same caller
Again(c) ==
  /\ pc[c] = "done"
  /\ pc' = [pc EXCEPT ![c] = "idle"]
  /\ UNCHANGED <<breaker, free, left, busy, probe>>

Attempt(c) == Enter(c) \/ Rejected(c) \/ BusyAgain(c)

Next ==
  \/ Cool
  \/ \E c \in Caller :
       Start(c) \/ Attempt(c) \/ Acquire(c) \/ Succeed(c) \/ Fail(c) \/ End(c)
       \/ Cancel(c) \/ Again(c)

(* A caller goes on by itself; a call in flight returns, fails or times    *)
(* out; the semaphore serves its waiters in order.                         *)
Proceed(c) == Attempt(c) \/ Succeed(c) \/ Fail(c) \/ End(c)
Fairness == \A c \in Caller : WF_vars(Proceed(c)) /\ SF_vars(Acquire(c))

Spec == Init /\ [][Next]_vars /\ Fairness

-------------------------------------------------------------------------------
(* Properties *)

\* Each permit is free or with a call that holds it; a caller that waits is admitted.
TypeOK ==
  /\ state \in {"closed", "open", "half"} /\ failures \in 0..Threshold
  /\ cooled \in BOOLEAN
  /\ pc \in [Caller -> {"idle", "enter", "wait", "call", "fallback", "raw", "plain", "done"}]
  /\ free \in Nat /\ free + Cardinality({c \in Caller : Holds(c)}) = Slots
  /\ probe \subseteq {c \in Caller : pc[c] \in {"wait", "call"}}

\* A closed breaker has seen fewer failures in a row than the threshold, an
\* open one has just seen that many or the failure of a half-open one.
ClosedIsHealthy == state = "closed" <=> failures < Threshold
================================================================================
