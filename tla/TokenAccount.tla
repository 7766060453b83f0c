---------------------------- MODULE TokenAccount ----------------------------
(* How the token usage of one turn is counted (src/wire_tokens.py, src/models.py, *)
(* llm_streaming.py): every LLM call merges the usage of its chunks, reports it   *)
(* on the wire and notes it in the ledger of the turn; the results of workers and *)
(* pattern are merged into token_usage, and what the ledger misses is reported as *)
(* a rollup.  A usage counts input and output; the total follows from them.       *)
EXTENDS Integers, FiniteSets, FiniteSetsExt

CONSTANTS
    Workers,      \* workers of the turn; {} for a pattern that calls the model once
    Main,         \* the call of the pattern itself: synthesis, or the only call
    Deltas,       \* usage a chunk can add
    Cumulative,   \* TRUE: the provider repeats its running total in each chunk
    Omits,        \* TRUE: the final chunk may leave out fields sent earlier
    PrefersSum,   \* TRUE: the model name is one of the providers known to send deltas
    HasQueue,     \* TRUE: the turn has an event queue, hence streams
    MainMerges,   \* TRUE: the pattern returns the merged usage (supervisor), else the last chunk's
    MayFail,      \* TRUE: an attempt of a worker may fail after some chunks
    MaxChunks, MaxTries, MaxTurns

CallsAreKnown == Main \notin Workers /\ IsFiniteSet(Workers)

Fields == {"input", "output"}
Zero == [f \in Fields |-> 0]
Calls == Workers \cup {Main}

VARIABLES
    phase,    \* of the turn: idle, workers, main, merged
    stage,    \* of each call: waiting, open, over, done, lost
    chunks, tries,
    running,  \* what the provider counted for the current attempt of a call
    acc,      \* the usage merged from the chunks
    last,     \* the usage of the last chunk
    got,      \* token_usage of the result of a call
    spent,    \* what the provider counted for the whole turn
    ledger,   \* _wire_emitted_tokens
    shown,    \* what the metric.tokens of the turn add up to
    result,   \* token_usage of the ExecutionResult
    turns
vars == <<phase, stage, chunks, tries, running, acc, last, got, spent, ledger, shown, result, turns>>

Plus(a, b) == [f \in Fields |-> a[f] + b[f]]
Covers(a, b) == \A f \in Fields : a[f] >= b[f]
Peak(a, b) == [f \in Fields |-> IF a[f] >= b[f] THEN a[f] ELSE b[f]]

\* Mutant of Accumulate.
AccumulateFirst(a, b) == IF a = Zero THEN b ELSE a

\* Totals that never decrease are taken as totals, anything else as increments.
Accumulate(a, b) ==
    IF b = Zero \/ a = Zero THEN Plus(a, b)
    ELSE IF ~PrefersSum /\ Covers(b, a) THEN Peak(a, b) ELSE Plus(a, b)

\* Mutant of Remainder.
RemainderTotal(t, e) == t

Remainder(t, e) == [f \in Fields |-> IF t[f] > e[f] THEN t[f] - e[f] ELSE 0]

Sum(use) == [f \in Fields |-> MapThenSumSet(LAMBDA w : use[w][f], Workers)]

\* Mutant of Report.
ReportQuietly(u) == IF HasQueue /\ u # Zero
             THEN ledger' = Plus(ledger, u) /\ UNCHANGED shown
             ELSE UNCHANGED <<shown, ledger>>

Note(u) == ledger' = Plus(ledger, u)

\* An llm_call event, noted in the ledger; without a queue neither happens.
Report(u) == IF HasQueue /\ u # Zero
             THEN shown' = Plus(shown, u) /\ Note(u)
             ELSE UNCHANGED <<shown, ledger>>

Nothing == [w \in Calls |-> Zero]

Init == /\ phase = "idle" /\ turns = 0
        /\ stage = [w \in Calls |-> "waiting"]
        /\ chunks = [w \in Calls |-> 0] /\ tries = [w \in Calls |-> 0]
        /\ running = Nothing /\ acc = Nothing /\ last = Nothing /\ got = Nothing
        /\ spent = Zero /\ ledger = Zero /\ shown = Zero /\ result = Zero

\* Mutant of BeginTurn.
BeginTurnUnreset ==
             /\ phase \in {"idle", "merged"} /\ turns < MaxTurns
             /\ phase' = (IF Workers = {} THEN "main" ELSE "workers")
             /\ turns' = turns + 1
             /\ stage' = [w \in Calls |-> "waiting"]
             /\ tries' = [w \in Calls |-> 0]
             /\ got' = Nothing
             /\ spent' = Zero /\ shown' = Zero
             /\ UNCHANGED <<chunks, running, acc, last, result, ledger>>

\* run_fresh clears the ledger before anything else.
BeginTurn == /\ phase \in {"idle", "merged"} /\ turns < MaxTurns
             /\ phase' = (IF Workers = {} THEN "main" ELSE "workers")
             /\ turns' = turns + 1
             /\ stage' = [w \in Calls |-> "waiting"]
             /\ tries' = [w \in Calls |-> 0]
             /\ got' = Nothing
             /\ spent' = Zero /\ shown' = Zero /\ ledger' = Zero
             /\ UNCHANGED <<chunks, running, acc, last, result>>

MayRun(w) == IF w = Main THEN phase = "main" ELSE phase = "workers"

\* Mutant of Call.
CallKeeps(w) ==
           /\ MayRun(w) /\ stage[w] = "waiting"
           /\ stage' = [stage EXCEPT ![w] = "open"]
           /\ tries' = [tries EXCEPT ![w] = @ + 1]
           /\ chunks' = [chunks EXCEPT ![w] = 0]
           /\ running' = [running EXCEPT ![w] = Zero]
           /\ last' = [last EXCEPT ![w] = Zero]
           /\ UNCHANGED <<phase, got, spent, ledger, shown, result, turns, acc>>

\* An attempt opens its stream.
Call(w) == /\ MayRun(w) /\ stage[w] = "waiting"
           /\ stage' = [stage EXCEPT ![w] = "open"]
           /\ tries' = [tries EXCEPT ![w] = @ + 1]
           /\ chunks' = [chunks EXCEPT ![w] = 0]
           /\ running' = [running EXCEPT ![w] = Zero]
           /\ acc' = [acc EXCEPT ![w] = Zero]
           /\ last' = [last EXCEPT ![w] = Zero]
           /\ UNCHANGED <<phase, got, spent, ledger, shown, result, turns>>

\* A chunk as the provider sends it; without a queue the answer comes in one piece.
Sent(before, d) == IF Cumulative THEN Plus(before, d) ELSE d

Chunk(w) ==
    /\ stage[w] = "open" /\ chunks[w] < (IF HasQueue THEN MaxChunks ELSE 1)
    /\ \E d \in Deltas, gone \in IF Omits THEN SUBSET Fields ELSE {{}} :
         LET u == [f \in Fields |-> IF f \in gone THEN 0 ELSE Sent(running[w], d)[f]]
         IN  /\ running' = [running EXCEPT ![w] = Plus(@, d)]
             /\ spent' = Plus(spent, d)
             /\ acc' = [acc EXCEPT ![w] = Accumulate(@, u)]
             /\ last' = [last EXCEPT ![w] = u]
             /\ stage' = [stage EXCEPT ![w] = IF gone = {} THEN "open" ELSE "over"]
    /\ chunks' = [chunks EXCEPT ![w] = @ + 1]
    /\ UNCHANGED <<phase, tries, got, ledger, shown, result, turns>>

\* The stream ended: its usage is reported, merged or, when empty, the last chunk's.
EndCall(w) ==
    /\ stage[w] \in {"open", "over"}
    /\ stage' = [stage EXCEPT ![w] = "done"]
    /\ LET merged == IF acc[w] = Zero THEN last[w] ELSE acc[w]
       IN  /\ Report(merged)
           /\ got' = [got EXCEPT ![w] = IF w = Main /\ MainMerges THEN merged ELSE last[w]]
    /\ UNCHANGED <<phase, chunks, tries, running, acc, last, spent, result, turns>>

\* An attempt raises and is repeated, or times out: a WorkerResult without usage.
FailCall(w) ==
    /\ MayFail /\ w # Main /\ stage[w] = "open"
    /\ \E s \in {"lost"} \cup (IF tries[w] < MaxTries THEN {"waiting"} ELSE {}) :
         stage' = [stage EXCEPT ![w] = s]
    /\ UNCHANGED <<phase, chunks, tries, running, acc, last, got, spent, ledger, shown, result, turns>>

Synthesize == /\ phase = "workers" /\ \A w \in Workers : stage[w] \in {"done", "lost"}
              /\ phase' = "main"
              /\ UNCHANGED <<stage, chunks, tries, running, acc, last, got, spent, ledger, shown, result, turns>>

\* token_usage of the pattern: its workers and its own call.
PatternUsage == Plus(Sum(got), got[Main])

\* Mutant of TurnUsage.
TurnUsageMain == got[Main]

\* run_fresh adds the results of the workers and that of the pattern.
TurnUsage == Plus(Sum(got), PatternUsage)

EndTurn == /\ phase = "main" /\ stage[Main] = "done"
           /\ phase' = "merged"
           /\ result' = TurnUsage
           /\ Report(Remainder(TurnUsage, ledger))
           /\ UNCHANGED <<stage, chunks, tries, running, acc, last, got, spent, turns>>

Next == \/ BeginTurn \/ Synthesize \/ EndTurn
        \/ \E w \in Calls : Call(w) \/ Chunk(w) \/ EndCall(w) \/ FailCall(w)

Spec == Init /\ [][Next]_vars

-----------------------------------------------------------------------------
IsUsage(u) == DOMAIN u = Fields /\ \A f \in Fields : u[f] \in Nat

\* The counters are usages and the stage of a call fits the phase of the turn.
TypeOK == /\ phase \in {"idle", "workers", "main", "merged"} /\ turns \in 0..MaxTurns
          /\ \A w \in Calls : /\ stage[w] \in {"waiting", "open", "over", "done", "lost"}
                              /\ chunks[w] \in 0..MaxChunks /\ tries[w] \in 0..MaxTries
                              /\ IsUsage(acc[w]) /\ IsUsage(last[w]) /\ IsUsage(got[w])
          /\ IsUsage(spent) /\ IsUsage(ledger) /\ IsUsage(shown) /\ IsUsage(result)
          /\ phase = "merged" => \A w \in Calls : stage[w] \in {"done", "lost"}

\* The ledger knows what this turn has shown, no more and no less: the rollup of a
\* turn neither repeats a report nor drops one because an earlier turn had it.
LedgerIsWire == ledger = shown

\* No usage is reported twice: the events of a turn never add up to more than the
\* provider counted (docs/features/wire-tokens.md).
NothingTwice == Covers(spent, shown)

\* When the turn completes the wire agrees with result.token_usage.
WireIsResult == phase = "merged" /\ HasQueue => shown = result

\* What the turn used is in its result.
NothingIsFree == phase = "merged" => Covers(result, spent)

\* The chunks of a stream merge to what the provider counted for it.
StreamIsMerged == \A w \in Calls : stage[w] \in {"open", "over"} => acc[w] = running[w]
=============================================================================
