--------------------------- MODULE ToolScratchpad ---------------------------
(***************************************************************************)
(* Tool outputs of one agent loop: kept in full in the scratchpad          *)
(* (context/tool_scratchpad.py), shown to the model as digests or stubs    *)
(* that name them (ToolScratchpadMiddleware), compacted when a model call  *)
(* would exceed its budget (ContextBudgetMiddleware, context/compaction.py)*)
(* or when the provider says so, and recalled by the model.                *)
(*                                                                         *)
(* A message is the answer of one tool call; an artifact holds the text of *)
(* a message, as it was when it was stored. Texts are small, mid (long     *)
(* enough for a digest) or big (over the wire limit).                      *)
(***************************************************************************)
EXTENDS Integers, Sequences, FiniteSets, SequencesExt

CONSTANTS
    MaxCalls,      \* bound: tool calls
    MaxRefs,       \* bound: artifacts ever stored
    Cap,           \* _MAX_ARTIFACTS
    Budget,        \* input budget, in sizes
    Durable,       \* the store has put and get
    Recalls,       \* the model recalls what it was shown a digest of
    None

VARIABLES messages, pad, spilled, refs, request, calls

vars == <<messages, pad, spilled, refs, request, calls>>

Sizes == [small |-> 2, mid |-> 3, big |-> 6]
Weight(m) == IF m.form = "full" THEN Sizes[m.size] ELSE IF m.form = "digest" THEN 2 ELSE 1
Tokens(ms) == FoldLeft(LAMBDA n, m : n + Weight(m), 0, ms)     \* estimate_messages_tokens

Init ==
    /\ messages = <<>>
    /\ pad = <<>>                  \* _artifacts, oldest first
    /\ spilled = {}                \* what _spill_to_store has written
    /\ refs = 0
    /\ request = [ms |-> <<>>, result |-> "none"]     \* the last model call
    /\ calls = 0

Message(n, size, recall) == [call |-> n, size |-> size, form |-> "full", ref |-> None, recall |-> recall]
Text(m) == [call |-> m.call, form |-> m.form]

(***************************************************************************)
(* ToolScratchpad.store and get; the work of one call runs on a copy s.    *)
(***************************************************************************)
Pads == [ms |-> messages, pad |-> pad, spilled |-> spilled, refs |-> refs]

\* Mutant of Store.
StoreEvictsLate(s, text) ==
    LET art == [ref |-> s.refs + 1, text |-> text]
        all == Append(s.pad, art)
    IN  [s EXCEPT !.refs = @ + 1, !.spilled = IF Durable THEN @ \cup {art} ELSE @,
                  !.pad = IF Len(s.pad) > Cap THEN Tail(all) ELSE all]

Store(s, text) ==
    LET art == [ref |-> s.refs + 1, text |-> text]
        all == Append(s.pad, art)
    IN  [s EXCEPT !.refs = @ + 1, !.spilled = IF Durable THEN @ \cup {art} ELSE @,
                  !.pad = IF Len(all) > Cap THEN Tail(all) ELSE all]

Here(s, ref) == {a \in ToSet(s.pad) : a.ref = ref}
Kept(s, ref) == Here(s, ref) \cup {a \in s.spilled : a.ref = ref}
Loaded(s, ref) == IF Here(s, ref) # {} THEN s ELSE [s EXCEPT !.pad = SetToSeq(Kept(s, ref)) \o @]

\* Mutant of EnsureStored.
EnsureStoredAlways(s, i) == LET t == Store(s, Text(s.ms[i])) IN [s |-> t, ref |-> t.refs]

(* _ensure_stored: the artifact a digest names, if it is still there.      *)
EnsureStored(s, i) ==
    IF s.ms[i].form # "full" /\ Kept(s, s.ms[i].ref) # {}
    THEN [s |-> Loaded(s, s.ms[i].ref), ref |-> s.ms[i].ref]
    ELSE LET t == Store(s, Text(s.ms[i])) IN [s |-> t, ref |-> t.refs]

Become(s, i, form) ==
    LET e == EnsureStored(s, i)
    IN  [e.s EXCEPT !.ms[i].form = form, !.ms[i].ref = e.ref]

Each(s, is, do(_, _)) == FoldLeft(do, s, is)

(***************************************************************************)
(* compact_messages_for_budget: texts over the wire limit become digests;  *)
(* while over the target, the older ones stubs, then long ones digests.    *)
(* tool_indices[: -keep] is empty for keep = 0.                            *)
(***************************************************************************)
Older(n, keep) == IF keep = 0 THEN <<>> ELSE [i \in 1..(n - keep) |-> i]

Compact(s, keep) ==
    LET n == Len(s.ms)
        idx == [i \in 1..n |-> i]
        bounded == Each(s, idx, LAMBDA t, i : IF t.ms[i].form = "full" /\ t.ms[i].size = "big" THEN Become(t, i, "digest") ELSE t)
        stubbed == Each(bounded, Older(n, keep), LAMBDA t, i : Become(t, i, "stub"))
        long == Each(stubbed, idx, LAMBDA t, i : IF t.ms[i].form = "full" /\ t.ms[i].size # "small" THEN Become(t, i, "digest") ELSE t)
    IN  IF Tokens(bounded.ms) <= Budget \/ n <= keep THEN bounded
        ELSE IF Tokens(stubbed.ms) <= Budget THEN stubbed ELSE long

Bounded(s) == s.refs <= MaxRefs
SetPads(s) == pad' = s.pad /\ spilled' = s.spilled /\ refs' = s.refs

(***************************************************************************)
(* awrap_tool_call of the scratchpad middleware: a long result is stored   *)
(* and digested; what the recall tool answers is passed on.                *)
(***************************************************************************)
ToolReturns(size) ==
    /\ calls < MaxCalls /\ request.result # "raised"
    /\ calls' = calls + 1
    /\ LET s == [Pads EXCEPT !.ms = Append(@, Message(calls', size, FALSE))]
           t == IF size = "small" THEN s ELSE Become(s, Len(s.ms), "digest")
       IN  Bounded(t) /\ SetPads(t) /\ messages' = t.ms
    /\ UNCHANGED request

(* recall_slice: the slice of the default limit is just over the wire.     *)
Recall(i) ==
    /\ Recalls /\ calls < MaxCalls /\ request.result # "raised"
    /\ i \in DOMAIN request.ms /\ request.ms[i].form # "full" /\ Kept(Pads, request.ms[i].ref) # {}
    /\ calls' = calls + 1
    /\ SetPads(Loaded(Pads, request.ms[i].ref))
    /\ messages' = Append(messages, Message(calls', "big", TRUE))
    /\ UNCHANGED request

\* Mutant of Pass.
PassDrops(s, keep, least) == IF Tokens(s.ms) <= Budget THEN s ELSE [s EXCEPT !.ms = Tail(@)]

(***************************************************************************)
(* awrap_model_call of the budget middleware: two passes over a copy, then *)
(* the gate. The messages of the loop stay as they are.                    *)
(***************************************************************************)
Pass(s, keep, least) ==
    IF Tokens(s.ms) <= Budget \/ Len(s.ms) <= least THEN s
    ELSE LET c == Compact(s, keep) IN IF Tokens(c.ms) < Tokens(s.ms) THEN c ELSE [c EXCEPT !.ms = s.ms]

ModelCall ==
    /\ messages # <<>> /\ request.result # "raised"
    /\ LET s == Pass(Pass(Pads, 2, 3), 0, 1)
       IN  /\ Bounded(s) /\ SetPads(s)
           /\ request' = [ms |-> s.ms, result |-> IF Tokens(s.ms) > Budget THEN "raised" ELSE "sent"]
    /\ UNCHANGED <<messages, calls>>

(* _compact_react_state_for_context_pressure: the provider refused the     *)
(* request; the state of the loop is compacted itself.                     *)
Pressure ==
    /\ request.result = "sent"
    /\ LET s == Compact(Pads, 2)
       IN  /\ Bounded(s) /\ SetPads(s)
           /\ messages' = IF Tokens(s.ms) < Tokens(messages) THEN s.ms ELSE messages
    /\ UNCHANGED <<request, calls>>

(* A new process continues the thread: only the store has the artifacts.   *)
Restart ==
    /\ Durable /\ pad # <<>>
    /\ pad' = <<>>
    /\ UNCHANGED <<messages, spilled, refs, request, calls>>

Next ==
    \/ \E size \in DOMAIN Sizes : ToolReturns(size)
    \/ \E i \in DOMAIN request.ms : Recall(i)
    \/ ModelCall \/ Pressure \/ Restart

Spec == Init /\ [][Next]_vars

(***************************************************************************)
(* Properties.                                                             *)
(***************************************************************************)
Shown == messages \o request.ms

(* Types, and every ref is that of one artifact.                           *)
TypeOK ==
    /\ refs \in 0..MaxRefs /\ calls \in 0..MaxCalls
    /\ \A a, b \in spilled \cup ToSet(pad) : a.ref = b.ref => a = b
    /\ \A i \in DOMAIN Shown : Shown[i].form = "full" <=> Shown[i].ref = None

(* context-fidelity.md: full payloads stay: from every digest and stub     *)
(* the whole text of its call can be recalled.                             *)
PayloadIsThere ==
    \A i \in DOMAIN Shown : Shown[i].form # "full" =>
        \E a \in Kept(Pads, Shown[i].ref) : a.text = [call |-> Shown[i].call, form |-> "full"]

(* _MAX_ARTIFACTS bounds the scratchpad.                                   *)
CapHolds == Len(pad) <= Cap

(* compact_messages_for_budget compresses results: every tool call keeps   *)
(* one answer, in its place.                                               *)
AnswersStay ==
    /\ [i \in DOMAIN messages |-> messages[i].call] = [i \in 1..calls |-> i]
    /\ \A i \in DOMAIN request.ms : request.ms[i].call = i
=============================================================================
