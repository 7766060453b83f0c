--------------------------- MODULE SessionMemory ---------------------------
(***************************************************************************)
(* The turns of one thread (memory/session.py): callers add a turn, undo   *)
(* the last one, clear the thread and build the prompt's recap, under one  *)
(* lock; old turns roll into a summary (context/summarize.py), every       *)
(* change is mirrored into the session's marker file through a hook, and   *)
(* the recap is compressed to the budget (context/plane.py).               *)
(*                                                                         *)
(* A turn is the set of the turns it stands for, whether it is a summary,  *)
(* and the references to tool outputs that its text (refs) and the record  *)
(* beside it (meta) name. Its size is 1, that of a summary 1 or 2.         *)
(***************************************************************************)
EXTENDS Integers, Sequences, FiniteSets, SequencesExt

CONSTANTS
    Callers, Ops,
    MaxAdds,       \* bound: turns ever added
    MaxTurns,      \* max_turns
    Threshold,     \* 80% of the model's window, in sizes
    LastN,         \* memory_injection_turns
    InputBudget,   \* what a prompt may spend on memory
    Chop,          \* 120 000 characters, in sizes
    Aliases,       \* the store hands out the list it keeps (InMemoryStore)
    None

VARIABLES store, disk, episodes, op, lock, added, gone

vars == <<store, disk, episodes, op, lock, added, gone>>

Passes == 3
Idle == [at |-> "idle", turns |-> <<>>, epi |-> None, pass |-> 0, size |-> 0, whole |-> TRUE]

Init ==
    /\ store = <<>> /\ disk = <<>>           \* the thread's key; conversation.by_thread
    /\ episodes = {}                         \* what on_episodic_summary was given
    /\ op = [c \in Callers |-> Idle]
    /\ lock = None
    /\ added = 0
    /\ gone = {}                             \* turns given up on purpose

NewTurn(n) == [ids |-> {n}, kind |-> "turn", refs |-> {n}, meta |-> {}, size |-> 1]
All(turns, f(_)) == UNION {f(turns[i]) : i \in DOMAIN turns}
Ids(turns) == All(turns, LAMBDA t : t.ids)
Size(turns) == FoldLeft(LAMBDA s, t : s + t.size, 0, turns)

\* Mutant of SplitAt.
SplitAtAll(turns) == Len(turns)

(***************************************************************************)
(* summarize_oldest_turns: the oldest 70% become one turn; it finds the    *)
(* references that the texts name as ref=..., and keeps them beside it.    *)
(***************************************************************************)
SplitAt(turns) == LET n == (Len(turns) * 7) \div 10 IN IF n < 1 THEN 1 ELSE n

\* Mutant of Summary.
SummaryBare(oldest, named, size) ==
    [ids |-> Ids(oldest), kind |-> "summary", refs |-> named, meta |-> {}, size |-> size]

Summary(oldest, named, size) ==
    [ids |-> Ids(oldest), kind |-> "summary", refs |-> named, meta |-> All(oldest, LAMBDA t : t.refs), size |-> size]
Summarized(turns, named, size) ==
    LET n == SplitAt(turns)
    IN  <<Summary(SubSeq(turns, 1, n), named \cap All(SubSeq(turns, 1, n), LAMBDA t : t.refs), size)>> \o SubSeq(turns, n + 1, Len(turns))

(* _trim_turns_preserving_summaries                                        *)
Trimmed(turns) ==
    LET sums == SelectSeq(turns, LAMBDA t : t.kind = "summary")
        rest == SelectSeq(turns, LAMBDA t : t.kind # "summary")
        keep == IF MaxTurns > Len(sums) THEN MaxTurns - Len(sums) ELSE 0
    IN  IF Len(turns) <= MaxTurns THEN turns
        ELSE sums \o SubSeq(rest, IF Len(rest) > keep THEN Len(rest) - keep + 1 ELSE 1, Len(rest))

\* Mutant of Start.
StartUnlocked(c, o) ==
    /\ op[c].at \in {"idle", "done"}
    /\ lock' = None
    /\ op' = [op EXCEPT ![c] = o]

Start(c, o) ==
    /\ op[c].at \in {"idle", "done"} /\ lock = None
    /\ lock' = c
    /\ op' = [op EXCEPT ![c] = o]

\* Mutant of AddTurn.
AddTurnInFront(c) ==
    /\ added < MaxAdds
    /\ added' = added + 1
    /\ LET turns == <<NewTurn(added')>> \o store
       IN  /\ Start(c, [Idle EXCEPT !.at = "summarize", !.turns = turns])
           /\ store' = IF Aliases THEN turns ELSE store
    /\ UNCHANGED <<disk, episodes, gone>>

(***************************************************************************)
(* aadd_turn: read and append; in an aliasing store that is already seen.  *)
(***************************************************************************)
AddTurn(c) ==
    /\ added < MaxAdds
    /\ added' = added + 1
    /\ LET turns == Append(store, NewTurn(added'))
       IN  /\ Start(c, [Idle EXCEPT !.at = "summarize", !.turns = turns])
           /\ store' = IF Aliases THEN turns ELSE store
    /\ UNCHANGED <<disk, episodes, gone>>

TooLong(turns) == Size(turns) > Threshold /\ Len(turns) >= 4

(* One pass of _maybe_summarize; a summarizer that fails ends it, and      *)
(* takes the record of the pass before with it.                            *)
Summarize(c, named, size, ok) ==
    /\ op[c].at = "summarize" /\ TooLong(op[c].turns) /\ op[c].pass < Passes
    /\ op' = [op EXCEPT ![c].turns = IF ok THEN Summarized(@, named, size) ELSE @,
                        ![c].epi = IF ok THEN Ids(SubSeq(op[c].turns, 1, SplitAt(op[c].turns))) ELSE None,
                        ![c].pass = IF ok THEN @ + 1 ELSE Passes]
    /\ UNCHANGED <<store, disk, episodes, lock, added, gone>>

(* The hook, then the trim, the write, and the marker file.                *)
WriteTurns(c) ==
    /\ op[c].at = "summarize" /\ (~TooLong(op[c].turns) \/ op[c].pass = Passes)
    /\ episodes' = IF op[c].epi = None THEN episodes ELSE episodes \cup {op[c].epi}
    /\ store' = Trimmed(op[c].turns)
    /\ disk' = store'
    /\ gone' = gone \cup (Ids(op[c].turns) \ Ids(store'))
    /\ op' = [op EXCEPT ![c].at = "done"]
    /\ lock' = None
    /\ UNCHANGED added

(* The store cannot be read or written: the turn is not recorded.          *)
WriteFails(c) ==
    /\ op[c].at = "summarize" /\ ~Aliases
    /\ gone' = gone \cup (Ids(op[c].turns) \ Ids(store))
    /\ op' = [op EXCEPT ![c].at = "done"]
    /\ lock' = None
    /\ UNCHANGED <<store, disk, episodes, added>>

(* The turn is cancelled while the summarizer is asked.                    *)
CancelAdd(c) ==
    /\ op[c].at = "summarize" /\ TooLong(op[c].turns)
    /\ gone' = IF Aliases THEN gone ELSE gone \cup (Ids(op[c].turns) \ Ids(store))
    /\ op' = [op EXCEPT ![c].at = "done"]
    /\ lock' = None
    /\ UNCHANGED <<store, disk, episodes, added>>

\* Mutant of PopLastTurn.
PopSilent(c) ==
    /\ op[c].at \in {"idle", "done"} /\ lock = None /\ store # <<>>
    /\ store' = Front(store)
    /\ gone' = gone \cup Last(store).ids
    /\ op' = [op EXCEPT ![c] = [Idle EXCEPT !.at = "done"]]
    /\ UNCHANGED <<disk, episodes, lock, added>>

(* apop_last_turn and aclear_thread; only the first tells the hook.        *)
PopLastTurn(c) ==
    /\ op[c].at \in {"idle", "done"} /\ lock = None
    /\ IF store = <<>>
       THEN op' = [op EXCEPT ![c] = [Idle EXCEPT !.at = "done"]] /\ UNCHANGED <<store, disk, gone>>
       ELSE /\ store' = Front(store)
            /\ disk' = store'
            /\ gone' = gone \cup Last(store).ids
            /\ op' = [op EXCEPT ![c] = [Idle EXCEPT !.at = "done"]]
    /\ UNCHANGED <<episodes, lock, added>>

ClearThread(c) ==
    /\ op[c].at \in {"idle", "done"} /\ lock = None
    /\ store' = <<>>
    /\ gone' = gone \cup Ids(store)
    /\ op' = [op EXCEPT ![c] = [Idle EXCEPT !.at = "done"]]
    /\ UNCHANGED <<disk, episodes, lock, added>>

(***************************************************************************)
(* build_memory_context: the last turns, then compressed by the            *)
(* summarizer, five times at most, while they are over the budget.         *)
(***************************************************************************)
MaxSummarizePasses == 5

BuildContext(c) ==
    /\ op[c].at \in {"idle", "done"} /\ lock = None
    /\ LET recent == SubSeq(store, IF Len(store) > LastN THEN Len(store) - LastN + 1 ELSE 1, Len(store))
       IN  op' = [op EXCEPT ![c] = [Idle EXCEPT !.at = "compress", !.turns = recent, !.size = Size(recent)]]
    /\ UNCHANGED <<store, disk, episodes, lock, added, gone>>

Over(c) == op[c].size > InputBudget /\ op[c].pass < MaxSummarizePasses

CompressContext(c, size) ==
    /\ op[c].at = "compress" /\ Over(c) /\ size <= op[c].size
    /\ op' = [op EXCEPT ![c].size = size, ![c].whole = @ /\ op[c].size <= Chop,
                        ![c].pass = IF size = op[c].size THEN MaxSummarizePasses ELSE @ + 1]
    /\ UNCHANGED <<store, disk, episodes, lock, added, gone>>

Injected(c) ==
    /\ op[c].at = "compress" /\ ~Over(c)
    /\ op' = [op EXCEPT ![c].at = "done"]
    /\ UNCHANGED <<store, disk, episodes, lock, added, gone>>

Next ==
    \E c \in Callers :
        \/ AddTurn(c) \/ WriteTurns(c) \/ CancelAdd(c)
        \/ \E named \in SUBSET All(op[c].turns, LAMBDA t : t.refs), size \in 1..2, ok \in BOOLEAN : Summarize(c, named, size, ok)
        \/ "fail" \in Ops /\ WriteFails(c)
        \/ "pop" \in Ops /\ PopLastTurn(c)
        \/ "clear" \in Ops /\ ClearThread(c)
        \/ "inject" \in Ops /\ (BuildContext(c) \/ Injected(c) \/ \E size \in 1..op[c].size : CompressContext(c, size))

Spec == Init /\ [][Next]_vars

(***************************************************************************)
(* Properties.                                                             *)
(***************************************************************************)
Free == lock = None

(* Types; a thread's turns are bounded, with at most one summary, in front.*)
TypeOK ==
    /\ added \in 0..MaxAdds /\ gone \subseteq 1..added
    /\ lock # None => op[lock].at = "summarize"
    /\ Free => \A i \in DOMAIN store : store[i].kind = "summary" => i = 1
    /\ Free /\ ~Aliases => Len(store) <= MaxTurns

(* Session memory: every turn that was added is in the transcript, by      *)
(* itself or in a summary, unless it was trimmed, undone or cleared; and   *)
(* no turn is there twice.                                                 *)
NoTurnIsLost ==
    Free => /\ Ids(store) \cup gone = 1..added
            /\ \A i, j \in DOMAIN store : i # j => store[i].ids \cap store[j].ids = {}

(* The transcript is in order: what comes first is older.                  *)
TurnsAreInOrder ==
    \A i, j \in DOMAIN store : i < j => \A m \in store[i].ids, n \in store[j].ids : m < n

(* memory.md: the most recent turns are kept intact, and the summary       *)
(* survives the trimming.                                                  *)
NewestIsIntact ==
    [][\A c \in Callers : op[c].at = "summarize" /\ op'[c].at = "done" /\ disk' = store' /\ store' # store
          => /\ store'[Len(store')] = NewTurn(added)
             /\ (\E i \in DOMAIN op[c].turns : op[c].turns[i].kind = "summary") => store'[1].kind = "summary"]_vars

(* merge_session_marker_thread_turns: summaries and undone turns stay      *)
(* reflected on disk: the file is the transcript when nobody writes.       *)
DiskFollows == Free => disk = store

(* EpisodicSummary: the references to stored tool outputs outlive the      *)
(* summaries.                                                              *)
RefsSurvive == Free => \A i \in DOMAIN store : store[i].ids \subseteq store[i].refs \cup store[i].meta
=============================================================================
