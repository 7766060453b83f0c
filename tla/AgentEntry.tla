----------------------------- MODULE AgentEntry -----------------------------
(***************************************************************************)
(* Callers of one agent at the same time (class UnifiedAgent): ainvoke,    *)
(* astream with its attempt to stream a DIRECT answer, astream_events and  *)
(* its producer task, astream_agp_events around it, and the synchronous    *)
(* invoke from inside a running loop. They share the turn lock, the skill  *)
(* bootstrap and the harness tracker, which is bound to one thread at a    *)
(* time. Each caller works on a thread of its own.                         *)
(*                                                                         *)
(* What a turn does is AgentTurn; here it is one step that may take long.  *)
(***************************************************************************)
EXTENDS Integers, Sequences, FiniteSets

CONSTANTS
    Callers,
    Kinds,       \* what each may call: ainvoke, stream, events, agp, invoke
    Gates,       \* interrupt_before holds DIRECT
    Learns,      \* a skill generator is configured
    None

(* None is no caller, no kind of call and no form of a query.              *)
EntryAssumption ==
    /\ Kinds \subseteq {"ainvoke", "stream", "events", "agp", "invoke"}
    /\ None \notin Callers
    /\ None \notin {"ainvoke", "stream", "events", "agp", "invoke", "raw", "processed"}
    /\ {Gates, Learns} \subseteq BOOLEAN

VARIABLES at, job, lock, boot, tracker, queue, reader, wire

vars == <<at, job, lock, boot, tracker, queue, reader, wire>>

Steps == {"idle", "try skills", "try harness", "try bind", "try plan", "chunks", "want",
          "skills", "harness", "bind", "turn", "end", "raised", "cancelled"}
Over == {"end", "raised", "cancelled"}
NoJob == [kind |-> None, before |-> 0, text |-> None, tracker |-> None, bg |-> "none", ok |-> FALSE]

Init ==
    /\ at = [c \in Callers |-> "idle"]
    /\ job = [c \in Callers |-> NoJob]
    /\ lock = [owner |-> None, contended |-> FALSE]
    /\ boot = [done |-> FALSE, by |-> None, runs |-> 0]
    /\ tracker = None                        \* config["_progress_tracker"]
    /\ queue = [c \in Callers |-> <<>>]
    /\ reader = [c \in Callers |-> "none"]
    /\ wire = [c \in Callers |-> <<>>]

Streams(c) == job[c].kind \in {"events", "agp"}
Goto(c, s) == at' = [at EXCEPT ![c] = s]

(* invoke() inside a running loop waits in future.result(): nothing else   *)
(* of that loop moves until it has its answer.                             *)
Blocked == \E c \in Callers : job[c].kind = "invoke" /\ at[c] \notin Over
May(c) == Blocked => job[c].kind = "invoke"

Call(c, k) ==
    /\ at[c] = "idle" /\ ~Blocked
    /\ job' = [job EXCEPT ![c].kind = k]
    /\ Goto(c, IF k = "stream" THEN "try skills" ELSE "want")
    /\ reader' = [reader EXCEPT ![c] = IF k \in {"events", "agp"} THEN "reading" ELSE "none"]
    /\ wire' = [wire EXCEPT ![c] = IF k = "agp" THEN <<"opened">> ELSE <<>>]
    /\ UNCHANGED <<lock, boot, tracker, queue>>

\* Mutant of TakeTurn.
TakeTurnOpen(c) ==
    /\ at[c] = "want" /\ May(c)
    /\ lock' = [lock EXCEPT !.owner = c]
    /\ Goto(c, "skills")
    /\ UNCHANGED <<job, boot, tracker, queue, reader, wire>>

(***************************************************************************)
(* _hold_turn_lock. A lock on which a caller of one loop has waited before *)
(* refuses a waiter of another.                                            *)
(***************************************************************************)
TakeTurn(c) ==
    /\ at[c] = "want" /\ May(c)
    /\ \/ /\ lock.owner = None
          /\ lock' = [lock EXCEPT !.owner = c]
          /\ Goto(c, "skills")
       \/ /\ lock.owner # None /\ job[c].kind # "invoke" /\ ~lock.contended
          /\ lock' = [lock EXCEPT !.contended = TRUE]
          /\ UNCHANGED at
       \/ /\ lock.owner # None /\ job[c].kind = "invoke" /\ lock.contended
          /\ Goto(c, "raised")
          /\ UNCHANGED lock
    /\ UNCHANGED <<job, boot, tracker, queue, reader, wire>>

Trying(c) == job[c].kind = "stream" /\ at[c] \in {"try skills", "try harness", "try bind", "try plan"}
After(c, s, try) == IF Trying(c) THEN try ELSE s

\* Mutant of EnsureSkills.
EnsureSkillsUnlocked(c) ==
    /\ at[c] \in {"skills", "try skills"} /\ May(c)
    /\ \/ boot.done /\ Goto(c, After(c, "harness", "try harness")) /\ UNCHANGED boot
       \/ ~boot.done /\ boot' = [boot EXCEPT !.by = c, !.runs = 1 - @] /\ UNCHANGED at
       \/ /\ boot.by = c
          /\ boot' = [boot EXCEPT !.by = None, !.done = TRUE]
          /\ Goto(c, After(c, "harness", "try harness"))
    /\ UNCHANGED <<job, lock, tracker, queue, reader, wire>>

(***************************************************************************)
(* _ensure_skills_bootstrapped: once, under a lock of its own; the first   *)
(* caller seeds.                                                           *)
(***************************************************************************)
EnsureSkills(c) ==
    /\ at[c] \in {"skills", "try skills"} /\ May(c)
    /\ \/ boot.done /\ Goto(c, After(c, "harness", "try harness")) /\ UNCHANGED boot
       \/ /\ ~boot.done /\ boot.by = None
          /\ boot' = [boot EXCEPT !.by = c, !.runs = @ + 1]
          /\ UNCHANGED at
       \/ /\ boot.by = c
          /\ boot' = [boot EXCEPT !.by = None, !.done = TRUE]
          /\ Goto(c, After(c, "harness", "try harness"))
    /\ UNCHANGED <<job, lock, tracker, queue, reader, wire>>

(***************************************************************************)
(* _ensure_harness_bootstrapped, without a lock: the tracker is made when  *)
(* there is none (the factory awaits), then bound to the caller's thread.  *)
(***************************************************************************)
EnsureHarness(c) ==
    /\ at[c] \in {"harness", "try harness"} /\ May(c)
    /\ IF tracker = None /\ job[c].tracker = None
       THEN job' = [job EXCEPT ![c].tracker = c] /\ UNCHANGED <<at, tracker>>   \* await factory()
       ELSE /\ job' = [job EXCEPT ![c].tracker = IF @ = None THEN tracker ELSE @]
            /\ tracker' = job'[c].tracker
            /\ Goto(c, After(c, "bind", "try bind"))
    /\ UNCHANGED <<lock, boot, queue, reader, wire>>

BindHarness(c) ==
    /\ at[c] \in {"bind", "try bind"} /\ May(c)
    /\ job' = [job EXCEPT ![c].tracker = IF Trying(c) THEN None ELSE tracker]   \* {**self.config}
    /\ Goto(c, IF Trying(c) THEN "try plan" ELSE "turn")
    /\ UNCHANGED <<lock, boot, tracker, queue, reader, wire>>

(***************************************************************************)
(* _try_direct_stream: middleware and turn planner; a DIRECT answer that   *)
(* nobody must approve is streamed from the model, with the query as the   *)
(* user wrote it. Everything else, an error too, goes on with ainvoke.     *)
(***************************************************************************)
TryPlan(c, direct) ==
    /\ at[c] = "try plan" /\ ~Blocked
    /\ LET streams == direct /\ ~Gates
       IN  /\ job' = [job EXCEPT ![c].before = @ + 1, ![c].text = IF streams THEN "raw" ELSE None]
           /\ Goto(c, IF streams THEN "chunks" ELSE "want")
    /\ UNCHANGED <<lock, boot, tracker, queue, reader, wire>>

TryFails(c) ==
    /\ Trying(c) /\ ~Blocked
    /\ Goto(c, "want")
    /\ job' = [job EXCEPT ![c].tracker = None]
    /\ boot' = IF boot.by = c THEN [boot EXCEPT !.by = None] ELSE boot
    /\ UNCHANGED <<lock, tracker, queue, reader, wire>>

StreamDirect(c, ok) ==
    /\ at[c] = "chunks" /\ ~Blocked
    /\ Goto(c, IF ok THEN "end" ELSE "raised")
    /\ UNCHANGED <<job, lock, boot, tracker, queue, reader, wire>>

\* Mutant of Put.
PutNoSentinel(c, es) == IF Streams(c) THEN [queue EXCEPT ![c] = @ \o SelectSeq(es, LAMBDA e : e # "sentinel")] ELSE queue

(***************************************************************************)
(* run_fresh, _save_checkpoint and the end of the producer of              *)
(* astream_events: its events, "done" or "error", and the sentinel.        *)
(***************************************************************************)
Put(c, es) == IF Streams(c) THEN [queue EXCEPT ![c] = @ \o es] ELSE queue

Release(c) == IF lock.owner = c THEN [lock EXCEPT !.owner = None] ELSE lock

RunTurn(c) ==
    /\ at[c] = "turn" /\ May(c) /\ job[c].text = None
    /\ job' = [job EXCEPT ![c].before = @ + 1, ![c].text = "processed"]
    /\ queue' = Put(c, <<"event">>)
    /\ UNCHANGED <<at, lock, boot, tracker, reader, wire>>

(* The skill generator goes on in the background (_bg_gen).                *)
EndTurn(c, ok) ==
    /\ at[c] = "turn" /\ May(c) /\ job[c].text # None
    /\ Goto(c, IF ok \/ Streams(c) THEN "end" ELSE "raised")
    /\ job' = [job EXCEPT ![c].ok = ok, ![c].bg = IF ok /\ Learns THEN "running" ELSE "none"]
    /\ queue' = Put(c, <<IF ok THEN "done" ELSE "error", "sentinel">>)
    /\ lock' = Release(c)
    /\ UNCHANGED <<boot, tracker, reader, wire>>

\* Mutant of PrepareFails.
PrepareFailsMute(c) ==
    /\ at[c] \in {"skills", "harness", "bind"} /\ May(c)
    /\ Goto(c, IF Streams(c) THEN "end" ELSE "raised")
    /\ queue' = Put(c, <<"sentinel">>)
    /\ lock' = Release(c)
    /\ boot' = IF boot.by = c THEN [boot EXCEPT !.by = None] ELSE boot
    /\ UNCHANGED <<job, tracker, reader, wire>>

(* Preparation raises: MCP, an empty message of a frozen agent.            *)
PrepareFails(c) ==
    /\ at[c] \in {"skills", "harness", "bind"} /\ May(c)
    /\ Goto(c, IF Streams(c) THEN "end" ELSE "raised")
    /\ queue' = Put(c, <<"error", "sentinel">>)
    /\ lock' = Release(c)
    /\ boot' = IF boot.by = c THEN [boot EXCEPT !.by = None] ELSE boot
    /\ UNCHANGED <<job, tracker, reader, wire>>

LearnSkill(c) ==
    /\ job[c].bg = "running" /\ ~Blocked
    /\ job' = [job EXCEPT ![c].bg = "saved"]
    /\ queue' = Put(c, <<"skill">>)
    /\ UNCHANGED <<at, lock, boot, tracker, reader, wire>>

\* Mutant of Failed.
FailedNever(c) == FALSE

(***************************************************************************)
(* The consumer of astream_events; astream_agp_events translates what it   *)
(* reads, and closes with the reason of what it has read.                  *)
(***************************************************************************)
Failed(c) == \E i \in DOMAIN wire[c] : wire[c][i] = "error"

Read(c) ==
    /\ reader[c] = "reading" /\ queue[c] # <<>> /\ ~Blocked
    /\ queue' = [queue EXCEPT ![c] = Tail(@)]
    /\ IF Head(queue[c]) = "sentinel"
       THEN /\ reader' = [reader EXCEPT ![c] = "ended"]
            /\ wire' = IF job[c].kind # "agp" THEN wire
                       ELSE [wire EXCEPT ![c] = Append(@, IF Failed(c) THEN "closed error" ELSE "closed completed")]
       ELSE /\ wire' = [wire EXCEPT ![c] = Append(@, Head(queue[c]))]
            /\ UNCHANGED reader
    /\ UNCHANGED <<at, job, lock, boot, tracker>>

\* Mutant of Cancel.
CancelReader(c) ==
    /\ at[c] \notin {"idle"} \cup Over /\ job[c].kind # "invoke" /\ ~Blocked
    /\ reader[c] = "reading"
    /\ reader' = [reader EXCEPT ![c] = "left"]
    /\ UNCHANGED <<at, lock, boot, job, tracker, queue, wire>>

(* The consumer goes away, or an ainvoke is cancelled, where it awaits:    *)
(* the task is cancelled, every lock it holds is given back.               *)
Cancel(c) ==
    /\ at[c] \notin {"idle"} \cup Over /\ job[c].kind # "invoke" /\ ~Blocked
    /\ Goto(c, "cancelled")
    /\ lock' = Release(c)
    /\ boot' = IF boot.by = c THEN [boot EXCEPT !.by = None] ELSE boot
    /\ reader' = [reader EXCEPT ![c] = IF @ = "reading" THEN "left" ELSE @]
    /\ UNCHANGED <<job, tracker, queue, wire>>

Progress(c) ==
    \/ TakeTurn(c) \/ EnsureSkills(c) \/ EnsureHarness(c) \/ BindHarness(c)
    \/ \E x \in BOOLEAN : TryPlan(c, x) \/ StreamDirect(c, x) \/ EndTurn(c, x)
    \/ RunTurn(c) \/ LearnSkill(c) \/ Read(c)

Next ==
    \E c \in Callers :
        \/ \E k \in Kinds : Call(c, k)
        \/ Progress(c) \/ TryFails(c) \/ PrepareFails(c) \/ Cancel(c)

Spec == Init /\ [][Next]_vars

(* Each task is scheduled again and again, the turn lock is handed to its  *)
(* waiters, a model call returns or times out, a consumer goes on reading. *)
FairSpec == Spec /\ \A c \in Callers : WF_vars(Progress(c)) /\ SF_vars(TakeTurn(c))

(***************************************************************************)
(* Properties.                                                             *)
(***************************************************************************)
(* Types, and who holds which lock where.                                  *)
TypeOK ==
    /\ \A c \in Callers : at[c] \in Steps /\ job[c].before \in 0..2
    /\ lock.owner # None => at[lock.owner] \in {"skills", "harness", "bind", "turn"}
    /\ boot.by # None => at[boot.by] \in {"skills", "try skills"}

(* Class docstring: turns on one agent are serialized, however they were   *)
(* called, so that the state of a turn cannot cross.                       *)
OneTurn ==
    \A c, d \in Callers : at[c] = "turn" /\ at[d] = "turn" => c = d

(* _skills_lock: the skills are seeded by one caller at a time, and not    *)
(* again once they are there.                                              *)
SeededOnce == [][boot'.runs # boot.runs => ~boot.done /\ boot.by = None]_vars

(* astream_events: what a consumer sees up to the end ends with done or    *)
(* error, says it once, and says it truly.                                 *)
StreamEnds ==
    \A c \in Callers : reader[c] = "ended" =>
        \E e \in {"done", "error"} :
            /\ (e = "done") = job[c].ok
            /\ Cardinality({i \in DOMAIN wire[c] : wire[c][i] \in {"done", "error"}}) = 1
            /\ \E i \in DOMAIN wire[c] : wire[c][i] = e

(* astream_agp_events: starts with opened, ends with closed, and the       *)
(* reason is that of the turn.                                             *)
SessionIsClosed ==
    \A c \in Callers : job[c].kind = "agp" /\ reader[c] = "ended" =>
        /\ wire[c][1] = "opened"
        /\ wire[c][Len(wire[c])] = IF job[c].ok THEN "closed completed" ELSE "closed error"

(* A consumer that goes away takes the producer and its lock with it.      *)
NoTaskLeft == \A c \in Callers : reader[c] = "left" => at[c] \in Over /\ lock.owner # c

(* Every call ends: no path keeps the lock, no stream stays open.          *)
Running(c) == at[c] # "idle" /\ ~(at[c] \in Over /\ reader[c] # "reading")
EveryCallEnds == \A c \in Callers : Running(c) ~> ~Running(c)
=============================================================================
