----------------------------- MODULE ToolApproval -----------------------------
(***************************************************************************)
(* Which tool calls run without asking the user: HumanApprovalMiddleware   *)
(* (patterns/middleware.py), the allowlist of a session and its files      *)
(* (runtime/hitl_allowlist.py), and the approvals of the current turn that *)
(* cover a narrower read (patterns/hitl_tool_coalesce.py).                 *)
(*                                                                         *)
(* A session has one allowlist and one coalescer for all its threads.      *)
(* HitlBridge models how a question travels to the client; here it is one  *)
(* step from the question to the answer.  Saves that fail are modelled     *)
(* there.                                                                  *)
(***************************************************************************)
EXTENDS Integers, Sequences, SequencesExt

CONSTANTS
  Session,
  Thread,
  SessionOf,       \* SessionOf[t]: the session of thread t
  Call,            \* tool calls
  Tool,            \* the tools that are gated
  Scoped,          \* those whose grants are for a path: read_file, notebook_read
  Path,            \* canonical paths, as sequences of names
  Extent,          \* what a read covers: its limit, with offset and line cap alike
  Legacy,          \* tools in .agloom/hitl_tool_allowlist.json at the first start
  ByMarker,        \* grants are kept in the session marker, not in a common file
  MaxTurns         \* bound: user prompts of a thread

ApprovalAssumption ==
  /\ SessionOf \in [Thread -> Session]
  /\ Scoped \subseteq Tool /\ Legacy \subseteq Tool
  /\ "read_file" \in Tool => "read_file" \in Scoped
  /\ Path \subseteq Seq(STRING) /\ Extent \subseteq Nat /\ MaxTurns \in Nat
  /\ ByMarker \in BOOLEAN

VARIABLES
  bridged,         \* the callback is the runtime's bridge, not a library user's
  call,            \* the calls
  turn,            \* turn[t]: number of the user prompt thread t works on
  recent,          \* recent[s]: _recent of the session's coalescer
  allow,           \* allow[s]: HitlAllowlistPolicy
  marker,          \* marker[s]: the policy in the session marker
  file,            \* the tools in the common file
  consent          \* history: what the user has said yes to

vars == <<bridged, call, turn, recent, allow, marker, file, consent>>

Policy == [tools : SUBSET Tool, paths : SUBSET (Scoped \X Path)]
Nothing == [tools |-> {}, paths |-> {}]
Fresh == [status |-> "new"]

-------------------------------------------------------------------------------
(* hitl_allowlist.py *)

\* Mutant of Allows.
AllowsBelow(p, c) ==
  \/ c.tool \in p.tools
  \/ c.tool \in Scoped /\ \E q \in Path : <<c.tool, q>> \in p.paths /\ IsPrefix(c.path, q)

\* HitlAllowlistPolicy.allows
Allows(p, c) ==
  \/ c.tool \in p.tools
  \/ c.tool \in Scoped /\ \E q \in Path : <<c.tool, q>> \in p.paths /\ IsPrefix(q, c.path)

\* apply_allowlist_decision of the runtime's policy; a library user's allowlist is a
\* plain set of names (_apply_allowlist).
Grant(p, c) ==
  IF bridged /\ c.tool \in Scoped THEN [p EXCEPT !.paths = @ \cup {<<c.tool, c.path>>}]
                       ELSE [p EXCEPT !.tools = @ \cup {c.tool}]

\* hitl_allowlist_paths_for_runtime: an empty marker falls back to the file.
Loaded(s) ==
  IF ByMarker /\ marker[s] # Nothing THEN marker[s] ELSE [Nothing EXCEPT !.tools = file]

\* Mutant of Save.
SaveToolsOnly(s, p) ==
  IF ByMarker THEN marker' = [marker EXCEPT ![s] = [p EXCEPT !.paths = marker[s].paths]] /\ UNCHANGED file
              ELSE file' = p.tools /\ UNCHANGED marker

\* save_policy_to_session_marker, or save_tool_allowlist of the global tools
Save(s, p) ==
  IF ByMarker THEN marker' = [marker EXCEPT ![s] = p] /\ UNCHANGED file
              ELSE file' = p.tools /\ UNCHANGED marker

-------------------------------------------------------------------------------
(* hitl_tool_coalesce.py *)

\* read_file_scope_is_subset
Covers(a, c) == a.path = c.path /\ c.extent <= a.extent

\* should_skip_hitl: only read_file is coalesced.
Skips(s, c) == c.tool = "read_file" /\ \E a \in recent[s] : Covers(a, c)

\* record_approval
Recorded(s, c) == IF c.tool = "read_file" THEN recent[s] \cup {c} ELSE recent[s]

-------------------------------------------------------------------------------
Init ==
  /\ bridged \in BOOLEAN
  /\ call = [c \in Call |-> Fresh] /\ turn = [t \in Thread |-> 0]
  /\ recent = [s \in Session |-> {}]
  /\ marker = [s \in Session |-> Nothing] /\ file = Legacy
  /\ allow = [s \in Session |-> [Nothing EXCEPT !.tools = Legacy]]
  /\ consent = {[kind |-> "tool", tool |-> x] : x \in Legacy}

\* Mutant of NewPrompt.
NewPromptKeeps(t) ==
  /\ turn[t] < MaxTurns
  /\ turn' = [turn EXCEPT ![t] = @ + 1]
  /\ call' = [c \in Call |-> IF call[c].status = "asking" /\ call[c].thread = t
                             THEN [call[c] EXCEPT !.status = "aborted"] ELSE call[c]]
  /\ UNCHANGED <<bridged, recent, allow, marker, file, consent>>

\* reset_hitl_turn_coalescer, when a thread gets a new prompt.  The thread's turn
\* before is over: a question that was open is gone with its invocation.
NewPrompt(t) ==
  /\ turn[t] < MaxTurns
  /\ turn' = [turn EXCEPT ![t] = @ + 1]
  /\ recent' = [recent EXCEPT ![SessionOf[t]] = {}]
  /\ call' = [c \in Call |-> IF call[c].status = "asking" /\ call[c].thread = t
                             THEN [call[c] EXCEPT !.status = "aborted"] ELSE call[c]]
  /\ UNCHANGED <<bridged, allow, marker, file, consent>>

\* A call of the request r, and what the user says to it.
Marked(r, status, by) == [status |-> status, by |-> by, thread |-> r.thread, turn |-> r.turn,
                          tool |-> r.tool, path |-> r.path, extent |-> r.extent]
Given(r, kind) == [kind |-> kind, thread |-> r.thread, turn |-> r.turn, tool |-> r.tool,
                   path |-> r.path, extent |-> r.extent]

\* awrap_tool_call up to the question; `by' says why a call runs unasked.
CallTool(c, t, tool, path, extent) ==
  /\ call[c].status = "new" /\ turn[t] > 0
  /\ LET s == SessionOf[t]
         r == [thread |-> t, turn |-> turn[t], tool |-> tool, path |-> path, extent |-> extent]
     IN  call' = [call EXCEPT ![c] =
                    IF Allows(allow[s], r) THEN Marked(r, "ran", "allowlist")
                    ELSE IF Skips(s, r) THEN Marked(r, "ran", "coalesced")
                    ELSE Marked(r, "asking", "nothing")]
  /\ UNCHANGED <<bridged, turn, recent, allow, marker, file, consent>>

Abort(c) ==
  /\ call' = [call EXCEPT ![c].status = "aborted"]
  /\ UNCHANGED <<recent, allow, marker, file, consent>>

Request(c) == [thread |-> call[c].thread, turn |-> call[c].turn, tool |-> call[c].tool,
               path |-> call[c].path, extent |-> call[c].extent]

\* Accept (Y): one-shot, and recorded for narrower reads.
Accept(c, kind) ==
  LET s == SessionOf[call[c].thread]
  IN  /\ call' = [call EXCEPT ![c].status = "ran", ![c].by = "answer"]
      /\ recent' = [recent EXCEPT ![s] = Recorded(s, Request(c))]
      /\ consent' = consent \cup {Given(call[c], kind)}

\* The bridge saves a grant and tells the middleware to continue.
BridgeAnswers(c, d) ==
  /\ bridged /\ call[c].status = "asking"
  /\ CASE d = "reject" -> Abort(c)
       [] d = "accept" -> Accept(c, "once") /\ UNCHANGED <<allow, marker, file>>
       [] d = "allowlist" ->
            LET s == SessionOf[call[c].thread]
            IN  /\ Accept(c, IF call[c].tool \in Scoped THEN "path" ELSE "tool")
                /\ allow' = [allow EXCEPT ![s] = Grant(@, call[c])]
                /\ Save(s, allow'[s])
  /\ UNCHANGED <<bridged, turn>>

\* A library user's allowlist is a plain set of tool names: no grant is for a path.
\* What a callback may return, as str(decision).strip().lower(); or it raises.
Answers == {"continue", "true", "false", "abort", "no", "skip", "cancel", "stop", "allowlist", "raises"}

CallbackAnswers(c, d) ==
  /\ ~bridged /\ call[c].status = "asking"
  /\ IF d \in {"abort", "no", "skip", "cancel", "stop", "raises"} THEN Abort(c)
     ELSE IF d = "allowlist"
     THEN LET s == SessionOf[call[c].thread]
          IN  /\ allow' = [allow EXCEPT ![s] = Grant(@, call[c])]
              /\ call' = [call EXCEPT ![c].status = "ran", ![c].by = "answer"]
              /\ consent' = consent \cup {Given(call[c], "tool")}
              /\ UNCHANGED <<recent, marker, file>>
     ELSE Accept(c, "once") /\ UNCHANGED <<allow, marker, file>>
  /\ UNCHANGED <<bridged, turn>>

\* The approval window passes, and the approval is pruned.
Prune(s) ==
  /\ \E a \in recent[s] : recent' = [recent EXCEPT ![s] = @ \ {a}]
  /\ UNCHANGED <<bridged, call, turn, allow, marker, file, consent>>

\* The runtime is started again for a session.
Restart(s) ==
  /\ allow[s] # Loaded(s) \/ recent[s] # {} \/ \E c \in Call : call[c].status = "asking"
  /\ allow' = [allow EXCEPT ![s] = Loaded(s)]
  /\ recent' = [recent EXCEPT ![s] = {}]
  /\ call' = [c \in Call |-> IF call[c].status = "asking" /\ SessionOf[call[c].thread] = s
                             THEN [call[c] EXCEPT !.status = "aborted"] ELSE call[c]]
  /\ UNCHANGED <<bridged, turn, marker, file, consent>>

Next ==
  \/ \E t \in Thread :
       \/ NewPrompt(t)
       \/ \E c \in Call, tool \in Tool, p \in Path, e \in Extent : CallTool(c, t, tool, p, e)
  \/ \E c \in Call :
       \/ \E d \in {"accept", "reject", "allowlist"} : BridgeAnswers(c, d)
       \/ \E d \in Answers : CallbackAnswers(c, d)
  \/ \E s \in Session : Prune(s) \/ Restart(s)

Spec == Init /\ [][Next]_vars

-------------------------------------------------------------------------------
(* Properties. *)

TypeOK ==
  /\ turn \in [Thread -> 0..MaxTurns]
  /\ allow \in [Session -> Policy] /\ marker \in [Session -> Policy] /\ file \subseteq Tool
  /\ \A s \in Session : \A a \in recent[s] : a.tool = "read_file"
  /\ \A c \in Call : call[c].status \in {"new", "asking", "ran", "aborted"}

\* Whatever runs has the user's consent: for this very call, for the same read or a
\* wider one of the turn, for its tool, or for a path above its path -- through
\* restarts and windows that pass (awrap_tool_call).  What a user grants with A is
\* "read_file: this path only; other tools: tool name" (middleware.py).
Consented(c) ==
  \E g \in consent :
    CASE g.kind = "tool" -> g.tool = c.tool
      [] g.kind = "path" -> g.tool = c.tool /\ IsPrefix(g.path, c.path)
      [] OTHER -> /\ g.tool = c.tool /\ Covers(g, c)
                  /\ SessionOf[g.thread] = SessionOf[c.thread]
                  /\ g.thread = c.thread => g.turn = c.turn

RunsHaveConsent == \A c \in Call : call[c].status = "ran" => Consented(call[c])

\* hitl_tool_coalesce.py: a prompt is skipped "only after Accept (Y) in the current
\* user turn", which is a turn of one thread.
SkipWithinTurn ==
  \A c \in Call : call[c].status = "ran" /\ call[c].by = "coalesced" =>
    \E g \in consent : /\ g.kind \in {"once", "path"} /\ Covers(g, call[c])
                       /\ g.thread = call[c].thread /\ g.turn = call[c].turn

\* docs/features/hitl-allowlist.md: what was allowlisted is there after a restart.
GrantsStay ==
  \A s \in Session : allow[s].tools \subseteq allow'[s].tools /\ allow[s].paths \subseteq allow'[s].paths
GrantsSurviveRestart == [][GrantsStay]_vars
===============================================================================
