-------------------------------- MODULE AgpReplay --------------------------------
(***************************************************************************)
(* A client in front of the event log: the reducer and the replay          *)
(* deduplication of agloom_cli/src/store (agpDedup.ts,                     *)
(* dispatchAgpEvent.ts), the bridge that restarts a crashed                *)
(* runtime (runtime/bridge.ts) and the hook that then asks for a resume    *)
(* (hooks/useAGPStream.tsx).  What the reducers show is abstracted to the  *)
(* set of messages.  Sessions are neither deleted nor renamed here.        *)
(***************************************************************************)
EXTENDS EventLog

CONSTANT FixedSession      \* the runtime is started with --session

ASSUME ClientAssumption == FixedSession \in BOOLEAN

VARIABLES
  wire,            \* lines the client has not read yet
  seen,            \* seenEventIds
  lastSeenSeq,
  replayBaselineSeq,
  shown,           \* the messages in the view
  twice,           \* history: a message was put into the view that had it already
  rebased,         \* history: a session.resumed with a floor emptied the view
  exited,          \* status is "exited": nothing can be typed
  pendingResume,   \* pendingReconnectResumeRef
  commands,        \* the runtime's stdin: resumes, by their from_seq, and invokes
  invoked          \* the process runs an invocation

viewVars   == <<seen, lastSeenSeq, replayBaselineSeq, shown, twice, rebased>>
clientVars == <<viewVars, exited>>
linkVars   == <<wire, pendingResume, commands, invoked>>
replaySysVars == <<logVars, clientVars, linkVars>>

Invoke == 0        \* a command.invoke among the commands

Id(e) == <<e.run, e.seq>>
Ids   == Nat \X Nat

ClientTypeOK ==
  /\ TypeOK
  /\ wire \in Seq(Event)
  /\ seen \subseteq Ids
  /\ lastSeenSeq \in Nat
  /\ replayBaselineSeq \in Nat
  /\ shown \subseteq Ids
  /\ twice \in BOOLEAN
  /\ rebased \in BOOLEAN
  /\ exited \in BOOLEAN
  /\ pendingResume \in BOOLEAN
  /\ commands \in Seq(Nat)
  /\ invoked \in BOOLEAN

ClientInit ==
  /\ Init
  /\ wire = <<>>
  /\ seen = {}
  /\ lastSeenSeq = 0
  /\ replayBaselineSeq = 0
  /\ shown = {}
  /\ twice = FALSE
  /\ rebased = FALSE
  /\ exited = FALSE
  /\ pendingResume = FALSE
  /\ commands = <<>>
  /\ invoked = FALSE

-------------------------------------------------------------------------------
(* The client *)

Larger(m, n) == IF m > n THEN m ELSE n

\* Mutants: everything up to lastSeenSeq is skipped; ids are not remembered.
SkipByLastSeen(e) == Id(e) \in seen \/ (e.kind = "message" /\ e.seq <= lastSeenSeq)
SkipByBaseline(e) == e.kind = "message" /\ e.seq <= replayBaselineSeq

\* shouldSkipReplayEvent
ShouldSkip(e) ==
  \/ Id(e) \in seen
  \/ e.kind = "message" /\ e.seq <= replayBaselineSeq

\* dispatchAgpEvent, after trackAgpEnvelope.
Dispatch(e) ==
  IF ShouldSkip(e) THEN UNCHANGED clientVars
  ELSE CASE e.kind = "opened" ->
              /\ seen' = {Id(e)}
              /\ lastSeenSeq' = e.seq
              /\ replayBaselineSeq' = 0
              /\ exited' = FALSE
              /\ UNCHANGED <<shown, twice, rebased>>
         [] e.kind = "resumed" /\ e.from > 0 ->      \* replayResumeReset
              /\ seen' = {}
              /\ lastSeenSeq' = e.from
              /\ replayBaselineSeq' = e.from
              /\ shown' = {}
              /\ rebased' = TRUE
              /\ exited' = FALSE
              /\ UNCHANGED twice
         [] OTHER ->
              /\ seen' = seen \cup {Id(e)}
              /\ lastSeenSeq' = Larger(lastSeenSeq, e.seq)
              /\ shown' = IF e.kind = "message" THEN shown \cup {Id(e)} ELSE shown
              /\ twice' = (twice \/ (e.kind = "message" /\ Id(e) \in shown))
              /\ exited' = (exited /\ e.kind # "resumed")
              /\ UNCHANGED <<replayBaselineSeq, rebased>>

\* AGPBridge.send: without a live runtime the command is dropped.
Send(c) == commands' = IF mode = "down" THEN commands ELSE Append(commands, c)

\* maybeResumeAfterReconnect looks at the store before the event is dispatched.
MaybeResume(e) ==
  IF pendingResume /\ e.kind \in {"ready", "opened"}
  THEN /\ pendingResume' = FALSE
       /\ IF lastSeenSeq > 0 THEN Send(lastSeenSeq) ELSE UNCHANGED commands
  ELSE UNCHANGED <<pendingResume, commands>>

Receive ==
  /\ wire # <<>>
  /\ MaybeResume(Head(wire))
  /\ Dispatch(Head(wire))
  /\ wire' = Tail(wire)
  /\ UNCHANGED <<logVars, invoked>>

\* The user submits a prompt; one invocation of a process is enough here.
Submit ==
  /\ ~exited
  /\ ~invoked
  /\ \A i \in 1 .. Len(commands) : commands[i] # Invoke
  /\ mode # "down"
  /\ Send(Invoke)
  /\ UNCHANGED <<logVars, clientVars, wire, pendingResume, invoked>>

-------------------------------------------------------------------------------
(* The runtime, with what it writes going to the client *)

\* Messages come from an invocation.
Runtime ==
  /\ \/ RuntimeStep
     \/ \E kind \in LiveKind : EmitLive(kind) /\ (kind = "message" => invoked)
  /\ wire' = wire \o out'
  /\ UNCHANGED <<clientVars, pendingResume, commands, invoked>>

\* The serve loop takes one command after the other, a resume with its replay.
HandleResume ==
  /\ commands # <<>> /\ Head(commands) # Invoke
  /\ SessionResume(Head(commands))
  /\ wire' = wire \o out'
  /\ commands' = Tail(commands)
  /\ UNCHANGED <<clientVars, pendingResume, invoked>>

HandleInvoke ==
  /\ commands # <<>> /\ Head(commands) = Invoke
  /\ mode = "serving"
  /\ invoked' = TRUE
  /\ commands' = Tail(commands)
  /\ UNCHANGED <<logVars, clientVars, wire, pendingResume>>

\* The runtime exits with an error; what it wrote can still be read.
Crash ==
  /\ Stop
  /\ pendingResume' = TRUE
  /\ exited' = TRUE
  /\ commands' = <<>>
  /\ invoked' = FALSE
  /\ UNCHANGED <<viewVars, wire>>

\* It exits cleanly, or by a signal, and the user quits.  A new client with an empty store takes
\* over; what the old one had not read is gone.
Quit ==
  /\ Stop
  /\ wire' = <<>>
  /\ seen' = {} /\ lastSeenSeq' = 0 /\ replayBaselineSeq' = 0 /\ shown' = {}
  /\ pendingResume' = FALSE
  /\ rebased' = FALSE
  /\ twice' = FALSE
  /\ exited' = FALSE
  /\ commands' = <<>>
  /\ invoked' = FALSE

\* The first start, a restart by the bridge, or one by a new client.  Without
\* --session every process makes up a session of its own.
Launch(s) ==
  /\ run > 0 /\ FixedSession => s = session
  /\ run > 0 /\ ~FixedSession => s # session /\ store[s] = {}
  /\ Start(s)
  /\ wire' = wire \o out'
  /\ UNCHANGED <<clientVars, pendingResume, commands, invoked>>

ClientNext ==
  \/ Runtime
  \/ Receive
  \/ Submit
  \/ HandleResume
  \/ HandleInvoke
  \/ Crash
  \/ Quit
  \/ \E s \in Session : Launch(s)

ClientSpec == ClientInit /\ [][ClientNext]_replaySysVars

-------------------------------------------------------------------------------
(* Properties *)

\* Nothing is on its way: no line, no command, no start-up or replay.
Quiet == wire = <<>> /\ mode = "serving" /\ commands = <<>> /\ ~pendingResume

ShowsTheLog ==
  \A r \in store[session] : r.kind = "message" => Id(r) \in shown

\* store/agpDedup.ts:4: events "must not be re-applied when the same id/seq is
\* replayed".  No message is put into a view that has it, although a replayed
\* session.opened or session.resumed makes the client forget the ids it has seen.
NoMessageTwice == ~twice

\* With --session a client that was there through any crashes, or a new one, shows
\* every stored message once start-up replay and resume are over, although a new
\* process may use numbers again that a crashed one lost.  Only a session.resumed
\* with a floor (a session whose log a crash left empty) rebases the view.
CatchesUpUnlessRebased == Quiet /\ ~rebased => ShowsTheLog

\* protocol/commands.py:180 on command.session.resume: "replays any buffered events
\* since from_seq so the client catches up".
ClientCatchesUp == Quiet => ShowsTheLog
===============================================================================
