-------------------------------- MODULE EventLog --------------------------------
(***************************************************************************)
(* The event log of a session: the shared sequence counter and background  *)
(* appends of protocol/emitter.py, the SQLite store of protocol/store.py   *)
(* and the commands of runtime/command_dispatch.py that read or change it. *)
(*                                                                         *)
(* Emitting an event numbers it, writes it on the wire and starts a        *)
(* background append, all in one step.  The appends queue for the store's  *)
(* lock first-in first-out.  A replay reads the store a page at a time and *)
(* writes row by row, with live events in between.                         *)
(***************************************************************************)
EXTENDS Naturals, Sequences, FiniteSets

CONSTANTS
  Session,         \* session ids
  MaxRun,          \* bound: runtime processes
  MaxSeq,          \* bound: sequence numbers of one process
  MaxInflight,     \* _MAX_STORE_APPEND_INFLIGHT
  PageSize,        \* page_size of SqliteEventStore.replay
  LiveKind,        \* kinds of the events invocations and handlers emit
  From             \* values of from_seq

ASSUME LogAssumption ==
  /\ MaxRun \in Nat /\ MaxSeq \in Nat /\ MaxInflight \in Nat /\ PageSize \in Nat \ {0}
  /\ LiveKind \subseteq {"message", "other"}
  /\ From \subseteq Nat

Kind  == {"opened", "resumed", "ready", "message", "other"}
Event == [run : Nat, seq : Nat, kind : Kind, from : Nat]   \* an id, seq, type, payload
Row   == [row : Nat, run : Nat, seq : Nat, kind : Kind, from : Nat]

VARIABLES
  run,             \* number of the runtime process
  session,         \* its session id
  mode,            \* "down", "booting", "serving" or "replaying"
  after,           \* the mode a replay goes back to
  seq,             \* _SharedSeq
  resumed,         \* _last_resume is set
  out,             \* the lines the last step wrote to the client
  pending,         \* events whose append waits for the store, in lock order
  count,           \* _SharedStoreAppendInflight._count
  store,           \* session -> rows
  rows,            \* rows ever inserted (autoincrement)
  cursor,          \* replay: last_seq, the seq of the last row of the last page
  chunk,           \* replay: rows of the page not written yet
  more,            \* replay: the page was full
  floor,           \* replay: from_seq
  owed,            \* history: rows the log held when the replay began, not yet written
  sent,            \* history: rows the replay wrote
  merged           \* history: sessions another one was renamed to

emitVars   == <<seq, out, pending, count>>
replayVars == <<cursor, chunk, more, floor, owed, sent>>
logVars == <<run, session, mode, after, resumed, emitVars, store, rows, replayVars, merged>>

TypeOK ==
  /\ run \in Nat
  /\ session \in Session
  /\ mode \in {"down", "booting", "serving", "replaying"}
  /\ after \in {"booting", "serving"}
  /\ seq \in Nat
  /\ resumed \in BOOLEAN
  /\ out \in Seq(Event)
  /\ pending \in Seq(Event)
  /\ count \in Nat
  /\ store \in [Session -> SUBSET Row]
  /\ rows \in Nat
  /\ cursor \in Nat
  /\ chunk \subseteq Row
  /\ more \in BOOLEAN
  /\ floor \in Nat
  /\ owed \subseteq Row
  /\ sent \subseteq Row
  /\ merged \subseteq Session

Init ==
  /\ run = 0
  /\ session \in Session
  /\ mode = "down"
  /\ after = "serving"
  /\ seq = 0
  /\ resumed = FALSE
  /\ out = <<>>
  /\ pending = <<>>
  /\ count = 0
  /\ store = [s \in Session |-> {}]
  /\ rows = 0
  /\ cursor = 0 /\ chunk = {} /\ more = FALSE /\ floor = 0
  /\ owed = {} /\ sent = {}
  /\ merged = {}

-------------------------------------------------------------------------------
(* Emitting *)

MakeEvent(n, kind, from) == [run |-> run', seq |-> n, kind |-> kind, from |-> from]

\* Emit an event numbered n + 1, where n is the counter's value.  Over the cap of
\* background appends the event is not persisted; a warning that is never
\* persisted itself follows, at most one a second.
Emit(n, kind, from) ==
  LET e == MakeEvent(n + 1, kind, from) IN
  IF count < MaxInflight
  THEN /\ seq' = n + 1
       /\ out' = <<e>>
       /\ pending' = Append(pending, e)
       /\ count' = count + 1
  ELSE /\ UNCHANGED <<pending, count>>
       /\ \/ /\ seq' = n + 1
             /\ out' = <<e>>
          \/ /\ seq' = n + 2
             /\ out' = <<e, MakeEvent(n + 2, "other", 0)>>

\* Events of invocations, heartbeats and handlers; forks share counter and cap.
EmitLive(kind) ==
  /\ mode \in {"serving", "replaying"}
  /\ after = "serving"
  /\ seq + 2 <= MaxSeq
  /\ UNCHANGED <<run>>
  /\ Emit(seq, kind, 0)
  /\ UNCHANGED <<session, mode, after, resumed, store, rows, replayVars, merged>>

\* Mutant: an append that was committed is tried again.
AppendRetried ==
  /\ pending # <<>>
  /\ LET e == Head(pending) IN
     store' = [store EXCEPT ![session] = @ \cup
       {[row |-> n, run |-> e.run, seq |-> e.seq, kind |-> e.kind, from |-> e.from] :
          n \in {rows + 1, rows + 2}}]
  /\ rows' = rows + 2
  /\ pending' = Tail(pending)
  /\ UNCHANGED <<run, session, mode, after, resumed, seq, count, replayVars, merged>>
  /\ out' = <<>>

\* The row of the first append in line is committed.
AppendCommits ==
  /\ pending # <<>>
  /\ LET e == Head(pending) IN
     store' = [store EXCEPT ![session] = @ \cup
       {[row |-> rows + 1, run |-> e.run, seq |-> e.seq, kind |-> e.kind, from |-> e.from]}]
  /\ rows' = rows + 1
  /\ pending' = Tail(pending)
  /\ UNCHANGED <<run, session, mode, after, resumed, seq, count, replayVars, merged>>
  /\ out' = <<>>

\* It fails instead: the exception is logged.
AppendFails ==
  /\ pending # <<>>
  /\ pending' = Tail(pending)
  /\ UNCHANGED <<run, session, mode, after, resumed, seq, count, store, rows, replayVars, merged>>
  /\ out' = <<>>

\* Mutant: a task releases its slot more than once.
ReleaseAgain ==
  /\ count' = count - 1
  /\ UNCHANGED <<run, session, mode, after, resumed, seq, pending, store, rows, replayVars, merged>>
  /\ out' = <<>>

\* The done callback of an append task.
Release ==
  /\ count > Len(pending)
  /\ count' = count - 1
  /\ UNCHANGED <<run, session, mode, after, resumed, seq, pending, store, rows, replayVars, merged>>
  /\ out' = <<>>

-------------------------------------------------------------------------------
(* Replaying *)

Before(q, r) == q.seq < r.seq \/ (q.seq = r.seq /\ q.row < r.row)

\* Mutants: a cursor that is not passed, a replay that starts after its floor.
RowsFromCursor == {r \in store[session] : r.seq >= (IF cursor > 0 THEN cursor ELSE floor)}
RowsAfterFloor == {r \in store[session] : r.seq > (IF cursor > 0 THEN cursor ELSE floor)}

\* The rows the next page is taken from: WHERE seq > last_seq, or seq >= floor.
Candidates ==
  {r \in store[session] : IF cursor > 0 THEN r.seq > cursor ELSE r.seq >= floor}

\* ORDER BY seq LIMIT page_size
Page == {r \in Candidates : Cardinality({q \in Candidates : Before(q, r)}) < PageSize}

BeginReplay(s, from, back) ==
  /\ mode' = "replaying"
  /\ after' = back
  /\ cursor' = 0 /\ chunk' = {} /\ more' = TRUE /\ floor' = from
  /\ owed' = {r \in store[s] : r.seq >= from}
  /\ sent' = {}

FetchPage ==
  /\ mode = "replaying"
  /\ chunk = {} /\ more
  /\ chunk' = Page
  /\ \/ Page = {} /\ UNCHANGED cursor
     \/ \E last \in Page : (\A q \in Page : q.seq <= last.seq) /\ cursor' = last.seq
  /\ more' = (Cardinality(Page) = PageSize)
  /\ out' = <<>>
  /\ UNCHANGED <<run, session, mode, after, resumed, seq, pending, count, store, rows,
                 floor, owed, sent, merged>>

\* write_replay_dict: the stored line, with its old number, on the live wire.
WriteReplayDict ==
  /\ mode = "replaying"
  /\ \E r \in chunk :
       /\ \A q \in chunk \ {r} : Before(r, q)
       /\ out' = <<[run |-> r.run, seq |-> r.seq, kind |-> r.kind, from |-> r.from]>>
       /\ chunk' = chunk \ {r}
       /\ owed' = owed \ {r}
       /\ sent' = sent \cup {r}
  /\ UNCHANGED <<run, session, mode, after, resumed, seq, pending, count, store, rows,
                 cursor, more, floor, merged>>

EndReplay ==
  /\ mode = "replaying"
  /\ chunk = {} /\ ~more
  /\ mode' = after
  /\ out' = <<>>
  /\ UNCHANGED <<run, session, after, resumed, seq, pending, count, store, rows, replayVars, merged>>

-------------------------------------------------------------------------------
(* The runtime process and its commands *)

\* Mutant: the counter of a resumed session starts from the number of rows.
SeededByCount(s, top) == top = Cardinality(store[s])

\* top is SELECT MAX(seq), or 0 for an empty log.
MaxStored(s, top) ==
  /\ \A r \in store[s] : r.seq <= top
  /\ IF store[s] = {} THEN top = 0 ELSE \E r \in store[s] : r.seq = top

\* A process starts on session s: a log with rows is resumed and replayed, an
\* empty one is opened.
Start(s) ==
  /\ mode = "down"
  /\ run < MaxRun
  /\ run' = run + 1
  /\ session' = s
  /\ IF store[s] # {}
     THEN /\ \E top \in 0 .. MaxSeq - 2 : MaxStored(s, top) /\ Emit(top, "resumed", 0)
          /\ resumed' = TRUE
          /\ BeginReplay(s, 0, "booting")
     ELSE /\ Emit(0, "opened", 0)
          /\ resumed' = FALSE
          /\ mode' = "booting"
          /\ after' = "serving"
          /\ UNCHANGED replayVars
  /\ UNCHANGED <<store, rows, merged>>

\* runtime.ready ends the start-up.
Ready ==
  /\ mode = "booting"
  /\ seq + 2 <= MaxSeq
  /\ UNCHANGED run
  /\ Emit(seq, "ready", 0)
  /\ mode' = "serving"
  /\ after' = "serving"
  /\ UNCHANGED <<session, resumed, store, rows, replayVars, merged>>

\* command.session.resume: emitter.resume() says nothing the second time.  The
\* counter is past every stored number already, so that seeding it is a no-op.
SessionResume(from) ==
  /\ mode = "serving"
  /\ seq + 2 <= MaxSeq
  /\ UNCHANGED run
  /\ IF resumed THEN out' = <<>> /\ UNCHANGED <<seq, pending, count>> ELSE Emit(seq, "resumed", from)
  /\ resumed' = TRUE
  /\ BeginReplay(session, from, "serving")
  /\ UNCHANGED <<session, store, rows, merged>>

\* command.session.delete of the active session: EventStore.clear.  It takes effect
\* when it gets the store's lock; what was emitted since it asked is still in line.
SessionDelete ==
  /\ mode = "serving"
  /\ store' = [store EXCEPT ![session] = {}]
  /\ out' = <<>>
  /\ UNCHANGED <<run, session, mode, after, resumed, seq, pending, count, rows, replayVars, merged>>

\* command.session.rename: the rows move, in lock order too; the process keeps its session id, and
\* what it emits from now on is appended under the old one.
SessionRename(to) ==
  /\ mode = "serving"
  /\ to # session
  /\ store' = [store EXCEPT ![session] = {}, ![to] = @ \cup store[session]]
  /\ merged' = merged \cup {to}
  /\ out' = <<>>
  /\ UNCHANGED <<run, session, mode, after, resumed, seq, pending, count, rows, replayVars>>

\* The process ends, by a crash or after its teardown: nothing waits for the
\* appends still in line.
Stop ==
  /\ mode # "down"
  /\ mode' = "down"
  /\ pending' = <<>>
  /\ count' = 0
  /\ cursor' = 0 /\ chunk' = {} /\ more' = FALSE /\ floor' = 0
  /\ owed' = {} /\ sent' = {}
  /\ out' = <<>>
  /\ UNCHANGED <<run, session, after, resumed, seq, store, rows, merged>>

RuntimeStep ==
  \/ AppendCommits \/ AppendFails \/ Release
  \/ FetchPage \/ WriteReplayDict \/ EndReplay
  \/ Ready

Next ==
  \/ RuntimeStep
  \/ \E kind \in LiveKind : EmitLive(kind)
  \/ \E s \in Session : Start(s) \/ SessionRename(s)
  \/ \E from \in From : SessionResume(from)
  \/ SessionDelete
  \/ Stop

Spec == Init /\ [][Next]_logVars

-------------------------------------------------------------------------------
(* Properties *)

\* docs/protocol/agp.md: seq is monotonic per session.  Within a process every
\* event that is still to be stored is newer than everything stored for its
\* session, whatever was dropped, failed, deleted or renamed before.
NewerThanLog ==
  \A i \in 1 .. Len(pending) :
    /\ \A r \in store[session] : r.seq < pending[i].seq
    /\ \A j \in 1 .. i - 1 : pending[j].seq < pending[i].seq

\* No two rows of a session share a number, over any crashes and restarts (the
\* replay's cursor skips rows that do), unless a session was renamed to it.
SeqsAreUnique ==
  \A s \in Session \ merged : \A q, r \in store[s] : q.seq = r.seq => q = r

\* protocol/store.py:90: a replay yields all events that were stored when it
\* began, with live appends and commits going on between its pages.
ReplayIsComplete ==
  mode \in {"booting", "serving"} /\ session \notin merged => owed = {}

\* protocol/store.py:90: rows go out in strictly ascending order, so none twice.
SendsNewer ==
  mode' # "down" /\ session \notin merged =>
    \A r \in chunk \ chunk' : \A q \in sent : q.seq < r.seq

ReplayInOrder == [][SendsNewer]_logVars

\* protocol/store.py:90 on replay, as it stands: "yielding all stored events with
\* seq >= from_seq", for every session the commands allow.
YieldsAllStored == mode \in {"booting", "serving"} => owed = {}
===============================================================================
