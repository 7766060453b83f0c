---------------------------- MODULE EventLog_proofs ----------------------------
(***************************************************************************)
(* Proofs about the event log, for any number of sessions, processes,      *)
(* events and any page size: the types, the order between the log and the  *)
(* appends in line, the uniqueness of numbers and the order of a replay.   *)
(***************************************************************************)
EXTENDS EventLog, SequenceTheorems, TLAPS

\* The appends in line are in ascending order and numbered by this process.
LineInOrder ==
  /\ \A i, j \in 1 .. Len(pending) : i < j => pending[i].seq < pending[j].seq
  /\ \A i \in 1 .. Len(pending) : pending[i].seq <= seq
  /\ mode = "down" => pending = <<>>

\* The session's log is behind the counter and behind the line.
LogBehind ==
  \A r \in store[session] :
    /\ mode # "down" => r.seq <= seq
    /\ \A i \in 1 .. Len(pending) : r.seq < pending[i].seq

LogInv == LineInOrder /\ LogBehind /\ SeqsAreUnique
-------------------------------------------------------------------------------
\* What emitting does to the counter and the line, whatever the cap decides.
LEMMA EmitEffect ==
  ASSUME NEW n \in Nat, NEW kind \in Kind, NEW from \in Nat, run' \in Nat,
         pending \in Seq(Event), count \in Nat, Emit(n, kind, from)
  PROVE  /\ seq' \in Nat /\ n < seq'
         /\ out' \in Seq(Event)
         /\ pending' \in Seq(Event)
         /\ count' \in Nat
         /\ \/ pending' = pending
            \/ \E e \in Event : e.seq = n + 1 /\ pending' = Append(pending, e)
<1> DEFINE e == MakeEvent(n + 1, kind, from)
           w == MakeEvent(n + 2, "other", 0)
<1>1. e \in Event /\ e.seq = n + 1
  BY DEF MakeEvent, Event
<1>2. w \in Event
  BY DEF MakeEvent, Event, Kind
<1>3. /\ \/ /\ pending' = Append(pending, e)
            /\ count' = count + 1
         \/ pending' = pending /\ count' = count
      /\ seq' = n + 1 \/ seq' = n + 2
      /\ out' = <<e>> \/ out' = <<e, w>>
  BY DEF Emit
<1> HIDE DEF e, w
<1>4. <<e>> \in Seq(Event) /\ <<e, w>> \in Seq(Event)
  BY <1>1, <1>2
<1>5. Append(pending, e) \in Seq(Event)
  BY <1>1, AppendProperties
<1>6. pending' \in Seq(Event)
  BY <1>3, <1>5
<1>7. count' \in Nat
  BY <1>3
<1>8. seq' \in Nat /\ n < seq'
  BY <1>3
<1>9. out' \in Seq(Event)
  BY <1>3, <1>4
<1> QED BY <1>1, <1>3, <1>6, <1>7, <1>8, <1>9

\* Emitting a number above the line and the log keeps both in order.
LEMMA EmitKeepsOrder ==
  ASSUME NEW n \in Nat, NEW log \in SUBSET Row, seq' \in Nat, n < seq',
         pending \in Seq(Event), pending' \in Seq(Event),
         \/ pending' = pending
         \/ \E e \in Event : e.seq = n + 1 /\ pending' = Append(pending, e),
         \A i, j \in 1 .. Len(pending) : i < j => pending[i].seq < pending[j].seq,
         \A i \in 1 .. Len(pending) : pending[i].seq <= n,
         \A r \in log : r.seq <= n /\ \A i \in 1 .. Len(pending) : r.seq < pending[i].seq
  PROVE  /\ \A i, j \in 1 .. Len(pending') : i < j => pending'[i].seq < pending'[j].seq
         /\ \A i \in 1 .. Len(pending') : pending'[i].seq <= seq'
         /\ \A r \in log : r.seq <= seq' /\ \A i \in 1 .. Len(pending') : r.seq < pending'[i].seq
<1>1. \A i \in 1 .. Len(pending) : pending[i].seq \in Nat
  <2>1. \A i \in 1 .. Len(pending) : pending[i] \in Event
    BY ElementOfSeq
  <2> QED BY <2>1 DEF Event
<1>2. \A r \in log : r.seq \in Nat
  BY DEF Row
<1>3. CASE pending' = pending
  BY <1>1, <1>2, <1>3
<1>4. CASE \E e \in Event : e.seq = n + 1 /\ pending' = Append(pending, e)
  <2>1. PICK e \in Event : e.seq = n + 1 /\ pending' = Append(pending, e)
    BY <1>4
  <2>2. /\ Len(pending') = Len(pending) + 1
        /\ Len(pending) \in Nat
        /\ \A i \in 1 .. Len(pending) : pending'[i] = pending[i]
        /\ pending'[Len(pending) + 1] = e
    BY <2>1
  <2>3. \A i \in 1 .. Len(pending') : i \in 1 .. Len(pending) \/ i = Len(pending) + 1
    BY <2>2
  <2>4. \A i, j \in 1 .. Len(pending') : i < j => i \in 1 .. Len(pending)
    BY <2>2
  <2> QED BY <1>1, <1>2, <2>1, <2>2, <2>3, <2>4
<1> QED BY <1>3, <1>4

-------------------------------------------------------------------------------
(* Types *)

\* Every variable keeps its type: the counter and the cap's slots stay natural
\* numbers, whatever is dropped, fails or is lost.
THEOREM TypeCorrect == Spec => []TypeOK
<1>1. ASSUME Init PROVE TypeOK
  <2>1. <<>> \in Seq(Event)
    BY EmptySeq
  <2>2. store \in [Session -> SUBSET Row]
    BY <1>1 DEF Init
  <2> QED BY <1>1, <2>1, <2>2 DEF Init, TypeOK
<1>2. TypeOK /\ [Next]_logVars => TypeOK'
  <2> SUFFICES ASSUME TypeOK, [Next]_logVars PROVE TypeOK'
    OBVIOUS
  <2> USE LogAssumption
  <2>0. <<>> \in Seq(Event)
    BY EmptySeq
  <2>1. ASSUME NEW kind \in LiveKind, EmitLive(kind) PROVE TypeOK'
    <3>1. kind \in Kind /\ 0 \in Nat /\ run' \in Nat
      BY <2>1 DEF EmitLive, Kind, TypeOK
    <3>2. /\ seq' \in Nat /\ out' \in Seq(Event)
          /\ pending' \in Seq(Event) /\ count' \in Nat
      BY <2>1, <3>1, EmitEffect DEF EmitLive, TypeOK
    <3> QED BY <2>1, <3>2 DEF EmitLive, TypeOK, replayVars
  <2>2. CASE AppendCommits
    <3>1. Head(pending) \in Event /\ Tail(pending) \in Seq(Event)
      BY <2>2 DEF AppendCommits, TypeOK
    <3>2. [row |-> rows + 1, run |-> Head(pending).run, seq |-> Head(pending).seq,
           kind |-> Head(pending).kind, from |-> Head(pending).from] \in Row
      BY <3>1 DEF TypeOK, Event, Row
    <3>3. store' \in [Session -> SUBSET Row]
      BY <2>2, <3>2 DEF AppendCommits, TypeOK
    <3> QED BY <2>0, <2>2, <3>1, <3>3 DEF AppendCommits, TypeOK, replayVars
  <2>3. CASE AppendFails
    BY <2>0, <2>3 DEF AppendFails, TypeOK, replayVars
  <2>4. CASE Release
    <3>1. count' \in Nat
      BY <2>4 DEF Release, TypeOK
    <3> QED BY <2>0, <2>4, <3>1 DEF Release, TypeOK, replayVars
  <2>5. CASE FetchPage
    <3>1. Page \subseteq Row
      BY DEF Page, Candidates, TypeOK
    <3>2. cursor' \in Nat
      BY <2>5, <3>1 DEF FetchPage, TypeOK, Row
    <3>3. more' \in BOOLEAN
      BY <2>5 DEF FetchPage
    <3> QED BY <2>0, <2>5, <3>1, <3>2, <3>3 DEF FetchPage, TypeOK
  <2>6. CASE WriteReplayDict
    <3>1. PICK r \in chunk :
            /\ out' = <<[run |-> r.run, seq |-> r.seq, kind |-> r.kind, from |-> r.from]>>
            /\ chunk' = chunk \ {r}
            /\ owed' = owed \ {r}
            /\ sent' = sent \cup {r}
      BY <2>6 DEF WriteReplayDict
    <3>2. r \in Row
      BY DEF TypeOK
    <3>3. out' \in Seq(Event)
      BY <3>1, <3>2 DEF Row, Event
    <3> QED BY <2>6, <3>1, <3>2, <3>3 DEF WriteReplayDict, TypeOK
  <2>7. CASE EndReplay
    BY <2>0, <2>7 DEF EndReplay, TypeOK, replayVars
  <2>8. CASE Ready
    <3>1. "ready" \in Kind /\ 0 \in Nat /\ run' \in Nat
      BY <2>8 DEF Ready, Kind, TypeOK
    <3>2. /\ seq' \in Nat /\ out' \in Seq(Event)
          /\ pending' \in Seq(Event) /\ count' \in Nat
      BY <2>8, <3>1, EmitEffect DEF Ready, TypeOK
    <3> QED BY <2>8, <3>2 DEF Ready, TypeOK, replayVars
  <2>9. ASSUME NEW s \in Session, Start(s) PROVE TypeOK'
    <3>1. run' \in Nat /\ "resumed" \in Kind /\ "opened" \in Kind /\ 0 \in Nat
      BY <2>9 DEF Start, TypeOK, Kind
    <3>2. CASE store[s] # {}
      <4>1. PICK top \in 0 .. MaxSeq - 2 : Emit(top, "resumed", 0)
        BY <2>9, <3>2 DEF Start
      <4>2. top \in Nat
        OBVIOUS
      <4>3. /\ seq' \in Nat /\ out' \in Seq(Event)
            /\ pending' \in Seq(Event) /\ count' \in Nat
        BY <3>1, <4>1, <4>2, EmitEffect DEF TypeOK
      <4>4. {r \in store[s] : r.seq >= 0} \subseteq Row
        BY DEF TypeOK
      <4> QED BY <2>9, <3>1, <3>2, <4>3, <4>4 DEF Start, BeginReplay, TypeOK
    <3>3. CASE store[s] = {}
      <4>1. /\ seq' \in Nat /\ out' \in Seq(Event)
            /\ pending' \in Seq(Event) /\ count' \in Nat
        BY <2>9, <3>1, <3>3, EmitEffect DEF Start, TypeOK
      <4> QED BY <2>9, <3>1, <3>3, <4>1 DEF Start, TypeOK, replayVars
    <3> QED BY <3>2, <3>3
  <2>10. ASSUME NEW from \in From, SessionResume(from) PROVE TypeOK'
    <3>1. run' \in Nat /\ "resumed" \in Kind /\ from \in Nat
      BY <2>10 DEF SessionResume, Kind, TypeOK
    <3>2. /\ seq' \in Nat /\ out' \in Seq(Event)
          /\ pending' \in Seq(Event) /\ count' \in Nat
      <4>1. CASE resumed
        BY <2>0, <2>10, <4>1 DEF SessionResume, TypeOK
      <4>2. CASE ~resumed
        BY <2>10, <3>1, <4>2, EmitEffect DEF SessionResume, TypeOK
      <4> QED BY <4>1, <4>2
    <3>3. {r \in store[session] : r.seq >= from} \subseteq Row
      BY DEF TypeOK
    <3> QED BY <2>10, <3>1, <3>2, <3>3 DEF SessionResume, BeginReplay, TypeOK
  <2>11. CASE SessionDelete
    BY <2>0, <2>11 DEF SessionDelete, TypeOK, replayVars
  <2>12. ASSUME NEW to \in Session, SessionRename(to) PROVE TypeOK'
    BY <2>0, <2>12 DEF SessionRename, TypeOK, replayVars
  <2>13. CASE Stop
    BY <2>0, <2>13 DEF Stop, TypeOK
  <2>14. CASE UNCHANGED logVars
    BY <2>14 DEF logVars, emitVars, replayVars, TypeOK
  <2> QED
    BY <2>1, <2>2, <2>3, <2>4, <2>5, <2>6, <2>7, <2>8, <2>9, <2>10, <2>11, <2>12, <2>13,
       <2>14 DEF Next, RuntimeStep
<1> QED BY <1>1, <1>2, PTL DEF Spec

-------------------------------------------------------------------------------
(* The order between the log, the line and the counter *)

LEMMA OrderStep == TypeOK /\ TypeOK' /\ LogInv /\ [Next]_logVars => LogInv'
<1> SUFFICES ASSUME TypeOK, TypeOK', LogInv, [Next]_logVars PROVE LogInv'
  OBVIOUS
<1> USE LogAssumption
<1>a. /\ seq \in Nat /\ seq' \in Nat
      /\ pending \in Seq(Event) /\ pending' \in Seq(Event)
      /\ store[session] \in SUBSET Row
      /\ Len(pending) \in Nat
      /\ count \in Nat /\ run' \in Nat
  BY LenProperties DEF TypeOK
<1>b. \A i \in 1 .. Len(pending) : pending[i].seq \in Nat
  <2>1. \A i \in 1 .. Len(pending) : pending[i] \in Event
    BY <1>a, ElementOfSeq
  <2> QED BY <2>1 DEF Event
<1>c. \A r \in store[session] : r.seq \in Nat
  BY <1>a DEF Row
<1>e. Len(<<>>) = 0
  BY EmptySeq
\* A step of a live process that emits at most, with log and session as they were.
<1>1. ASSUME mode # "down", mode' # "down", UNCHANGED <<session, store, merged>>,
             \/ \E kind \in Kind, from \in Nat : Emit(seq, kind, from)
             \/ UNCHANGED <<seq, pending>>
      PROVE  LogInv'
  <2>1. CASE UNCHANGED <<seq, pending>>
    BY <1>1, <2>1 DEF LogInv, LineInOrder, LogBehind, SeqsAreUnique
  <2>2. CASE \E kind \in Kind, from \in Nat : Emit(seq, kind, from)
    <3>1. /\ seq < seq'
          /\ \/ pending' = pending
             \/ \E e \in Event : e.seq = seq + 1 /\ pending' = Append(pending, e)
      BY <2>2, <1>a, EmitEffect
    <3>2. /\ \A i, j \in 1 .. Len(pending) : i < j => pending[i].seq < pending[j].seq
          /\ \A i \in 1 .. Len(pending) : pending[i].seq <= seq
          /\ \A r \in store[session] :
               r.seq <= seq /\ \A i \in 1 .. Len(pending) : r.seq < pending[i].seq
      BY <1>1 DEF LogInv, LineInOrder, LogBehind
    <3>3. /\ \A i, j \in 1 .. Len(pending') : i < j => pending'[i].seq < pending'[j].seq
          /\ \A i \in 1 .. Len(pending') : pending'[i].seq <= seq'
          /\ \A r \in store[session] :
               r.seq <= seq' /\ \A i \in 1 .. Len(pending') : r.seq < pending'[i].seq
      BY <3>1, <3>2, <1>a, EmitKeepsOrder
    <3>4. SeqsAreUnique'
      BY <1>1 DEF LogInv, SeqsAreUnique
    <3> QED BY <1>1, <3>3, <3>4 DEF LogInv, LineInOrder, LogBehind
  <2> QED BY <1>1, <2>1, <2>2
\* The head of the line leaves it.
<1>2. ASSUME pending # <<>>, pending' = Tail(pending), UNCHANGED <<mode, session, seq, merged>>
      PROVE  /\ LineInOrder'
             /\ \A i \in 1 .. Len(pending') : Head(pending).seq < pending'[i].seq
             /\ \A r \in store[session] : \A i \in 1 .. Len(pending') : r.seq < pending'[i].seq
             /\ Head(pending) \in Event /\ Head(pending).seq <= seq
             /\ \A r \in store[session] : r.seq < Head(pending).seq
             /\ mode # "down"
  <2>1. /\ Len(pending') = Len(pending) - 1
        /\ \A i \in 1 .. Len(pending') : pending'[i] = pending[i + 1]
        /\ Head(pending) \in Event
        /\ Len(pending) \in Nat \ {0}
    BY <1>2, <1>a, HeadTailProperties, EmptySeq
  <2>2. Head(pending) = pending[1] /\ 1 \in 1 .. Len(pending)
    BY <1>2, <1>a, <2>1
  <2>3. \A i \in 1 .. Len(pending') : i + 1 \in 1 .. Len(pending) /\ 1 < i + 1
    BY <2>1
  <2>4. \A i, j \in 1 .. Len(pending') : i < j => i + 1 < j + 1
    BY <2>1
  <2> HIDE <1>a
  <2> QED BY <1>2, <2>1, <2>2, <2>3, <2>4 DEF LogInv, LineInOrder, LogBehind
<1>3. ASSUME NEW kind \in LiveKind, EmitLive(kind) PROVE LogInv'
  <2>1. kind \in Kind /\ 0 \in Nat
    BY DEF Kind
  <2> QED BY <1>1, <1>3, <2>1 DEF EmitLive
<1>4. CASE AppendCommits
  <2> DEFINE e == Head(pending)
             new == [row |-> rows + 1, run |-> e.run, seq |-> e.seq, kind |-> e.kind, from |-> e.from]
  <2>1. /\ pending # <<>> /\ pending' = Tail(pending)
        /\ UNCHANGED <<mode, session, seq, merged>>
        /\ store' = [store EXCEPT ![session] = @ \cup {new}]
    BY <1>4 DEF AppendCommits
  <2>2. new.seq = Head(pending).seq
    OBVIOUS
  <2>3. /\ store'[session] = store[session] \cup {new}
        /\ \A s \in Session \ {session} : store'[s] = store[s]
        /\ session \in Session
    BY <2>1 DEF TypeOK
  <2> HIDE DEF new
  <2>4. SeqsAreUnique'
    <3> SUFFICES ASSUME NEW s \in Session \ merged,
                        NEW q \in store'[s], NEW r \in store'[s], q.seq = r.seq
                 PROVE  q = r
      BY <2>1 DEF SeqsAreUnique
    <3>1. CASE s # session
      BY <2>3, <3>1 DEF LogInv, SeqsAreUnique
    <3>2. CASE s = session
      <4>1. \A p \in store[session] : p.seq # new.seq
        BY <1>2, <2>1, <2>2, <1>c
      <4> QED BY <2>3, <3>2, <4>1 DEF LogInv, SeqsAreUnique
    <3> QED BY <3>1, <3>2
  <2>5. LogBehind'
    <3>1. \A r \in store'[session] : r.seq <= seq
      BY <1>2, <2>1, <2>2, <2>3 DEF LogInv, LogBehind
    <3>2. \A r \in store'[session] : \A i \in 1 .. Len(pending') : r.seq < pending'[i].seq
      BY <1>2, <2>1, <2>2, <2>3
    <3> QED BY <2>1, <3>1, <3>2 DEF LogBehind
  <2> QED BY <1>2, <2>1, <2>4, <2>5 DEF LogInv
<1>5. CASE AppendFails
  BY <1>2, <1>5 DEF AppendFails, LogInv, LogBehind, SeqsAreUnique
<1>6. CASE Release
  BY <1>6 DEF Release, LogInv, LineInOrder, LogBehind, SeqsAreUnique
<1>7. CASE FetchPage
  BY <1>1, <1>7 DEF FetchPage
<1>8. CASE WriteReplayDict
  BY <1>1, <1>8 DEF WriteReplayDict
<1>9. CASE EndReplay
  BY <1>1, <1>9 DEF EndReplay, TypeOK
<1>10. CASE Ready
  BY <1>1, <1>10 DEF Ready, Kind
<1>11. ASSUME NEW s \in Session, Start(s) PROVE LogInv'
  <2>1. pending = <<>> /\ Len(pending) = 0
    BY <1>11, <1>e DEF Start, LogInv, LineInOrder
  <2>2. PICK n \in Nat :
          /\ \E kind \in Kind : Emit(n, kind, 0)
          /\ \A r \in store[s] : r.seq <= n
    <3>1. CASE store[s] # {}
      <4>1. PICK top \in 0 .. MaxSeq - 2 : MaxStored(s, top) /\ Emit(top, "resumed", 0)
        BY <1>11, <3>1 DEF Start
      <4> QED BY <4>1 DEF MaxStored, Kind
    <3>2. CASE store[s] = {}
      BY <1>11, <3>2 DEF Start, Kind
    <3> QED BY <3>1, <3>2
  <2>3. /\ n < seq'
        /\ \/ pending' = pending
           \/ \E e \in Event : e.seq = n + 1 /\ pending' = Append(pending, e)
    BY <1>a, <2>2, EmitEffect
  <2>4. store[s] \in SUBSET Row /\ 1 .. Len(pending) = {}
    BY <2>1 DEF TypeOK
  <2>5. /\ \A i, j \in 1 .. Len(pending') : i < j => pending'[i].seq < pending'[j].seq
        /\ \A i \in 1 .. Len(pending') : pending'[i].seq <= seq'
        /\ \A r \in store[s] :
             r.seq <= seq' /\ \A i \in 1 .. Len(pending') : r.seq < pending'[i].seq
    BY <1>a, <2>1, <2>2, <2>3, <2>4, EmitKeepsOrder
  <2>6. session' = s /\ store' = store /\ merged' = merged /\ mode' # "down"
    BY <1>11 DEF Start, BeginReplay
  <2> QED BY <2>5, <2>6 DEF LogInv, LineInOrder, LogBehind, SeqsAreUnique
<1>12. ASSUME NEW from \in From, SessionResume(from) PROVE LogInv'
  BY <1>1, <1>12 DEF SessionResume, BeginReplay, Kind
<1>13. CASE SessionDelete
  <2>1. /\ store'[session] = {} /\ \A s \in Session \ {session} : store'[s] = store[s]
        /\ UNCHANGED <<mode, session, seq, pending, merged>>
    BY <1>13 DEF SessionDelete, TypeOK
  <2> QED BY <2>1 DEF LogInv, LineInOrder, LogBehind, SeqsAreUnique
<1>14. ASSUME NEW to \in Session, SessionRename(to) PROVE LogInv'
  <2>1. /\ store'[session] = {}
        /\ \A s \in Session \ {session, to} : store'[s] = store[s]
        /\ merged' = merged \cup {to}
        /\ UNCHANGED <<mode, session, seq, pending>>
    BY <1>14 DEF SessionRename, TypeOK
  <2> QED BY <2>1 DEF LogInv, LineInOrder, LogBehind, SeqsAreUnique
<1>15. CASE Stop
  BY <1>15, <1>e DEF Stop, LogInv, LineInOrder, LogBehind, SeqsAreUnique
<1>16. CASE UNCHANGED logVars
  BY <1>16 DEF logVars, emitVars, LogInv, LineInOrder, LogBehind, SeqsAreUnique
<1> QED
  BY <1>3, <1>4, <1>5, <1>6, <1>7, <1>8, <1>9, <1>10, <1>11, <1>12, <1>13, <1>14, <1>15,
     <1>16 DEF Next, RuntimeStep

\* The inductive invariant: the log is behind the line and the counter.
THEOREM OrderHolds == Spec => []LogInv
<1>1. Init => LogInv
  BY EmptySeq DEF Init, LogInv, LineInOrder, LogBehind, SeqsAreUnique
<1> QED BY <1>1, TypeCorrect, OrderStep, PTL DEF Spec

\* agp.md, "seq is monotonic per session": what is still to be stored is newer than
\* everything stored, over drops, failures, deletes, renames and restarts.
THEOREM LineIsNewerThanLog == Spec => []NewerThanLog
<1>1. TypeOK /\ LogInv => NewerThanLog
  <2> SUFFICES ASSUME TypeOK, LogInv, NEW i \in 1 .. Len(pending)
               PROVE  /\ \A r \in store[session] : r.seq < pending[i].seq
                      /\ \A j \in 1 .. i - 1 : pending[j].seq < pending[i].seq
    BY DEF NewerThanLog
  <2>1. Len(pending) \in Nat
    BY LenProperties DEF TypeOK
  <2>2. \A j \in 1 .. i - 1 : j \in 1 .. Len(pending) /\ j < i
    BY <2>1
  <2> QED BY <2>2 DEF LogInv, LineInOrder, LogBehind
<1> QED BY <1>1, TypeCorrect, OrderHolds, PTL

\* No two rows of a session have the same number, unless it was renamed to.
THEOREM NumbersAreUnique == Spec => []SeqsAreUnique
<1>1. LogInv => SeqsAreUnique
  BY DEF LogInv
<1> QED BY <1>1, OrderHolds, PTL

-------------------------------------------------------------------------------
(* The order of a replay *)

\* A page is a piece of the log; what was sent is behind it and behind the cursor.
ReplayInv ==
  /\ \A s \in Session : \A r \in store[s] : r.seq > 0
  /\ \A i \in 1 .. Len(pending) : pending[i].seq > 0
  /\ mode # "replaying" => chunk = {}
  /\ chunk \subseteq store[session]
  /\ \A r \in sent \cup chunk : 0 < r.seq /\ r.seq <= cursor
  /\ session \notin merged => \A q \in sent, r \in chunk : q.seq < r.seq

LEMMA ReplayStep ==
  TypeOK /\ TypeOK' /\ LogInv /\ ReplayInv /\ [Next]_logVars => ReplayInv' /\ SendsNewer
<1> SUFFICES ASSUME TypeOK, TypeOK', LogInv, ReplayInv, [Next]_logVars
             PROVE  ReplayInv' /\ SendsNewer
  OBVIOUS
<1>a. /\ seq \in Nat /\ count \in Nat /\ run' \in Nat /\ cursor \in Nat
      /\ pending \in Seq(Event) /\ pending' \in Seq(Event)
      /\ Len(pending) \in Nat
      /\ session \in Session
      /\ \A s \in Session : store[s] \subseteq Row
      /\ chunk \subseteq Row /\ sent \subseteq Row
  BY LenProperties DEF TypeOK
<1>b. /\ \A s \in Session : \A r \in store[s] : r.seq \in Nat
      /\ \A r \in sent \cup chunk : r.seq \in Nat
  BY <1>a DEF Row
<1>c. Len(<<>>) = 0
  BY EmptySeq
\* Emitting appends a positive number.
<1>1. ASSUME NEW n \in Nat, NEW kind \in Kind, NEW from \in Nat, Emit(n, kind, from)
      PROVE  \A i \in 1 .. Len(pending') : pending'[i].seq > 0
  <2>1. \/ pending' = pending
        \/ \E e \in Event : e.seq = n + 1 /\ pending' = Append(pending, e)
    BY <1>1, <1>a, EmitEffect
  <2>2. CASE pending' = pending
    BY <2>2 DEF ReplayInv
  <2>3. ASSUME NEW e \in Event, e.seq = n + 1, pending' = Append(pending, e)
        PROVE  \A i \in 1 .. Len(pending') : pending'[i].seq > 0
    <3>1. /\ Len(pending') = Len(pending) + 1
          /\ \A i \in 1 .. Len(pending) : pending'[i] = pending[i]
          /\ pending'[Len(pending) + 1] = e
      BY <2>3, <1>a, AppendProperties
    <3>2. \A i \in 1 .. Len(pending') : i \in 1 .. Len(pending) \/ i = Len(pending) + 1
      BY <3>1, <1>a
    <3> QED BY <2>3, <3>1, <3>2 DEF ReplayInv
  <2> QED BY <2>1, <2>2, <2>3
\* The line loses its head.
<1>2. ASSUME pending # <<>>, pending' = Tail(pending)
      PROVE  /\ \A i \in 1 .. Len(pending') : pending'[i].seq > 0
             /\ Head(pending).seq > 0
  <2>1. /\ Len(pending') = Len(pending) - 1
        /\ \A i \in 1 .. Len(pending') : pending'[i] = pending[i + 1]
        /\ Len(pending) \in Nat \ {0}
    BY <1>2, <1>a, HeadTailProperties, EmptySeq
  <2>2. \A i \in 1 .. Len(pending') : i + 1 \in 1 .. Len(pending)
    BY <2>1
  <2>3. Head(pending) = pending[1] /\ 1 \in 1 .. Len(pending)
    BY <1>2, <1>a, <2>1
  <2> QED BY <1>2, <2>1, <2>2, <2>3 DEF ReplayInv
\* A replay that begins holds nothing; one that does not move keeps what it holds.
<1>3. ASSUME NEW s \in Session, NEW from, NEW back, BeginReplay(s, from, back),
             mode # "replaying", store' = store,
             \A i \in 1 .. Len(pending') : pending'[i].seq > 0
      PROVE  ReplayInv' /\ SendsNewer
  BY <1>3 DEF BeginReplay, ReplayInv, SendsNewer
<1>4. ASSUME UNCHANGED <<session, store, chunk, cursor, sent, merged>>,
             mode' = "replaying" => mode = "replaying",
             mode = "replaying" => mode' = "replaying" \/ chunk = {},
             \A i \in 1 .. Len(pending') : pending'[i].seq > 0
      PROVE  ReplayInv' /\ SendsNewer
  BY <1>4 DEF ReplayInv, SendsNewer
<1>5. ASSUME NEW kind \in LiveKind, EmitLive(kind) PROVE ReplayInv' /\ SendsNewer
  <2>1. kind \in Kind /\ 0 \in Nat
    BY LogAssumption DEF Kind
  <2> QED BY <1>a, <1>1, <1>4, <1>5, <2>1 DEF EmitLive, replayVars
<1>6. CASE AppendCommits
  <2> DEFINE new == [row |-> rows + 1, run |-> Head(pending).run, seq |-> Head(pending).seq,
                     kind |-> Head(pending).kind, from |-> Head(pending).from]
  <2>1. /\ pending # <<>> /\ pending' = Tail(pending)
        /\ store' = [store EXCEPT ![session] = @ \cup {new}]
        /\ UNCHANGED <<mode, session, merged, chunk, cursor, sent>>
    BY <1>6 DEF AppendCommits, replayVars
  <2>2. new.seq > 0 /\ \A i \in 1 .. Len(pending') : pending'[i].seq > 0
    BY <1>2, <2>1
  <2> HIDE DEF new
  <2>3. /\ store'[session] = store[session] \cup {new}
        /\ \A s \in Session \ {session} : store'[s] = store[s]
    BY <2>1 DEF TypeOK
  <2> QED BY <1>a, <2>1, <2>2, <2>3 DEF ReplayInv, SendsNewer
<1>7. CASE AppendFails
  BY <1>2, <1>4, <1>7 DEF AppendFails, replayVars
<1>8. CASE Release
  BY <1>4, <1>8 DEF Release, replayVars, ReplayInv
<1>9. CASE FetchPage
  <2>1. /\ mode = "replaying" /\ mode' = mode
        /\ chunk = {} /\ chunk' = Page
        /\ UNCHANGED <<session, store, pending, sent, merged>>
    BY <1>9 DEF FetchPage
  <2>2. Page \subseteq store[session] /\ \A r \in Page : cursor < r.seq
    BY <1>a, <1>b DEF Page, Candidates, ReplayInv
  <2>3. cursor <= cursor' /\ \A r \in Page : r.seq <= cursor'
    BY <1>9, <1>a, <1>b, <2>2 DEF FetchPage
  <2>4. cursor' \in Nat /\ \A r \in Page : r.seq \in Nat
    BY <1>a, <1>b, <2>2 DEF TypeOK
  <2>5. \A r \in sent : 0 < r.seq /\ r.seq <= cursor
    BY DEF ReplayInv
  <2>6. \A r \in sent \cup Page : 0 < r.seq /\ r.seq <= cursor'
    BY <1>a, <1>b, <2>2, <2>3, <2>4, <2>5
  <2>7. \A q \in sent, r \in Page : q.seq < r.seq
    BY <1>a, <1>b, <2>2, <2>4, <2>5
  <2> QED BY <2>1, <2>2, <2>6, <2>7 DEF ReplayInv, SendsNewer
<1>10. CASE WriteReplayDict
  <2>1. PICK r \in chunk :
          /\ \A q \in chunk \ {r} : Before(r, q)
          /\ chunk' = chunk \ {r}
          /\ sent' = sent \cup {r}
    BY <1>10 DEF WriteReplayDict
  <2>2. mode = "replaying" /\ UNCHANGED <<mode, session, store, pending, cursor, merged>>
    BY <1>10 DEF WriteReplayDict
  <2>3. ASSUME session \notin merged, NEW q \in chunk \ {r} PROVE r.seq < q.seq
    <3>1. q \in store[session] /\ r \in store[session] /\ session \in Session \ merged
      BY <2>3, <1>a DEF ReplayInv
    <3>2. q.seq # r.seq
      BY <2>3, <3>1 DEF LogInv, SeqsAreUnique
    <3> QED BY <2>1, <3>2 DEF Before
  <2> QED BY <2>1, <2>2, <2>3 DEF ReplayInv, SendsNewer
<1>11. CASE EndReplay
  BY <1>4, <1>11 DEF EndReplay, replayVars, ReplayInv, TypeOK
<1>12. CASE Ready
  BY <1>a, <1>1, <1>4, <1>12 DEF Ready, replayVars, Kind
<1>13. ASSUME NEW s \in Session, Start(s) PROVE ReplayInv' /\ SendsNewer
  <2>1. mode = "down" /\ store' = store /\ session' = s /\ chunk = {}
    BY <1>13 DEF Start, ReplayInv
  <2>2. CASE store[s] # {}
    <3>1. PICK top \in Nat : Emit(top, "resumed", 0)
      BY <1>13, <2>2, LogAssumption DEF Start
    <3>2. \A i \in 1 .. Len(pending') : pending'[i].seq > 0
      BY <1>1, <3>1 DEF Kind
    <3> QED BY <1>3, <1>13, <2>1, <2>2, <3>2 DEF Start
  <2>3. CASE store[s] = {}
    <3>1. \A i \in 1 .. Len(pending') : pending'[i].seq > 0
      BY <1>1, <1>13, <2>3 DEF Start, Kind
    <3>2. mode' = "booting" /\ UNCHANGED <<chunk, cursor, sent, merged>>
      BY <1>13, <2>3 DEF Start, replayVars
    <3> QED BY <2>1, <3>1, <3>2 DEF ReplayInv, SendsNewer
  <2> QED BY <2>2, <2>3
<1>14. ASSUME NEW from \in From, SessionResume(from) PROVE ReplayInv' /\ SendsNewer
  <2>1. \A i \in 1 .. Len(pending') : pending'[i].seq > 0
    <3>1. CASE resumed
      BY <1>14, <3>1 DEF SessionResume, ReplayInv
    <3>2. CASE ~resumed
      BY <1>a, <1>1, <1>14, <3>2, LogAssumption DEF SessionResume, Kind
    <3> QED BY <3>1, <3>2
  <2> QED BY <1>a, <1>3, <1>14, <2>1 DEF SessionResume
<1>15. CASE SessionDelete
  <2>1. /\ store'[session] = {} /\ \A s \in Session \ {session} : store'[s] = store[s]
        /\ chunk = {}
        /\ UNCHANGED <<mode, session, pending, cursor, chunk, sent, merged>>
    BY <1>15 DEF SessionDelete, replayVars, TypeOK, ReplayInv
  <2> QED BY <2>1 DEF ReplayInv, SendsNewer
<1>16. ASSUME NEW to \in Session, SessionRename(to) PROVE ReplayInv' /\ SendsNewer
  <2>1. /\ \A s \in Session : store'[s] \subseteq store[s] \cup store[session]
        /\ chunk = {}
        /\ merged' = merged \cup {to}
        /\ UNCHANGED <<mode, session, pending, cursor, chunk, sent>>
    BY <1>16 DEF SessionRename, replayVars, TypeOK, ReplayInv
  <2> QED BY <1>a, <2>1 DEF ReplayInv, SendsNewer
<1>17. CASE Stop
  BY <1>c, <1>17 DEF Stop, ReplayInv, SendsNewer
<1>18. CASE UNCHANGED logVars
  BY <1>4, <1>18 DEF logVars, emitVars, replayVars, ReplayInv
<1> QED
  BY <1>5, <1>6, <1>7, <1>8, <1>9, <1>10, <1>11, <1>12, <1>13, <1>14, <1>15, <1>16, <1>17,
     <1>18 DEF Next, RuntimeStep

\* protocol/store.py:90: a replay writes the log in ascending order, no row twice,
\* with live appends between its pages, for every page size.
THEOREM ReplayAscends == Spec => ReplayInOrder
<1>1. Init => ReplayInv
  BY EmptySeq DEF Init, ReplayInv
<1>2. TypeOK /\ TypeOK' /\ LogInv /\ ReplayInv /\ [Next]_logVars => ReplayInv' /\ [SendsNewer]_logVars
  BY ReplayStep
<1> QED BY <1>1, <1>2, TypeCorrect, OrderHolds, PTL DEF Spec, ReplayInOrder
=============================================================================
