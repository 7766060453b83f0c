----------------------------- MODULE ReplyStream -----------------------------
(* One reply of a model on its way to the client (src/wire_stream_content.py and *)
(* its three callers): every chunk is split into reasoning and answer by itself,  *)
(* the pieces become token events, and an output and a message are left behind.   *)
(* A reply is a sequence of pieces: the tags that open and close inline reasoning,*)
(* the thought or answer text between them, typed reasoning blocks, the reasoning *)
(* fields of the chunk, and images, which have no text.                           *)
EXTENDS Integers, Sequences, SequencesExt

CONSTANTS
    Replies,      \* the replies the provider may give
    Caller,       \* "helper" (stream_or_invoke_llm), "direct" (_handle_direct), "react"
    Streams,      \* the turn may have an event queue
    Invokes,      \* the turn may have none: the reply comes in one piece, no event is emitted
    CutsThoughts, \* TRUE: a chunk may end between two tags
    MayFail       \* TRUE: the stream may time out

TextPieces == {"open", "close", "thought", "answer"}
Reasons == {"thought", "block", "field"}

VARIABLES
    reply,  \* the pieces of the reply
    at,     \* how many of them have been streamed
    shown,  \* token events: the piece, by position, and its role
    kept,   \* the answer parts the caller joins
    last,   \* positions of the last chunk
    output, \* what the caller returns as the text of the reply
    stored, \* positions whose text the recorded message holds
    phase   \* waiting, open, done, answered (without a stream), failed
vars == <<reply, at, shown, kept, last, output, stored, phase>>

Kind(p) == reply[p]
Positions(a, b) == [i \in 1..(b - a + 1) |-> a + i - 1]
Whole == Positions(1, Len(reply))
OfKind(s, K) == SelectSeq(s, LAMBDA p : Kind(p) \in K)

\* Mutant of SplitInline.
SplitInlineOnce(s) ==
    LET step(a, p) ==
          IF a.inside
          THEN [a EXCEPT !.thought = Append(@, p)]
          ELSE IF Kind(p) = "open" THEN [a EXCEPT !.inside = TRUE]
                                   ELSE [a EXCEPT !.answer = Append(@, p)]
    IN  FoldLeft(step, [inside |-> FALSE, thought |-> <<>>, answer |-> <<>>], s)

\* _split_inline_reasoning: outside an opening tag everything is answer, a closing
\* tag without its opening included; inside, everything up to the closing tag is thought.
SplitInline(s) ==
    LET step(a, p) ==
          IF a.inside
          THEN IF Kind(p) = "close" THEN [a EXCEPT !.inside = FALSE]
                                    ELSE [a EXCEPT !.thought = Append(@, p)]
          ELSE IF Kind(p) = "open" THEN [a EXCEPT !.inside = TRUE]
                                   ELSE [a EXCEPT !.answer = Append(@, p)]
    IN  FoldLeft(step, [inside |-> FALSE, thought |-> <<>>, answer |-> <<>>], s)

\* One block of a content list, split without regard to its neighbours.
SplitBlock(p) ==
    CASE Kind(p) = "block" -> [thought |-> <<p>>, answer |-> <<>>]
      [] Kind(p) = "image" -> [thought |-> <<>>, answer |-> <<>>]
      [] OTHER -> [thought |-> SplitInline(<<p>>).thought, answer |-> SplitInline(<<p>>).answer]

SplitContent(s) ==
    IF \A i \in DOMAIN s : Kind(s[i]) \in TextPieces
    THEN [thought |-> SplitInline(s).thought, answer |-> SplitInline(s).answer]
    ELSE [thought |-> FlattenSeq([i \in DOMAIN s |-> SplitBlock(s[i]).thought]),
          answer |-> FlattenSeq([i \in DOMAIN s |-> SplitBlock(s[i]).answer])]

\* split_stream_parts_from_chunk: the reasoning fields come before the content.
Split(s) == LET content == SplitContent(SelectSeq(s, LAMBDA p : Kind(p) # "field"))
            IN  [thought |-> OfKind(s, {"field"}) \o content.thought, answer |-> content.answer]

\* Mutant of AnswerText.
AnswerTextRaw(s) == s

\* answer_text_from_content
AnswerText(s) == SplitContent(SelectSeq(s, LAMBDA p : Kind(p) # "field")).answer

\* Mutant of Sanitized.
SanitizedNot(s) == s

\* Mutant of Sanitized.
SanitizedEmpty(s) == <<>>

\* sanitize_assistant_content_for_history: text loses its inline reasoning, typed
\* blocks stay as they are.
Sanitized(s) ==
    IF \A i \in DOMAIN s : Kind(s[i]) \in TextPieces THEN SplitInline(s).answer
    ELSE SelectSeq(s, LAMBDA p : Kind(p) \in {"block", "image"} \/ SplitBlock(p).answer # <<>>)

Events(s, role) == [i \in DOMAIN s |-> [piece |-> s[i], role |-> role]]

Init == /\ reply \in Replies
        /\ at = 0 /\ shown = <<>> /\ kept = <<>> /\ last = <<>>
        /\ output = <<>> /\ stored = <<>> /\ phase = "waiting"

\* A slot of the rate limit is taken, then the stream opens.
Open == /\ phase = "waiting" /\ Streams
        /\ phase' = "open"
        /\ UNCHANGED <<reply, at, shown, kept, last, output, stored>>

\* Position p lies between an opening tag and its closing one.
Inside(p) == \E o \in 1..p : /\ Kind(o) = "open"
                             /\ \A q \in o..p : Kind(q) # "close"

\* The chunks a provider may send next.
NextChunks == {Positions(at + 1, e) : e \in {e \in (at + 1)..Len(reply) : CutsThoughts \/ ~Inside(e)}}

\* Mutant of Chunk.
ChunkBackwards == /\ phase = "open"
                  /\ \E s \in NextChunks :
                       LET parts == Split(s)
                       IN  /\ at' = at + Len(s)
                           /\ shown' = Events(parts.thought, "reasoning")
                                     \o Events(parts.answer, "assistant") \o shown
                           /\ kept' = kept \o parts.answer
                           /\ last' = s
                  /\ UNCHANGED <<reply, output, stored, phase>>

\* Mutant of Chunk.
ChunkTwice == /\ phase = "open"
              /\ \E s \in NextChunks :
                   LET parts == Split(s)
                   IN  /\ at' = at + Len(s)
                       /\ shown' = shown \o Events(parts.thought, "reasoning")
                                         \o Events(parts.answer, "assistant")
                                         \o Events(parts.answer, "assistant")
                       /\ kept' = kept \o parts.answer
                       /\ last' = s
              /\ UNCHANGED <<reply, output, stored, phase>>

Chunk == /\ phase = "open"
         /\ \E s \in NextChunks :
              LET parts == Split(s)
              IN  /\ at' = at + Len(s)
                  /\ shown' = shown \o Events(parts.thought, "reasoning")
                                    \o Events(parts.answer, "assistant")
                  /\ kept' = kept \o parts.answer
                  /\ last' = s
         /\ UNCHANGED <<reply, output, stored, phase>>

\* Mutant of End.
EndWithLast == /\ phase = "open" /\ at = Len(reply)
               /\ phase' = "done"
               /\ IF Caller = "react"
                  THEN /\ stored' = Sanitized(Whole)
                       /\ output' = AnswerText(Whole)
                  ELSE stored' = last /\ output' = AnswerText(last)
               /\ UNCHANGED <<reply, at, shown, kept, last>>

\* The stream is over.  helper and direct return the parts they joined and keep the
\* last chunk as the message; react takes the message the graph put together.
End == /\ phase = "open" /\ at = Len(reply)
       /\ phase' = "done"
       /\ IF Caller = "react"
          THEN /\ stored' = Sanitized(Whole)
               /\ output' = AnswerText(Whole)
          ELSE stored' = last /\ output' = kept
       /\ UNCHANGED <<reply, at, shown, kept, last>>

\* Without a queue: ainvoke.  helper returns the content as it is.
Invoke == /\ phase = "waiting" /\ Invokes
          /\ phase' = "answered" /\ at' = Len(reply)
          /\ output' = (IF Caller = "helper" THEN SelectSeq(Whole, LAMBDA p : Kind(p) # "field")
                                             ELSE AnswerText(Whole))
          /\ stored' = (IF Caller = "react" THEN Sanitized(Whole) ELSE Whole)
          /\ UNCHANGED <<reply, shown, kept, last>>

\* asyncio.timeout: the stream is closed, what was shown stays shown.
Expire == /\ MayFail /\ phase = "open"
          /\ phase' = "failed"
          /\ UNCHANGED <<reply, at, shown, kept, last, output, stored>>

Next == Open \/ Chunk \/ End \/ Invoke \/ Expire
Spec == Init /\ [][Next]_vars

-----------------------------------------------------------------------------
Pieces(role) == LET s == SelectSeq(shown, LAMBDA e : e.role = role)
                IN  [i \in DOMAIN s |-> s[i].piece]
PiecesOf(s) == {s[i] : i \in DOMAIN s}

\* Everything refers to pieces that have been streamed, in a phase the code knows.
TypeOK == /\ phase \in {"waiting", "open", "done", "answered", "failed"} /\ at \in 0..Len(reply)
          /\ \A i \in DOMAIN shown : shown[i].piece \in 1..at /\ shown[i].role \in {"reasoning", "assistant"}
          /\ PiecesOf(kept) \cup PiecesOf(last) \cup PiecesOf(output) \cup PiecesOf(stored) \subseteq 1..at
          /\ phase \notin {"done", "answered"} => output = <<>> /\ stored = <<>>

\* Reasoning reaches the client with the role reasoning, answers with the role
\* assistant, and the tags around them not at all.
RolesAreTrue == \A i \in DOMAIN shown :
                    \/ shown[i].role = "reasoning" /\ Kind(shown[i].piece) \in Reasons
                    \/ shown[i].role = "assistant" /\ Kind(shown[i].piece) = "answer"

\* However the provider cuts its reply, every text of it that was streamed is shown
\* exactly once.
EveryTextOnce == phase # "answered" => \A p \in 1..at : Kind(p) \in Reasons \cup {"answer"} =>
                     \E i \in DOMAIN shown : /\ shown[i].piece = p
                                             /\ \A j \in DOMAIN shown : shown[j].piece = p => j = i

\* Within a role the client reads the reply in the order the model wrote it.
OrderIsKept == \A role \in {"reasoning", "assistant"} : \A i, j \in DOMAIN Pieces(role) :
                   i < j => Pieces(role)[i] < Pieces(role)[j]

\* The text a turn returns is the answer the client saw.
OutputIsShown == phase = "done" => output = Pieces("assistant")

\* The text a turn returns holds no reasoning and no tag.
OutputIsAnswer == \A i \in DOMAIN output : Kind(output[i]) = "answer"

\* No inline reasoning goes into the history the next call sends.
HistoryIsClean == phase \in {"done", "answered"} /\ Caller = "react" =>
                      \A i \in DOMAIN stored : Kind(stored[i]) \notin {"open", "close", "thought"}

\* The recorded message is the reply, its answers at least.
MessageIsReply == phase \in {"done", "answered"} => PiecesOf(AnswerText(Whole)) \subseteq PiecesOf(stored)
=============================================================================
