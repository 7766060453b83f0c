------------------------------ MODULE MC_Shown ------------------------------
(* What the client is shown: the replay of a session in the terminal, the
   events of a turn on the wire, the usage it reports and the stream of a
   reply. A behaviour runs the one component that part names; the others stay
   as they started. *)
EXTENDS AgpReplay, TLC
CONSTANTS None

\* What a chunk adds to the usage: input and output tokens.
Delta == {[f \in {"input", "output"} |-> 1],
          [f \in {"input", "output"} |-> IF f = "output" THEN 1 ELSE 0],
          [f \in {"input", "output"} |-> IF f = "output" THEN 0 ELSE 2]}
\* Replies with inline reasoning, in one span, two or none, and replies whose
\* reasoning comes in blocks or fields.
Reply == {<<"open", "thought", "thought", "close", "answer", "answer">>,
          <<"answer", "open", "thought", "close", "answer", "open", "thought", "close">>,
          <<"open", "close", "answer", "answer">>,
          <<"answer", "answer", "answer">>,
          <<"block", "block", "answer", "answer">>,
          <<"field", "field", "answer", "answer">>,
          <<"answer", "image", "answer", "block", "answer">>,
          <<"block", "answer", "block", "answer">>}

VARIABLES part, wKernel, wDone, wEvents, wTurn, wOutcome, wWire, wFilter, tPhase, tStage, tChunks,
    tTries, tRunning, tAcc, tLast, tGot, tSpent, tLedger, tShown, tResult, tTurns, rReply,
    rAt, rShown, rKept, rLast, rOutput, rStored, rPhase
wVars == <<wKernel, wDone, wEvents, wTurn, wOutcome, wWire, wFilter>>
tVars == <<tPhase, tStage, tChunks, tTries, tRunning, tAcc, tLast, tGot, tSpent, tLedger, tShown,
    tResult, tTurns>>
rVars == <<rReply, rAt, rShown, rKept, rLast, rOutput, rStored, rPhase>>
all == <<part, replaySysVars, wVars, tVars, rVars>>

OneTurn == INSTANCE TurnWire WITH
    Workers <- {"w1", "w2"}, Tools <- {}, InProcess <- FALSE, Failing <- FALSE,
    Cancels <- TRUE, Filters <- FALSE,
    kernel <- wKernel, done <- wDone, events <- wEvents, turn <- wTurn, outcome <- wOutcome,
    wire <- wWire, filter <- wFilter
Clean == INSTANCE TurnWire WITH
    Workers <- {"w1"}, Tools <- {"t1"}, InProcess <- FALSE, Failing <- FALSE,
    Cancels <- FALSE, Filters <- FALSE,
    kernel <- wKernel, done <- wDone, events <- wEvents, turn <- wTurn, outcome <- wOutcome,
    wire <- wWire, filter <- wFilter
AgpEvents == INSTANCE TurnWire WITH
    Workers <- {"w1"}, Tools <- {"t1"}, InProcess <- TRUE, Failing <- TRUE,
    Cancels <- FALSE, Filters <- FALSE,
    kernel <- wKernel, done <- wDone, events <- wEvents, turn <- wTurn, outcome <- wOutcome,
    wire <- wWire, filter <- wFilter
Filtered == INSTANCE TurnWire WITH
    Workers <- {"w1"}, Tools <- {}, InProcess <- FALSE, Failing <- TRUE, Cancels <- TRUE,
    Filters <- TRUE,
    kernel <- wKernel, done <- wDone, events <- wEvents, turn <- wTurn, outcome <- wOutcome,
    wire <- wWire, filter <- wFilter

OneCall == INSTANCE TokenAccount WITH
    Workers <- {}, Main <- "main", Deltas <- Delta, Cumulative <- TRUE, Omits <- FALSE,
    PrefersSum <- FALSE, HasQueue <- TRUE, MainMerges <- TRUE, MayFail <- FALSE,
    MaxChunks <- 3, MaxTries <- 2, MaxTurns <- 2,
    phase <- tPhase, stage <- tStage, chunks <- tChunks, tries <- tTries,
    running <- tRunning, acc <- tAcc, last <- tLast, got <- tGot, spent <- tSpent,
    ledger <- tLedger, shown <- tShown, result <- tResult, turns <- tTurns
Team == INSTANCE TokenAccount WITH
    Workers <- {"w1"}, Main <- "main", Deltas <- Delta, Cumulative <- FALSE, Omits <- FALSE,
    PrefersSum <- TRUE, HasQueue <- TRUE, MainMerges <- FALSE, MayFail <- TRUE,
    MaxChunks <- 2, MaxTries <- 2, MaxTurns <- 2,
    phase <- tPhase, stage <- tStage, chunks <- tChunks, tries <- tTries,
    running <- tRunning, acc <- tAcc, last <- tLast, got <- tGot, spent <- tSpent,
    ledger <- tLedger, shown <- tShown, result <- tResult, turns <- tTurns
Batch == INSTANCE TokenAccount WITH
    Workers <- {"w1", "w2"}, Main <- "main", Deltas <- Delta, Cumulative <- TRUE,
    Omits <- FALSE, PrefersSum <- FALSE, HasQueue <- FALSE, MainMerges <- TRUE,
    MayFail <- FALSE, MaxChunks <- 2, MaxTries <- 2, MaxTurns <- 1,
    phase <- tPhase, stage <- tStage, chunks <- tChunks, tries <- tTries,
    running <- tRunning, acc <- tAcc, last <- tLast, got <- tGot, spent <- tSpent,
    ledger <- tLedger, shown <- tShown, result <- tResult, turns <- tTurns

Direct == INSTANCE ReplyStream WITH
    Replies <- Reply, Caller <- "direct", Streams <- TRUE, Invokes <- TRUE,
    CutsThoughts <- FALSE, MayFail <- TRUE,
    reply <- rReply, at <- rAt, shown <- rShown, kept <- rKept, last <- rLast,
    output <- rOutput, stored <- rStored, phase <- rPhase
React == INSTANCE ReplyStream WITH
    Replies <- Reply, Caller <- "react", Streams <- TRUE, Invokes <- TRUE,
    CutsThoughts <- FALSE, MayFail <- TRUE,
    reply <- rReply, at <- rAt, shown <- rShown, kept <- rKept, last <- rLast,
    output <- rOutput, stored <- rStored, phase <- rPhase
Cut == INSTANCE ReplyStream WITH
    Replies <- Reply, Caller <- "direct", Streams <- TRUE, Invokes <- FALSE,
    CutsThoughts <- TRUE, MayFail <- TRUE,
    reply <- rReply, at <- rAt, shown <- rShown, kept <- rKept, last <- rLast,
    output <- rOutput, stored <- rStored, phase <- rPhase

ASSUME /\ OneCall!CallsAreKnown
       /\ Team!CallsAreKnown
       /\ Batch!CallsAreKnown

wParts == {"turn", "clean", "stream", "filtered"}
tParts == {"call", "team", "batch"}
rParts == {"direct", "react", "cut"}
AllInit == /\ part \in {"client", "turn", "clean", "stream", "filtered", "call", "team",
            "batch", "direct", "react", "cut"}
           /\ ClientInit
           /\ IF part = "clean" THEN Clean!Init ELSE IF part = "stream" THEN AgpEvents!Init
            ELSE IF part = "filtered" THEN Filtered!Init ELSE OneTurn!Init
           /\ IF part = "team" THEN Team!Init ELSE IF part = "batch" THEN Batch!Init ELSE
            OneCall!Init
           /\ IF part \in rParts THEN TRUE ELSE rReply = <<"answer", "answer", "answer">>
           /\ Direct!Init
Others ==
  /\ UNCHANGED part
  /\ IF part = "client" THEN TRUE ELSE UNCHANGED replaySysVars
  /\ IF part \in wParts THEN TRUE ELSE UNCHANGED wVars
  /\ IF part \in tParts THEN TRUE ELSE UNCHANGED tVars
  /\ IF part \in rParts THEN TRUE ELSE UNCHANGED rVars
AllNext ==
  /\ \/ part = "client" /\ ClientNext
     \/ part = "turn" /\ OneTurn!Next
     \/ part = "clean" /\ Clean!Next
     \/ part = "stream" /\ AgpEvents!Next
     \/ part = "filtered" /\ Filtered!Next
     \/ part = "call" /\ OneCall!Next
     \/ part = "team" /\ Team!Next
     \/ part = "batch" /\ Batch!Next
     \/ part = "direct" /\ Direct!Next
     \/ part = "react" /\ React!Next
     \/ part = "cut" /\ Cut!Next
  /\ Others
AllSpec ==
  /\ AllInit
  /\ [][AllNext]_all

-----------------------------------------------------------------------------
(* Properties.  Those of the terminal client are in AgpReplay; the others name *)
(* the part they are about where it is not the only one with its variables.    *)

\* Types of what is shown.
ShownTypeOK ==
  /\ ClientTypeOK /\ OneTurn!TypeOK
  /\ IF part = "team" THEN Team!TypeOK ELSE IF part = "batch" THEN Batch!TypeOK ELSE OneCall!TypeOK
  /\ Direct!TypeOK

\* A turn that was not cancelled has one reply, after all of its tokens, and one
\* idle for its busy.
TurnHasBoundary == part # "stream" => OneTurn!TurnHasBoundary
\* The rows of a turn tell how its workers went.
RowsAreTrue == part = "turn" => OneTurn!RowsAreTrue
\* A result with a text, its own or that of its direct step, is shown.
ReplyIsShown == part = "clean" => Clean!ReplyIsShown
\* What the kernel did is on the wire when the turn is over.
NothingIsMissing == part = "clean" => Clean!NothingIsMissing
\* What the turn wrote to the memory of its session is announced.
MemoryIsShown == part = "clean" => Clean!MemoryIsShown
\* A turn that went wrong says so before it is over, and no other does.
FailureIsReported == part = "stream" => AgpEvents!FailureIsReported
\* error.fatal comes before a session.closed with reason error, in process.
FatalEndsSession == part = "stream" => AgpEvents!FatalEndsSession

\* The events of a turn never add up to more than the provider counted, with one call.
NothingTwice == part = "call" => OneCall!NothingTwice
\* When the turn completes the wire agrees with result.token_usage.
WireIsResult == part = "call" => OneCall!WireIsResult
\* What the turn used is in its result.
NothingIsFree == part \in {"call", "batch"} => OneCall!NothingIsFree
\* The rollup of a turn neither repeats a report nor drops one.
LedgerIsWire == part = "team" => Team!LedgerIsWire
\* The chunks of a stream merge to what the provider counted for it.
StreamIsMerged == part = "team" => Team!StreamIsMerged

\* Reasoning reaches the client as reasoning, answers as answers, tags not at all,
\* where no chunk ends between two tags.
RolesAreTrue == part # "cut" => Direct!RolesAreTrue
\* The text a turn returns holds no reasoning and no tag.
OutputIsAnswer == part = "direct" => Direct!OutputIsAnswer
\* Within a role the client reads the reply in the order the model wrote it.
OrderIsKept == part = "react" => React!OrderIsKept
\* No inline reasoning goes into the history the next call sends.
HistoryIsClean == part = "react" => React!HistoryIsClean
\* The recorded message is the reply, its answers at least.
MessageIsReply == part = "react" => React!MessageIsReply
\* However the provider cuts its reply, every streamed text is shown exactly once.
EveryTextOnce == part = "cut" => Cut!EveryTextOnce
\* The text a turn returns is the answer the client saw.
OutputIsShown == part = "cut" => Cut!OutputIsShown

-----------------------------------------------------------------------------
(* What the run checks. *)

\* The terminal client shows the log, each message once (dispatchAgpEvent).
ClientShowsLog == NoMessageTwice /\ CatchesUpUnlessRebased
\* The wire of a turn tells what the turn did and how it ended (run_invocation and
\* translate).
TurnIsShown ==
  /\ TurnHasBoundary /\ RowsAreTrue /\ ReplyIsShown /\ NothingIsMissing /\ MemoryIsShown
  /\ FailureIsReported /\ FatalEndsSession
\* The tokens of a turn are told once each (wire_tokens).
TokensAddUp == NothingTwice /\ WireIsResult /\ NothingIsFree /\ LedgerIsWire /\ StreamIsMerged
\* The client reads the model's reply, each text once and in its role
\* (wire_stream_content).
ReplyIsRead ==
  /\ RolesAreTrue /\ OutputIsAnswer /\ OrderIsKept /\ HistoryIsClean /\ MessageIsReply
  /\ EveryTextOnce /\ OutputIsShown
=============================================================================
