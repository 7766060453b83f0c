------------------------------- MODULE MC_Kept -------------------------------
(* What outlives a turn: the event log of the runtime, the grants of the user,
   the ledger, jobs and repository of the harness, the memory of a thread, the
   scratchpad of tool outputs and the skills of an agent. A behaviour runs the one component that
   part names; the others stay as they started. *)
EXTENDS EventLog, TLC
CONSTANTS
  None,
  Users, Threads, UserOf, ToolCalls, Gated, PathScoped, Paths, Extents, Granted, Marks,
  MaxPrompts,
  Trackers, Owners, Tasks, Stepless, LedgerSetups, AllowReplan, Yields, ReadsFail, WritesFail,
  MaxVersion,
  MaxSteps, GoalAt, Resumes, Starts, StoreFails, TurnFails,
  Files, Names, GitSessions, GitSetups, MaxLog

VARIABLES part, aBridged, aCall, aTurn, aRecent, aAllow, aMarker, aFile, aConsent, lSetup, lArt, lCur, lOp, lStore,
    lDisk, lSure, lHeld, jSteps, jStored, jPc, jTurn, jOutcome, jResumes, jStarts, jDone,
    jCut, gSetup, gWork, gIndex, gLog, gTag, gPc, gPaths, gLast, gName, gTarget, gStray, gSeen,
    gHead, gMine, mStore, mDisk, mEpisodes, mOp, mLock, mAdded, mGone, pMessages, pPad,
    pSpilled, pRefs, pRequest, pCalls, sRows, sCache, sOp, sGood, sBad, sRecord, sSent,
    sBlamed, sSaves, sStarts
aVars == <<aBridged, aCall, aTurn, aRecent, aAllow, aMarker, aFile, aConsent>>
lVars == <<lSetup, lArt, lCur, lOp, lStore, lDisk, lSure, lHeld>>
jVars == <<jSteps, jStored, jPc, jTurn, jOutcome, jResumes, jStarts, jDone, jCut>>
gVars == <<gSetup, gWork, gIndex, gLog, gTag, gPc, gPaths, gLast, gName, gTarget, gStray, gSeen, gHead,
    gMine>>
mVars == <<mStore, mDisk, mEpisodes, mOp, mLock, mAdded, mGone>>
pVars == <<pMessages, pPad, pSpilled, pRefs, pRequest, pCalls>>
sVars == <<sRows, sCache, sOp, sGood, sBad, sRecord, sSent, sBlamed, sSaves, sStarts>>
all == <<part, logVars, aVars, lVars, jVars, gVars, mVars, pVars, sVars>>

Hitl == INSTANCE ToolApproval WITH
    Session <- Users, Thread <- Threads, SessionOf <- UserOf, Call <- ToolCalls,
    Tool <- Gated, Scoped <- PathScoped, Path <- Paths, Extent <- Extents,
    Legacy <- Granted, ByMarker <- Marks, MaxTurns <- MaxPrompts,
    bridged <- aBridged, call <- aCall, turn <- aTurn, recent <- aRecent, allow <- aAllow,
    marker <- aMarker, file <- aFile, consent <- aConsent

Ledger == INSTANCE HarnessLedger WITH
    Tracker <- Trackers, Session <- Owners, Task <- Tasks,
    setup <- lSetup, art <- lArt, cur <- lCur, op <- lOp, store <- lStore, disk <- lDisk,
    sure <- lSure, held <- lHeld

Jobs == INSTANCE HarnessJobs WITH
    steps <- jSteps, stored <- jStored, pc <- jPc, turn <- jTurn, outcome <- jOutcome,
    resumes <- jResumes, starts <- jStarts, done <- jDone, cut <- jCut

Git == INSTANCE GitSession WITH
    File <- Files, Name <- Names, Session <- GitSessions,
    setup <- gSetup, work <- gWork, index <- gIndex, log <- gLog, tag <- gTag, pc <- gPc,
    paths <- gPaths, last <- gLast, name <- gName, target <- gTarget, stray <- gStray,
    seen <- gSeen, head <- gHead, mine <- gMine

Turns == INSTANCE SessionMemory WITH
    Callers <- {"c1", "c2"}, Ops <- {"pop", "clear", "fail", "inject"}, MaxAdds <- 5,
    MaxTurns <- 3, Threshold <- 3, LastN <- 5, InputBudget <- 3, Chop <- 4,
    Aliases <- FALSE,
    store <- mStore, disk <- mDisk, episodes <- mEpisodes, op <- mOp, lock <- mLock,
    added <- mAdded, gone <- mGone
Mirror == INSTANCE SessionMemory WITH
    Callers <- {"c1", "c2"}, Ops <- {"pop"}, MaxAdds <- 5, MaxTurns <- 4, Threshold <- 3,
    LastN <- 5, InputBudget <- 3, Chop <- 4, Aliases <- FALSE,
    store <- mStore, disk <- mDisk, episodes <- mEpisodes, op <- mOp, lock <- mLock,
    added <- mAdded, gone <- mGone
Recap == INSTANCE SessionMemory WITH
    Callers <- {"c1", "c2"}, Ops <- {}, MaxAdds <- 4, MaxTurns <- 4, Threshold <- 3,
    LastN <- 5, InputBudget <- 3, Chop <- 4, Aliases <- FALSE,
    store <- mStore, disk <- mDisk, episodes <- mEpisodes, op <- mOp, lock <- mLock,
    added <- mAdded, gone <- mGone

Pad == INSTANCE ToolScratchpad WITH
    MaxCalls <- 4, MaxRefs <- 9, Cap <- 3, Budget <- 6, Durable <- TRUE, Recalls <- TRUE,
    messages <- pMessages, pad <- pPad, spilled <- pSpilled, refs <- pRefs,
    request <- pRequest, calls <- pCalls
InProcess == INSTANCE ToolScratchpad WITH
    MaxCalls <- 5, MaxRefs <- 10, Cap <- 3, Budget <- 7, Durable <- FALSE, Recalls <- TRUE,
    messages <- pMessages, pad <- pPad, spilled <- pSpilled, refs <- pRefs,
    request <- pRequest, calls <- pCalls

Skills == INSTANCE SkillLibrary WITH
    Skill <- {"s1", "s2"}, Text <- {"x"}, Job <- {"j1"}, Run <- {},
    UsedBy <- [r \in {} |-> "s1"], Suspends <- FALSE, MinUses <- 1, PruneAt <- 50,
    DecayAt <- 100, FewSkills <- 2, MaxSkills <- 1, MaxReports <- 1, MaxSaves <- 1,
    MaxStarts <- 1, MaxRatings <- 0,
    store <- sRows, cache <- sCache, op <- sOp, good <- sGood, bad <- sBad,
    record <- sRecord, sent <- sSent, blamed <- sBlamed, saves <- sSaves, starts <- sStarts
Ratings == INSTANCE SkillLibrary WITH
    Skill <- {"s1"}, Text <- {"x"}, Job <- {"j1", "j2"}, Run <- {"r1"},
    UsedBy <- [r \in {"r1"} |-> "s1"], Suspends <- FALSE, MinUses <- 1, PruneAt <- 50,
    DecayAt <- 100, FewSkills <- 2, MaxSkills <- 1, MaxReports <- 2, MaxSaves <- 0,
    MaxStarts <- 1, MaxRatings <- 2,
    store <- sRows, cache <- sCache, op <- sOp, good <- sGood, bad <- sBad,
    record <- sRecord, sent <- sSent, blamed <- sBlamed, saves <- sSaves, starts <- sStarts
Suspended == INSTANCE SkillLibrary WITH
    Skill <- {"s1"}, Text <- {"x"}, Job <- {"j1", "j2"}, Run <- {},
    UsedBy <- [r \in {} |-> "s1"], Suspends <- TRUE, MinUses <- 1, PruneAt <- 50,
    DecayAt <- 100, FewSkills <- 2, MaxSkills <- 1, MaxReports <- 2, MaxSaves <- 0,
    MaxStarts <- 1, MaxRatings <- 0,
    store <- sRows, cache <- sCache, op <- sOp, good <- sGood, bad <- sBad,
    record <- sRecord, sent <- sSent, blamed <- sBlamed, saves <- sSaves, starts <- sStarts

KeptAssumption ==
       /\ Hitl!ApprovalAssumption
       /\ Ledger!LedgerAssumption
       /\ Jobs!JobAssumption
       /\ Git!GitAssumption
       /\ Skills!LibraryAssumption
       /\ Ratings!LibraryAssumption
       /\ Suspended!LibraryAssumption

ASSUME KeptAssumption

\* What the run gives the constants that are functions or sequences.
OwnSession == [t \in Threads |-> "s"]
DirAndFile == {<<"dir">>, <<"dir", "file">>}
\* An agent that plans and reports, and two trackers that add tasks.
LedgerUses ==
  {[trackers |-> {"a"}, adhoc |-> {2, 3}, plan |-> <<1, 3>>,
    reports |-> {"pending", "in_progress", "passing", "failing", "skipped"}],
   [trackers |-> {"a", "b"}, adhoc |-> {1, 2}, plan |-> <<>>, reports |-> {}]}
\* One session that nobody disturbs, and two that share the repository with a shell.
GitUses ==
  {[sessions |-> {"s1"}, files |-> {"f1", "f2"}, edits |-> 2, shell |-> FALSE,
    stages |-> FALSE, slow |-> FALSE],
   [sessions |-> {"s1", "s2"}, files |-> {"f1"}, edits |-> 1, shell |-> TRUE,
    stages |-> TRUE, slow |-> TRUE]}

mParts == {"turns", "mirror", "recap"}
pParts == {"pad", "process"}
sParts == {"skills", "ratings", "suspended"}
\* The sessions of the event log are interchangeable.
Symmetry == Permutations(Session)
One(S) == CHOOSE s \in S : TRUE
AllInit == /\ part \in {"log", "hitl", "ledger", "jobs", "git", "turns", "mirror", "recap", "pad",
                       "process"} \cup sParts
           /\ Init
           /\ Hitl!Init /\ (part # "hitl" => aBridged)
           /\ (part # "ledger" => lSetup = One(LedgerSetups)) /\ Ledger!Init
           /\ Jobs!Init
           /\ (part # "git" => gSetup = One(GitSetups)) /\ Git!Init
           /\ IF part = "mirror" THEN Mirror!Init ELSE IF part = "recap" THEN Recap!Init
            ELSE Turns!Init
           /\ Pad!Init
           /\ IF part = "skills" THEN Skills!Init ELSE IF part = "suspended" THEN Suspended!Init
            ELSE Ratings!Init /\ (part # "ratings" => sRows["global"]["s1"] = None)
Others ==
  /\ UNCHANGED part
  /\ IF part = "log" THEN TRUE ELSE UNCHANGED logVars
  /\ IF part = "hitl" THEN TRUE ELSE UNCHANGED aVars
  /\ IF part = "ledger" THEN TRUE ELSE UNCHANGED lVars
  /\ IF part = "jobs" THEN TRUE ELSE UNCHANGED jVars
  /\ IF part = "git" THEN TRUE ELSE UNCHANGED gVars
  /\ IF part \in mParts THEN TRUE ELSE UNCHANGED mVars
  /\ IF part \in pParts THEN TRUE ELSE UNCHANGED pVars
  /\ IF part \in sParts THEN TRUE ELSE UNCHANGED sVars
AllNext ==
  /\ \/ part = "log" /\ Next
     \/ part = "hitl" /\ Hitl!Next
     \/ part = "ledger" /\ Ledger!Next
     \/ part = "jobs" /\ Jobs!Next
     \/ part = "git" /\ Git!Next
     \/ part = "turns" /\ Turns!Next
     \/ part = "mirror" /\ Mirror!Next
     \/ part = "recap" /\ Recap!Next
     \/ part = "pad" /\ Pad!Next
     \/ part = "process" /\ InProcess!Next
     \/ part = "skills" /\ Skills!Next
     \/ part = "ratings" /\ Ratings!Next
     \/ part = "suspended" /\ Suspended!Next
  /\ Others
AllSpec ==
  /\ AllInit
  /\ [][AllNext]_all

-----------------------------------------------------------------------------
(* Properties.  Those of the event log are in EventLog; the others name the part *)
(* they are about where it is not the only one with its variables.               *)

\* Types of what is kept.
KeptTypeOK ==
  CASE part = "log" -> TypeOK
    [] part = "hitl" -> Hitl!TypeOK
    [] part = "ledger" -> Ledger!TypeOK
    [] part = "jobs" -> Jobs!TypeOK
    [] part = "git" -> Git!TypeOK
    [] part = "turns" -> Turns!TypeOK
    [] part \in {"mirror", "recap"} -> Mirror!TypeOK
    [] part = "pad" -> Pad!TypeOK
    [] part = "process" -> InProcess!TypeOK
    [] part = "skills" -> Skills!TypeOK
    [] part = "ratings" -> Ratings!TypeOK
    [] part = "suspended" -> Suspended!TypeOK

\* Whatever runs has the user's consent, for this call or for one that covers it,
\* through restarts and windows that pass (awrap_tool_call).
RunsHaveConsent == part = "hitl" => Hitl!RunsHaveConsent
\* A prompt is skipped only after an Accept of the same turn, where a session has
\* one thread.
SkipWithinTurn ==
  part = "hitl" /\ (\A t, u \in Threads : UserOf[t] = UserOf[u] => t = u) => Hitl!SkipWithinTurn
\* What was allowlisted is there after a restart, where grants are kept in the
\* session marker (docs/features/hitl-allowlist.md).
GrantsSurviveRestart == [][aBridged /\ Marks => Hitl!GrantsStay]_all

\* A task that add_task returned is in the store, with one tracker and a store that
\* does not fail.
AddedIsStored ==
  (\A t, u \in lSetup.trackers : t = u) /\ ~ReadsFail /\ ~WritesFail => Ledger!AddedIsStored
\* passing stands for verified steps.
PassingIsVerified == Ledger!PassingIsVerified
\* What a tracker saved stays stored, where a store operation lets nobody else run and
\* does not fail.
SavedIsNotLost == [][~Yields /\ ~ReadsFail /\ ~WritesFail => Ledger!SaveStays]_all
\* The stored version only grows, where nobody else runs and reads do not fail.
RevisionGrows == [][~Yields /\ ~ReadsFail => Ledger!VersionGrows]_all

\* A runner repeats at most the turn that was not committed when it started, where
\* the store does not fail.
OneTurnIsRepeated == ~StoreFails => Jobs!OneTurnIsRepeated
\* The log never exceeds max_steps.
LogIsBounded == Jobs!LogIsBounded
\* A runner counts its turns on from the log.
TurnFollowsLog == Jobs!TurnFollowsLog
\* A run that was resumed starts from the log the resume cut back, where the store
\* does not fail.
ResumeGoesBack == [][~StoreFails => Jobs!BackToLog]_all

\* A commit holds the paths it staged, as status saw them.
CommitIsWhole == Git!CommitIsWhole
\* The hash that commit returns is of the commit it made, and a checkpoint marks what
\* was committed when it was asked for, or later: where nobody else commits.
Alone == (\A s, r \in gSetup.sessions : s = r) /\ ~gSetup.shell /\ ~gSetup.slow
HashIsOwn == Alone => Git!HashIsOwn
CheckpointIsCurrent == Alone => Git!CheckpointIsCurrent
\* The tag of a checkpoint stays where it is, unless it is removed first.
CheckpointsStay == [][Alone => Git!TagsStay]_all

\* A turn that was added is in the thread, in a summary, or was given up on purpose.
NoTurnIsLost == part \in mParts => Turns!NoTurnIsLost
\* The thread keeps the order its turns were added in.
TurnsAreInOrder == part \in mParts => Turns!TurnsAreInOrder
\* The newest turn is never summarized with the oldest.
NewestIsIntact == Turns!NewestIsIntact
\* The marker file shows the thread as it is, where nothing clears it or fails.
DiskFollows == part = "mirror" => Mirror!DiskFollows
\* What a turn refers to survives its summary, where the recap is not compressed.
RefsSurvive == part = "recap" => Recap!RefsSurvive

\* What the model is shown a reference of can be loaded.
PayloadIsThere == part = "pad" => Pad!PayloadIsThere
\* Every answer stays in the conversation, in full or by name.
AnswersStay == part \in pParts => Pad!AnswersStay
\* The scratchpad keeps at most _MAX_ARTIFACTS, where nothing is loaded back.
CapHolds == part = "process" => InProcess!CapHolds

\* However updates are interleaved, no skill that failed too often stays active.
TrustIsEarned ==
  /\ part = "skills" => Skills!TrustIsEarned
  /\ part = "ratings" => Ratings!TrustIsEarned
  /\ part = "suspended" => Suspended!TrustIsEarned
\* A row never counts more than was reported, whichever copies are written back.
CountsAreReported ==
  /\ part = "skills" => Skills!CountsAreReported
  /\ part \in {"ratings", "suspended"} => Ratings!CountsAreReported
\* A rating counts as one failure, though the store and the handler apply it.
BlamedOnce == part = "ratings" => Ratings!BlamedOnce
\* What a worker loads is what the store holds, where the store does not suspend.
CacheIsFresh == part = "skills" => Skills!CacheIsFresh
\* What was archived comes back only by being saved again, where the store does
\* not suspend.
ArchivedStays == [][part = "skills" => Skills!ArchivedStays]_all
\* The version of a skill only grows, where the store does not suspend.
VersionGrows == [][part = "skills" => Skills!VersionGrows]_all
\* A rating that was applied is not lost to the evaluation.
RatingStays == [][part = "ratings" => Ratings!RatingStays]_all

-----------------------------------------------------------------------------
(* What the run checks. *)

\* Whatever ran had consent, and no prompt was skipped without one
\* (awrap_tool_call and its coalescer).
ConsentHolds == RunsHaveConsent /\ SkipWithinTurn
\* The harness keeps what it was told and says of it what is so: ledger, job log and
\* repository.
HarnessIsHonest ==
  /\ AddedIsStored /\ PassingIsVerified
  /\ OneTurnIsRepeated /\ LogIsBounded /\ TurnFollowsLog
  /\ CommitIsWhole /\ HashIsOwn /\ CheckpointIsCurrent
\* The context of a turn is whole and stays so: the thread's turns in their order, the
\* newest one in full, their references, the tool outputs it names, and skills that may
\* be trusted, whose state, versions and ratings are not taken back.
ContextIsWhole ==
  /\ [](/\ NoTurnIsLost /\ TurnsAreInOrder /\ DiskFollows /\ RefsSurvive
        /\ PayloadIsThere /\ AnswersStay /\ CapHolds
        /\ TrustIsEarned /\ CountsAreReported /\ BlamedOnce /\ CacheIsFresh)
  /\ NewestIsIntact /\ ArchivedStays /\ VersionGrows /\ RatingStays
\* What was granted or saved stays: grants through a restart, artifacts and their
\* revisions in the store, the log that a resume cut back, tags.
KeptStays ==
  /\ GrantsSurviveRestart /\ SavedIsNotLost /\ RevisionGrows
  /\ ResumeGoesBack /\ CheckpointsStay
=============================================================================
