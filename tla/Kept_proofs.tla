------------------------------ MODULE Kept_proofs ------------------------------
(***************************************************************************)
(* Proofs about what outlives a turn, as MC_Kept has it, for every value   *)
(* of the constants and every set-up: which tool calls run, the jobs, the  *)
(* task ledger and the repository of the harness.                          *)
(***************************************************************************)
EXTENDS MC_Kept, SequenceTheorems, NaturalsInduction, WellFoundedInduction, TLAPS

-----------------------------------------------------------------------------
(* Which tool calls run (ToolApproval). *)

\* A request of a tool, a call that was made of it, and what the user said yes to.
Asked == [thread : Threads, turn : 1..MaxPrompts, tool : Gated, path : Paths, extent : Extents]
Made == [status : {"asking", "ran", "aborted"},
         by : {"nothing", "allowlist", "coalesced", "answer"}, thread : Threads,
         turn : 1..MaxPrompts, tool : Gated, path : Paths, extent : Extents]
Said == [kind : {"once", "path", "tool"}, thread : Threads, turn : 1..MaxPrompts,
         tool : Gated, path : Paths, extent : Extents]
Inherited == [kind : {"tool"}, tool : Gated]
Policies == [tools : SUBSET Gated, paths : SUBSET (PathScoped \X Paths)]

HitlTypes ==
  /\ aBridged \in BOOLEAN
  /\ aCall \in [ToolCalls -> {[status |-> "new"]} \cup Made]
  /\ aTurn \in [Threads -> 0..MaxPrompts]
  /\ aRecent \in [Users -> SUBSET Asked]
  /\ aAllow \in [Users -> Policies] /\ aMarker \in [Users -> Policies]
  /\ aFile \in SUBSET Gated
  /\ aConsent \in SUBSET (Said \cup Inherited)

\* The consents G grant each tool of T, and each path of P.
ToolsMeant(T, G) == \A x \in T : \E g \in G : g.kind = "tool" /\ g.tool = x
PathsMeant(P, G) ==
  \A x \in P : \E g \in G : g \in Said /\ g.kind = "path" /\ g.tool = x[1] /\ g.path = x[2]
PolicyMeant(p, G) == ToolsMeant(p.tools, G) /\ PathsMeant(p.paths, G)

\* What the allowlists, the markers and the file hold was granted.
GrantsAreMeant ==
  /\ \A s \in Users : PolicyMeant(aAllow[s], aConsent) /\ PolicyMeant(aMarker[s], aConsent)
  /\ ToolsMeant(aFile, aConsent)

\* An open question is of the turn its thread is in.
QuestionsAreCurrent ==
  \A c \in ToolCalls : aCall[c].status = "asking" => aCall[c].turn = aTurn[aCall[c].thread]

\* An Accept that covers the call r.
AcceptOf(g, r) ==
  /\ g \in Said /\ g.kind \in {"once", "path"} /\ g.tool = r.tool /\ g.path = r.path
  /\ g.thread = r.thread /\ g.turn = r.turn /\ g.extent = r.extent

\* What is coalesced was accepted in the turn its thread is still in.
RecentIsMeant ==
  \A s \in Users : \A a \in aRecent[s] :
    /\ UserOf[a.thread] = s /\ a.tool = "read_file" /\ a.turn = aTurn[a.thread]
    /\ \E g \in aConsent : AcceptOf(g, a)

\* The consent g stands for the call c.
Vouches(g, c) ==
  \/ g.kind = "tool" /\ g.tool = c.tool
  \/ g \in Said /\ g.kind = "path" /\ g.tool = c.tool /\ Hitl!IsPrefix(g.path, c.path)
  \/ /\ g \in Said /\ g.kind = "once" /\ g.tool = c.tool /\ Hitl!Covers(g, c)
     /\ UserOf[g.thread] = UserOf[c.thread]
     /\ g.thread = c.thread => g.turn = c.turn
RanIsMeant ==
  \A c \in ToolCalls : aCall[c].status = "ran" => \E g \in aConsent : Vouches(g, aCall[c])

\* A call that was not asked for follows an Accept of the session, where the session
\* has one thread an Accept of its turn.
SkipIsMeant ==
  \A c \in ToolCalls : aCall[c].status = "ran" /\ aCall[c].by = "coalesced" =>
    \E g \in aConsent : /\ g \in Said /\ g.kind \in {"once", "path"} /\ Hitl!Covers(g, aCall[c])
                        /\ UserOf[g.thread] = UserOf[aCall[c].thread]
                        /\ g.thread = aCall[c].thread => g.turn = aCall[c].turn

HitlInv ==
  /\ HitlTypes /\ GrantsAreMeant /\ QuestionsAreCurrent /\ RecentIsMeant
  /\ RanIsMeant /\ SkipIsMeant

-----------------------------------------------------------------------------
LEMMA OwnPrefix == ASSUME NEW p \in Seq(STRING) PROVE Hitl!IsPrefix(p, p)
<1>1. Len(p) \in Nat
  OBVIOUS
<1> QED BY <1>1 DEF Hitl!IsPrefix

\* What an open call is, and that it becomes one that ran or was aborted.
LEMMA AskingIsMade ==
  ASSUME HitlTypes, NEW c \in ToolCalls, aCall[c].status # "new"
  PROVE  aCall[c] \in Made
<1>1. aCall[c] \in {[status |-> "new"]} \cup Made
  BY DEF HitlTypes
<1> QED BY <1>1

LEMMA AbortedIsMade ==
  ASSUME NEW r \in Made
  PROVE  /\ [r EXCEPT !.status = "aborted"] \in Made
         /\ [r EXCEPT !.status = "aborted"].status = "aborted"
BY DEF Made

LEMMA InitHitl == KeptAssumption /\ Hitl!Init => HitlInv
<1> SUFFICES ASSUME KeptAssumption, Hitl!Init PROVE HitlInv
  OBVIOUS
<1> USE DEF Hitl!Init, KeptAssumption, Hitl!ApprovalAssumption
<1>1. \A c \in ToolCalls : aCall[c].status = "new"
  BY DEF Hitl!Fresh
<1>2. Hitl!Nothing \in Policies /\ [Hitl!Nothing EXCEPT !.tools = Granted] \in Policies
  BY DEF Hitl!Nothing, Policies
<1>3. aConsent \in SUBSET Inherited
  BY DEF Inherited
<1>4. HitlTypes
  <2>1. aCall \in [ToolCalls -> {[status |-> "new"]} \cup Made]
    BY DEF Hitl!Fresh
  <2>2. aTurn \in [Threads -> 0..MaxPrompts]
    BY SMT
  <2>3. aRecent \in [Users -> SUBSET Asked]
    OBVIOUS
  <2>4. aAllow \in [Users -> Policies] /\ aMarker \in [Users -> Policies]
    BY <1>2
  <2> QED BY <2>1, <2>2, <2>3, <2>4, <1>3 DEF HitlTypes
<1>5. ToolsMeant(Granted, aConsent)
  <2>1. ASSUME NEW x \in Granted PROVE \E g \in aConsent : g.kind = "tool" /\ g.tool = x
    <3> DEFINE g == [kind |-> "tool", tool |-> x]
    <3>1. g \in aConsent /\ g.kind = "tool" /\ g.tool = x
      OBVIOUS
    <3> QED BY <3>1
  <2> QED BY <2>1 DEF ToolsMeant
<1>6. \A s \in Users : PolicyMeant(aAllow[s], aConsent) /\ PolicyMeant(aMarker[s], aConsent)
  <2>1. PolicyMeant(Hitl!Nothing, aConsent)
    BY DEF PolicyMeant, ToolsMeant, PathsMeant, Hitl!Nothing
  <2>2. PolicyMeant([Hitl!Nothing EXCEPT !.tools = Granted], aConsent)
    BY <1>5 DEF PolicyMeant, PathsMeant, Hitl!Nothing
  <2> QED BY <2>1, <2>2
<1>7. GrantsAreMeant
  BY <1>5, <1>6 DEF GrantsAreMeant
<1>8. RecentIsMeant
  BY DEF RecentIsMeant
<1> QED BY <1>1, <1>4, <1>7, <1>8
  DEF HitlInv, QuestionsAreCurrent, RanIsMeant, SkipIsMeant

-----------------------------------------------------------------------------
(* What a step that takes no consent back leaves true. *)

LEMMA MeantStays ==
  ASSUME NEW G, NEW H, G \subseteq H, NEW p, PolicyMeant(p, G)
  PROVE  PolicyMeant(p, H)
BY DEF PolicyMeant, ToolsMeant, PathsMeant

\* The calls that ran are those that had run, and what they rest on stays.
LEMMA RanStays ==
  ASSUME RanIsMeant, SkipIsMeant, aConsent \subseteq aConsent',
         \A c \in ToolCalls : aCall'[c].status = "ran" => aCall'[c] = aCall[c]
  PROVE  RanIsMeant' /\ SkipIsMeant'
<1>1. ASSUME NEW c \in ToolCalls, aCall'[c].status = "ran"
      PROVE  \E g \in aConsent' : Vouches(g, aCall'[c])
  <2>1. aCall'[c] = aCall[c] /\ aCall[c].status = "ran"
    BY <1>1
  <2>2. PICK g \in aConsent : Vouches(g, aCall[c])
    BY <2>1 DEF RanIsMeant
  <2> QED BY <2>1, <2>2
<1>2. ASSUME NEW c \in ToolCalls, aCall'[c].status = "ran", aCall'[c].by = "coalesced"
      PROVE  \E g \in aConsent' :
               /\ g \in Said /\ g.kind \in {"once", "path"} /\ Hitl!Covers(g, aCall'[c])
               /\ UserOf[g.thread] = UserOf[aCall'[c].thread]
               /\ g.thread = aCall'[c].thread => g.turn = aCall'[c].turn
  <2>1. aCall'[c] = aCall[c] /\ aCall[c].status = "ran"
    BY <1>2
  <2> QED BY <2>1, <1>2 DEF SkipIsMeant
<1>3. RanIsMeant'
  BY <1>1 DEF RanIsMeant, Vouches
<1>4. SkipIsMeant'
  BY <1>2 DEF SkipIsMeant, Hitl!Covers
<1> QED BY <1>3, <1>4

\* What the grants and the session's approvals rest on stays, where they are the same.
LEMMA GrantsStayMeant ==
  ASSUME GrantsAreMeant, aConsent \subseteq aConsent', UNCHANGED <<aAllow, aMarker, aFile>>
  PROVE  GrantsAreMeant'
<1>1. ToolsMeant(aFile, aConsent)'
  <2>1. ToolsMeant(aFile, aConsent)
    BY DEF GrantsAreMeant
  <2> QED BY <2>1 DEF ToolsMeant
<1>2. ASSUME NEW s \in Users
      PROVE  PolicyMeant(aAllow[s], aConsent)' /\ PolicyMeant(aMarker[s], aConsent)'
  <2>1. PolicyMeant(aAllow[s], aConsent) /\ PolicyMeant(aMarker[s], aConsent)
    BY DEF GrantsAreMeant
  <2> QED BY <2>1 DEF PolicyMeant, ToolsMeant, PathsMeant
<1> QED BY <1>1, <1>2 DEF GrantsAreMeant

LEMMA NewPromptMeant ==
  ASSUME KeptAssumption, HitlInv, NEW t \in Threads, Hitl!NewPrompt(t)
  PROVE  HitlInv'
<1> USE DEF Hitl!NewPrompt
<1>1. HitlTypes /\ UserOf \in [Threads -> Users] /\ MaxPrompts \in Nat
  BY DEF HitlInv, KeptAssumption, Hitl!ApprovalAssumption
<1>2. \A c \in ToolCalls : aCall[c].status = "asking" => aCall[c] \in Made
  BY <1>1, AskingIsMade
<1>3. aTurn' \in [Threads -> 0..MaxPrompts]
  <2>1. aTurn[t] \in 0..MaxPrompts /\ aTurn[t] + 1 \in 0..MaxPrompts
    BY <1>1 DEF HitlTypes
  <2> QED BY <2>1, <1>1 DEF HitlTypes
<1>4. aCall' \in [ToolCalls -> {[status |-> "new"]} \cup Made]
  <2>1. ASSUME NEW c \in ToolCalls
        PROVE  (IF aCall[c].status = "asking" /\ aCall[c].thread = t
                THEN [aCall[c] EXCEPT !.status = "aborted"] ELSE aCall[c])
                 \in {[status |-> "new"]} \cup Made
    <3>1. CASE aCall[c].status = "asking" /\ aCall[c].thread = t
      BY <3>1, <1>2, AbortedIsMade
    <3>2. CASE ~(aCall[c].status = "asking" /\ aCall[c].thread = t)
      BY <3>2, <1>1 DEF HitlTypes
    <3> QED BY <3>1, <3>2
  <2> QED BY <2>1
<1>5. HitlTypes'
  <2>1. aRecent' \in [Users -> SUBSET Asked]
    BY <1>1 DEF HitlTypes
  <2> QED BY <2>1, <1>1, <1>3, <1>4 DEF HitlTypes
<1>6. \A c \in ToolCalls : aCall'[c].status # "aborted" =>
        aCall'[c] = aCall[c] /\ ~(aCall[c].status = "asking" /\ aCall[c].thread = t)
  BY <1>2, AbortedIsMade
<1>7. GrantsAreMeant'
  BY GrantsStayMeant DEF HitlInv
<1>8. QuestionsAreCurrent'
  <2>1. ASSUME NEW c \in ToolCalls, aCall'[c].status = "asking"
        PROVE  aCall'[c].turn = aTurn'[aCall'[c].thread]
    <3>1. aCall'[c] = aCall[c] /\ aCall[c].thread # t
      BY <2>1, <1>6
    <3>2. aCall[c] \in Made /\ aCall[c].turn = aTurn[aCall[c].thread]
      BY <3>1, <2>1, <1>2 DEF HitlInv, QuestionsAreCurrent
    <3> QED BY <3>1, <3>2, <1>1 DEF Made, HitlTypes
  <2> QED BY <2>1 DEF QuestionsAreCurrent
<1>9. RecentIsMeant'
  <2>1. ASSUME NEW s \in Users, NEW a \in aRecent'[s]
        PROVE  /\ UserOf[a.thread] = s /\ a.tool = "read_file" /\ a.turn = aTurn'[a.thread]
               /\ \E g \in aConsent : AcceptOf(g, a)
    <3>1. s # UserOf[t] /\ a \in aRecent[s] /\ a \in Asked
      BY <1>1 DEF HitlTypes
    <3>2. /\ UserOf[a.thread] = s /\ a.tool = "read_file" /\ a.turn = aTurn[a.thread]
          /\ \E g \in aConsent : AcceptOf(g, a)
      BY <3>1 DEF HitlInv, RecentIsMeant
    <3>3. a.thread # t /\ a.thread \in Threads
      BY <3>1, <3>2 DEF Asked
    <3>4. aTurn'[a.thread] = aTurn[a.thread]
      BY <3>3, <1>1 DEF HitlTypes
    <3> QED BY <3>2, <3>4
  <2> QED BY <2>1 DEF RecentIsMeant
<1>10. RanIsMeant' /\ SkipIsMeant'
  BY <1>6, RanStays DEF HitlInv
<1> QED BY <1>5, <1>7, <1>8, <1>9, <1>10 DEF HitlInv

LEMMA PruneMeant ==
  ASSUME HitlInv, NEW s \in Users, Hitl!Prune(s)
  PROVE  HitlInv'
<1> USE DEF Hitl!Prune
<1>1. PICK a \in aRecent[s] : aRecent' = [aRecent EXCEPT ![s] = @ \ {a}]
  OBVIOUS
<1>2. HitlTypes /\ \A u \in Users : aRecent'[u] \subseteq aRecent[u]
  BY <1>1 DEF HitlInv, HitlTypes
<1>3. HitlTypes'
  <2>1. aRecent' \in [Users -> SUBSET Asked]
    BY <1>1, <1>2 DEF HitlTypes
  <2> QED BY <2>1, <1>2 DEF HitlTypes
<1>4. RecentIsMeant'
  BY <1>2 DEF HitlInv, RecentIsMeant
<1>5. GrantsAreMeant'
  BY GrantsStayMeant DEF HitlInv
<1>6. RanIsMeant' /\ SkipIsMeant'
  BY RanStays DEF HitlInv
<1>7. QuestionsAreCurrent'
  BY DEF HitlInv, QuestionsAreCurrent
<1> QED BY <1>3, <1>4, <1>5, <1>6, <1>7 DEF HitlInv

LEMMA RestartMeant ==
  ASSUME KeptAssumption, HitlInv, NEW s \in Users, Hitl!Restart(s)
  PROVE  HitlInv'
<1> USE DEF Hitl!Restart
<1>1. HitlTypes /\ Granted \subseteq Gated
  BY DEF HitlInv, KeptAssumption, Hitl!ApprovalAssumption
<1>2. \A c \in ToolCalls : aCall[c].status = "asking" => aCall[c] \in Made
  BY <1>1, AskingIsMade
<1>3. aCall' \in [ToolCalls -> {[status |-> "new"]} \cup Made]
  <2>1. ASSUME NEW c \in ToolCalls
        PROVE  (IF aCall[c].status = "asking" /\ UserOf[aCall[c].thread] = s
                THEN [aCall[c] EXCEPT !.status = "aborted"] ELSE aCall[c])
                 \in {[status |-> "new"]} \cup Made
    <3>1. CASE aCall[c].status = "asking" /\ UserOf[aCall[c].thread] = s
      BY <3>1, <1>2, AbortedIsMade
    <3>2. CASE ~(aCall[c].status = "asking" /\ UserOf[aCall[c].thread] = s)
      BY <3>2, <1>1 DEF HitlTypes
    <3> QED BY <3>1, <3>2
  <2> QED BY <2>1
<1>4. Hitl!Loaded(s) \in Policies /\ PolicyMeant(Hitl!Loaded(s), aConsent)
  <2>1. aMarker[s] \in Policies /\ PolicyMeant(aMarker[s], aConsent)
    BY <1>1 DEF HitlInv, HitlTypes, GrantsAreMeant
  <2>2. [Hitl!Nothing EXCEPT !.tools = aFile] \in Policies
    BY <1>1 DEF Hitl!Nothing, Policies, HitlTypes
  <2>3. ToolsMeant(aFile, aConsent)
    BY DEF HitlInv, GrantsAreMeant
  <2>4. PolicyMeant([Hitl!Nothing EXCEPT !.tools = aFile], aConsent)
    BY <2>3 DEF PolicyMeant, PathsMeant, Hitl!Nothing
  <2> QED BY <2>1, <2>2, <2>4 DEF Hitl!Loaded
<1>5. HitlTypes'
  <2>1. aRecent' \in [Users -> SUBSET Asked]
    BY <1>1 DEF HitlTypes
  <2>2. aAllow' \in [Users -> Policies]
    BY <1>1, <1>4 DEF HitlTypes
  <2> QED BY <2>1, <2>2, <1>1, <1>3 DEF HitlTypes
<1>6. GrantsAreMeant'
  <2>1. \A u \in Users : PolicyMeant(aAllow'[u], aConsent) /\ PolicyMeant(aMarker[u], aConsent)
    BY <1>1, <1>4 DEF HitlInv, HitlTypes, GrantsAreMeant
  <2>2. ToolsMeant(aFile, aConsent)
    BY DEF HitlInv, GrantsAreMeant
  <2> QED BY <2>1, <2>2 DEF GrantsAreMeant, PolicyMeant, ToolsMeant, PathsMeant
<1>7. \A c \in ToolCalls : aCall'[c].status # "aborted" => aCall'[c] = aCall[c]
  BY <1>2, AbortedIsMade
<1>8. QuestionsAreCurrent'
  BY <1>7 DEF HitlInv, QuestionsAreCurrent
<1>9. RecentIsMeant'
  BY <1>1 DEF HitlInv, HitlTypes, RecentIsMeant
<1>10. RanIsMeant' /\ SkipIsMeant'
  BY <1>7, RanStays DEF HitlInv
<1> QED BY <1>5, <1>6, <1>8, <1>9, <1>10 DEF HitlInv

\* What a call is asked of.
LEMMA RequestIsAsked ==
  ASSUME NEW c \in ToolCalls, aCall[c] \in Made
  PROVE  /\ Hitl!Request(c) \in Asked /\ Hitl!Request(c).tool = aCall[c].tool
         /\ Hitl!Request(c).thread = aCall[c].thread /\ Hitl!Request(c).turn = aCall[c].turn
         /\ \A k \in {"once", "path", "tool"} :
              Hitl!Given(aCall[c], k) \in Said /\ Hitl!Given(aCall[c], k).kind = k
         /\ \A k \in {"once", "path"} : AcceptOf(Hitl!Given(aCall[c], k), Hitl!Request(c))
<1>1. Hitl!Request(c) \in Asked
  BY DEF Made, Asked, Hitl!Request
<1>2. \A k \in {"once", "path", "tool"} : Hitl!Given(aCall[c], k) \in Said
  BY DEF Made, Said, Hitl!Given
<1> QED BY <1>1, <1>2 DEF AcceptOf, Hitl!Given, Hitl!Request

LEMMA AbortMeant ==
  ASSUME HitlInv, NEW c \in ToolCalls, aCall[c].status = "asking", Hitl!Abort(c),
         UNCHANGED <<aBridged, aTurn>>
  PROVE  HitlInv'
<1> USE DEF Hitl!Abort
<1>1. HitlTypes /\ aCall[c] \in Made
  BY AskingIsMade DEF HitlInv
<1>2. aCall' = [aCall EXCEPT ![c] = [aCall[c] EXCEPT !.status = "aborted"]]
  OBVIOUS
<1>3. /\ aCall' \in [ToolCalls -> {[status |-> "new"]} \cup Made]
      /\ \A d \in ToolCalls : aCall'[d].status # "aborted" => aCall'[d] = aCall[d]
  <2> HIDE DEF Hitl!Abort
  <2> QED BY <1>1, <1>2, AbortedIsMade DEF HitlTypes
<1>4. HitlTypes'
  BY <1>1, <1>3 DEF HitlTypes
<1>5. GrantsAreMeant'
  BY GrantsStayMeant DEF HitlInv
<1>6. QuestionsAreCurrent'
  BY <1>3 DEF HitlInv, QuestionsAreCurrent
<1>7. RecentIsMeant'
  BY DEF HitlInv, RecentIsMeant
<1>8. RanIsMeant' /\ SkipIsMeant'
  BY <1>3, RanStays DEF HitlInv
<1> QED BY <1>4, <1>5, <1>6, <1>7, <1>8 DEF HitlInv

\* A call that the user said yes to, with what is kept of it apart from the grants.
Answered(c) == [aCall[c] EXCEPT !.status = "ran", !.by = "answer"]

LEMMA AnsweredRuns ==
  ASSUME NEW c \in ToolCalls, aCall[c] \in Made, aCall[c].path \in Seq(STRING),
         aCall[c].extent \in Nat,
         NEW k \in {"once", "path", "tool"}
  PROVE  /\ Answered(c) \in Made /\ Answered(c).status = "ran" /\ Answered(c).by = "answer"
         /\ Vouches(Hitl!Given(aCall[c], k), Answered(c))
<1> DEFINE a == Answered(c)
           g == Hitl!Given(aCall[c], k)
<1>1. /\ a \in Made /\ a.status = "ran" /\ a.by = "answer" /\ a.tool = aCall[c].tool
      /\ a.path = aCall[c].path /\ a.extent = aCall[c].extent /\ a.thread = aCall[c].thread
      /\ a.turn = aCall[c].turn
  BY DEF Made, Answered
<1>2. /\ g \in Said /\ g.kind = k /\ g.tool = aCall[c].tool /\ g.path = aCall[c].path
      /\ g.thread = aCall[c].thread /\ g.turn = aCall[c].turn /\ g.extent = aCall[c].extent
  BY DEF Made, Said, Hitl!Given
<1>3. Hitl!IsPrefix(g.path, a.path)
  BY <1>1, <1>2, OwnPrefix
<1>4. Hitl!Covers(g, a)
  BY <1>1, <1>2 DEF Hitl!Covers
<1> HIDE DEF a, g
<1>5. Vouches(g, a)
  BY <1>1, <1>2, <1>3, <1>4 DEF Vouches
<1> QED BY <1>1, <1>5 DEF a, g

\* The calls and the consents after the user said yes to c.
LEMMA AnswerRuns ==
  ASSUME KeptAssumption, HitlInv, NEW c \in ToolCalls, aCall[c].status = "asking",
         NEW k \in {"once", "path", "tool"},
         aCall' = [aCall EXCEPT ![c] = Answered(c)],
         aConsent' = aConsent \cup {Hitl!Given(aCall[c], k)}, UNCHANGED aTurn
  PROVE  /\ aCall' \in [ToolCalls -> {[status |-> "new"]} \cup Made]
         /\ aConsent' \in SUBSET (Said \cup Inherited)
         /\ QuestionsAreCurrent' /\ RanIsMeant' /\ SkipIsMeant'
<1>1. HitlTypes /\ aCall[c] \in Made
  BY AskingIsMade DEF HitlInv
<1>2. aCall[c].path \in Seq(STRING) /\ aCall[c].extent \in Nat
  BY <1>1 DEF Made, KeptAssumption, Hitl!ApprovalAssumption
<1> DEFINE g == Hitl!Given(aCall[c], k)
           r == Answered(c)
<1>3. r \in Made /\ r.status = "ran" /\ r.by = "answer" /\ Vouches(g, r) /\ g \in Said
  BY <1>1, <1>2, AnsweredRuns, RequestIsAsked
<1>4. aCall' = [aCall EXCEPT ![c] = r] /\ aConsent' = aConsent \cup {g}
  OBVIOUS
<1> HIDE DEF g, r
<1>5. aCall' \in [ToolCalls -> {[status |-> "new"]} \cup Made]
  BY <1>1, <1>3, <1>4 DEF HitlTypes
<1>6. aCall'[c] = r /\ \A d \in ToolCalls \ {c} : aCall'[d] = aCall[d]
  BY <1>1, <1>4 DEF HitlTypes
<1>7. aConsent' \in SUBSET (Said \cup Inherited)
  BY <1>1, <1>3, <1>4 DEF HitlTypes
<1>8. QuestionsAreCurrent'
  BY <1>3, <1>6 DEF HitlInv, QuestionsAreCurrent
<1>9. RanIsMeant'
  <2>1. ASSUME NEW d \in ToolCalls, aCall'[d].status = "ran"
        PROVE  \E h \in aConsent' : Vouches(h, aCall'[d])
    <3>1. CASE d = c
      BY <3>1, <1>3, <1>4, <1>6
    <3>2. CASE d # c
      BY <3>2, <2>1, <1>4, <1>6 DEF HitlInv, RanIsMeant
    <3> QED BY <3>1, <3>2
  <2> QED BY <2>1 DEF RanIsMeant, Vouches
<1>10. SkipIsMeant'
  <2>1. ASSUME NEW d \in ToolCalls, aCall'[d].status = "ran", aCall'[d].by = "coalesced"
        PROVE  d # c
    BY <2>1, <1>3, <1>6
  <2> QED BY <2>1, <1>4, <1>6 DEF HitlInv, SkipIsMeant, Hitl!Covers
<1> QED BY <1>5, <1>7, <1>8, <1>9, <1>10

\* What the coalescer keeps after Accept.
LEMMA AcceptIsRecorded ==
  ASSUME KeptAssumption, HitlInv, NEW c \in ToolCalls, aCall[c].status = "asking",
         NEW k \in {"once", "path", "tool"}, Hitl!Accept(c, k), UNCHANGED aTurn,
         k = "tool" => aCall[c].tool # "read_file"
  PROVE  aRecent' \in [Users -> SUBSET Asked] /\ RecentIsMeant'
<1> DEFINE u == UserOf[aCall[c].thread]
           r == Hitl!Request(c)
           g == Hitl!Given(aCall[c], k)
<1>1. HitlTypes /\ aCall[c] \in Made
  BY AskingIsMade DEF HitlInv
<1>2. u \in Users
  BY <1>1 DEF Made, KeptAssumption, Hitl!ApprovalAssumption
<1>3. /\ r \in Asked /\ r.tool = aCall[c].tool /\ r.thread = aCall[c].thread
      /\ r.turn = aCall[c].turn /\ r.turn = aTurn[r.thread]
  BY <1>1, RequestIsAsked DEF HitlInv, QuestionsAreCurrent
<1>4. /\ aRecent' = [aRecent EXCEPT ![u] = Hitl!Recorded(u, r)]
      /\ aConsent' = aConsent \cup {g}
  BY DEF Hitl!Accept
<1>5. r.tool = "read_file" => AcceptOf(g, r)
  BY <1>1, <1>3, RequestIsAsked
<1>6. Hitl!Recorded(u, r) = IF r.tool = "read_file" THEN aRecent[u] \cup {r} ELSE aRecent[u]
  BY DEF Hitl!Recorded
<1>7. UserOf[r.thread] = u
  BY <1>3
<1> HIDE DEF u, r, g
<1>8. aRecent' \in [Users -> SUBSET Asked]
  BY <1>1, <1>2, <1>3, <1>4, <1>6 DEF HitlTypes
<1>9. ASSUME NEW s \in Users, NEW a \in aRecent'[s]
      PROVE  /\ UserOf[a.thread] = s /\ a.tool = "read_file" /\ a.turn = aTurn'[a.thread]
             /\ \E h \in aConsent' : AcceptOf(h, a)
  <2>1. a \in aRecent[s] \/ (s = u /\ a = r /\ r.tool = "read_file")
    BY <1>1, <1>2, <1>4, <1>6 DEF HitlTypes
  <2>2. CASE a \in aRecent[s]
    BY <2>2, <1>4 DEF HitlInv, RecentIsMeant
  <2>3. CASE s = u /\ a = r /\ r.tool = "read_file"
    BY <2>3, <1>3, <1>4, <1>5, <1>7
  <2> QED BY <2>1, <2>2, <2>3
<1>10. RecentIsMeant'
  BY <1>9 DEF RecentIsMeant, AcceptOf
<1> QED BY <1>8, <1>10

\* A grant is of the tool, or with the bridge of the path of a tool that is scoped.
LEMMA GrantIsMeant ==
  ASSUME HitlTypes, NEW c \in ToolCalls, aCall[c] \in Made, NEW k \in {"path", "tool"},
         k = (IF aBridged /\ aCall[c].tool \in PathScoped THEN "path" ELSE "tool"),
         NEW p \in Policies, PolicyMeant(p, aConsent),
         aConsent' = aConsent \cup {Hitl!Given(aCall[c], k)}
  PROVE  Hitl!Grant(p, aCall[c]) \in Policies /\ PolicyMeant(Hitl!Grant(p, aCall[c]), aConsent')
<1> DEFINE g == Hitl!Given(aCall[c], k)
           q == Hitl!Grant(p, aCall[c])
<1>1. g \in Said /\ g.kind = k /\ g.tool = aCall[c].tool /\ g.path = aCall[c].path
  BY RequestIsAsked DEF Hitl!Given
<1>2. ToolsMeant(p.tools, aConsent) /\ PathsMeant(p.paths, aConsent)
  BY DEF PolicyMeant
<1>3. aConsent' = aConsent \cup {g}
  OBVIOUS
<1>4. aCall[c].tool \in Gated /\ aCall[c].path \in Paths
  BY DEF Made
<1> HIDE DEF g
<1>5. ToolsMeant(p.tools, aConsent') /\ PathsMeant(p.paths, aConsent')
  BY <1>2, <1>3 DEF ToolsMeant, PathsMeant
<1>6. CASE aBridged /\ aCall[c].tool \in PathScoped
  <2>1. q = [p EXCEPT !.paths = @ \cup {<<aCall[c].tool, aCall[c].path>>}]
    BY <1>6 DEF Hitl!Grant
  <2>2. q \in Policies /\ q.tools = p.tools /\ q.paths = p.paths \cup {<<aCall[c].tool, aCall[c].path>>}
    BY <2>1, <1>4, <1>6 DEF Policies
  <2>3. PathsMeant(q.paths, aConsent')
    <3>1. ASSUME NEW x \in q.paths
          PROVE  \E h \in aConsent' : h \in Said /\ h.kind = "path" /\ h.tool = x[1] /\ h.path = x[2]
      <4>1. CASE x \in p.paths
        BY <4>1, <1>5 DEF PathsMeant
      <4>2. CASE x = <<aCall[c].tool, aCall[c].path>>
        BY <4>2, <1>1, <1>3, <1>6
      <4> QED BY <4>1, <4>2, <2>2
    <3> QED BY <3>1 DEF PathsMeant
  <2>4. PolicyMeant(q, aConsent')
    BY <2>2, <2>3, <1>5 DEF PolicyMeant, PathsMeant, ToolsMeant
  <2> QED BY <2>2, <2>4
<1>7. CASE ~(aBridged /\ aCall[c].tool \in PathScoped)
  <2>1. q = [p EXCEPT !.tools = @ \cup {aCall[c].tool}]
    BY <1>7 DEF Hitl!Grant
  <2>2. q \in Policies /\ q.tools = p.tools \cup {aCall[c].tool} /\ q.paths = p.paths
    BY <2>1, <1>4 DEF Policies
  <2>3. ASSUME NEW x \in q.tools
        PROVE  \E h \in aConsent' : h.kind = "tool" /\ h.tool = x
    <3>1. CASE x \in p.tools
      BY <3>1, <1>5 DEF ToolsMeant
    <3>2. CASE x = aCall[c].tool
      BY <3>2, <1>1, <1>3, <1>7
    <3> QED BY <3>1, <3>2, <2>2
  <2>4. PolicyMeant(q, aConsent')
    BY <2>2, <2>3, <1>5 DEF PolicyMeant, PathsMeant, ToolsMeant
  <2> QED BY <2>2, <2>4
<1> QED BY <1>6, <1>7

LEMMA BridgeMeant ==
  ASSUME KeptAssumption, HitlInv, NEW c \in ToolCalls,
         NEW d \in {"accept", "reject", "allowlist"}, Hitl!BridgeAnswers(c, d)
  PROVE  HitlInv'
<1>1. /\ aBridged /\ aCall[c].status = "asking" /\ UNCHANGED <<aBridged, aTurn>>
      /\ d = "reject" => Hitl!Abort(c)
      /\ d = "accept" => Hitl!Accept(c, "once") /\ UNCHANGED <<aAllow, aMarker, aFile>>
      /\ d = "allowlist" =>
           LET s == UserOf[aCall[c].thread]
           IN  /\ Hitl!Accept(c, IF aCall[c].tool \in PathScoped THEN "path" ELSE "tool")
               /\ aAllow' = [aAllow EXCEPT ![s] = Hitl!Grant(@, aCall[c])]
               /\ Hitl!Save(s, aAllow'[s])
  BY DEF Hitl!BridgeAnswers
<1>2. HitlTypes /\ aCall[c] \in Made
  BY <1>1, AskingIsMade DEF HitlInv
<1>3. CASE d = "reject"
  BY <1>1, <1>3, AbortMeant
<1>4. CASE d = "accept"
  <2>1. aCall' = [aCall EXCEPT ![c] = Answered(c)]
        /\ aConsent' = aConsent \cup {Hitl!Given(aCall[c], "once")}
    BY <1>1, <1>2, <1>4 DEF Hitl!Accept, Answered, HitlTypes
  <2>2. /\ aCall' \in [ToolCalls -> {[status |-> "new"]} \cup Made]
        /\ aConsent' \in SUBSET (Said \cup Inherited)
        /\ QuestionsAreCurrent' /\ RanIsMeant' /\ SkipIsMeant'
    BY <2>1, <1>1, AnswerRuns
  <2>3. aRecent' \in [Users -> SUBSET Asked] /\ RecentIsMeant'
    BY <1>1, <1>4, AcceptIsRecorded
  <2>4. GrantsAreMeant'
    BY <2>1, <1>1, <1>4, GrantsStayMeant DEF HitlInv
  <2>5. HitlTypes'
    BY <1>1, <1>2, <1>4, <2>2, <2>3 DEF HitlTypes
  <2> QED BY <2>2, <2>3, <2>4, <2>5 DEF HitlInv
<1>5. CASE d = "allowlist"
  <2> DEFINE k == IF aCall[c].tool \in PathScoped THEN "path" ELSE "tool"
             s == UserOf[aCall[c].thread]
             q == Hitl!Grant(aAllow[s], aCall[c])
  <2>1. /\ Hitl!Accept(c, k) /\ k \in {"path", "tool"}
        /\ aAllow' = [aAllow EXCEPT ![s] = q] /\ Hitl!Save(s, aAllow'[s])
    BY <1>1, <1>5
  <2>2. s \in Users /\ (k = "tool" => aCall[c].tool # "read_file")
    BY <1>2 DEF Made, KeptAssumption, Hitl!ApprovalAssumption
  <2>3. /\ k = (IF aBridged /\ aCall[c].tool \in PathScoped THEN "path" ELSE "tool")
    BY <1>1
  <2> HIDE DEF k
  <2>4. aCall' = [aCall EXCEPT ![c] = Answered(c)]
        /\ aConsent' = aConsent \cup {Hitl!Given(aCall[c], k)}
    BY <2>1, <1>2 DEF Hitl!Accept, Answered, HitlTypes
  <2>5. /\ aCall' \in [ToolCalls -> {[status |-> "new"]} \cup Made]
        /\ aConsent' \in SUBSET (Said \cup Inherited)
        /\ QuestionsAreCurrent' /\ RanIsMeant' /\ SkipIsMeant'
    BY <2>1, <2>4, <1>1, AnswerRuns
  <2>6. aRecent' \in [Users -> SUBSET Asked] /\ RecentIsMeant'
    BY <1>1, <2>1, <2>2, AcceptIsRecorded
  <2>7. aAllow[s] \in Policies /\ PolicyMeant(aAllow[s], aConsent)
    BY <2>2, <1>2 DEF HitlTypes, HitlInv, GrantsAreMeant
  <2>8. q \in Policies /\ PolicyMeant(q, aConsent')
    BY <2>1, <2>3, <2>4, <2>7, <1>2, GrantIsMeant
  <2> HIDE DEF q, s
  <2>9. aAllow'[s] = q /\ aAllow' \in [Users -> Policies]
    BY <2>1, <2>2, <2>8, <1>2 DEF HitlTypes
  <2>10. IF Marks THEN aMarker' = [aMarker EXCEPT ![s] = q] /\ UNCHANGED aFile
                  ELSE aFile' = q.tools /\ UNCHANGED aMarker
    BY <2>1, <2>9 DEF Hitl!Save
  <2>11. aMarker' \in [Users -> Policies] /\ aFile' \in SUBSET Gated
    BY <2>2, <2>8, <2>10, <1>2 DEF HitlTypes, Policies
  <2>12. HitlTypes'
    BY <1>1, <1>2, <2>5, <2>6, <2>9, <2>11 DEF HitlTypes
  <2>13. \A u \in Users : aAllow'[u] \in {aAllow[u], q} /\ aMarker'[u] \in {aMarker[u], q}
    BY <2>1, <2>2, <2>10, <1>2 DEF HitlTypes
  <2>14. aFile' \in {aFile, q.tools}
    BY <2>10
  <2>15. ASSUME NEW u \in Users
         PROVE  PolicyMeant(aAllow'[u], aConsent') /\ PolicyMeant(aMarker'[u], aConsent')
    <3>1. ASSUME NEW p \in {aAllow[u], aMarker[u]} PROVE PolicyMeant(p, aConsent')
      <4>1. PolicyMeant(p, aConsent)
        BY <3>1 DEF HitlInv, GrantsAreMeant
      <4> QED BY <4>1, <2>4, MeantStays
    <3>2. \A p \in {aAllow[u], aMarker[u], q} : PolicyMeant(p, aConsent')
      BY <3>1, <2>8
    <3> QED BY <3>2, <2>13
  <2>16. ToolsMeant(aFile, aConsent)'
    <3>1. ToolsMeant(q.tools, aConsent')
      BY <2>8 DEF PolicyMeant
    <3>2. ToolsMeant(aFile, aConsent)
      BY DEF HitlInv, GrantsAreMeant
    <3> QED BY <3>1, <3>2, <2>4, <2>14 DEF ToolsMeant
  <2>17. GrantsAreMeant'
    BY <2>15, <2>16 DEF GrantsAreMeant
  <2> QED BY <2>5, <2>6, <2>12, <2>17 DEF HitlInv
<1> QED BY <1>3, <1>4, <1>5

LEMMA CallbackMeant ==
  ASSUME KeptAssumption, HitlInv, NEW c \in ToolCalls, NEW d, Hitl!CallbackAnswers(c, d)
  PROVE  HitlInv'
<1> DEFINE no == d \in {"abort", "no", "skip", "cancel", "stop", "raises"}
           s == UserOf[aCall[c].thread]
           q == Hitl!Grant(aAllow[s], aCall[c])
<1>1. /\ ~aBridged /\ aCall[c].status = "asking" /\ UNCHANGED <<aBridged, aTurn>>
      /\ no => Hitl!Abort(c)
      /\ ~no /\ d # "allowlist" => Hitl!Accept(c, "once") /\ UNCHANGED <<aAllow, aMarker, aFile>>
      /\ ~no /\ d = "allowlist" =>
           /\ aAllow' = [aAllow EXCEPT ![s] = q]
           /\ aCall' = [aCall EXCEPT ![c].status = "ran", ![c].by = "answer"]
           /\ aConsent' = aConsent \cup {Hitl!Given(aCall[c], "tool")}
           /\ UNCHANGED <<aRecent, aMarker, aFile>>
  BY DEF Hitl!CallbackAnswers
<1>2. HitlTypes /\ aCall[c] \in Made
  BY <1>1, AskingIsMade DEF HitlInv
<1>3. CASE no
  BY <1>1, <1>3, AbortMeant
<1>4. CASE ~no /\ d # "allowlist"
  <2>1. aCall' = [aCall EXCEPT ![c] = Answered(c)]
        /\ aConsent' = aConsent \cup {Hitl!Given(aCall[c], "once")}
    BY <1>1, <1>2, <1>4 DEF Hitl!Accept, Answered, HitlTypes
  <2>2. /\ aCall' \in [ToolCalls -> {[status |-> "new"]} \cup Made]
        /\ aConsent' \in SUBSET (Said \cup Inherited)
        /\ QuestionsAreCurrent' /\ RanIsMeant' /\ SkipIsMeant'
    BY <2>1, <1>1, AnswerRuns
  <2>3. aRecent' \in [Users -> SUBSET Asked] /\ RecentIsMeant'
    BY <1>1, <1>4, AcceptIsRecorded
  <2>4. GrantsAreMeant'
    BY <2>1, <1>1, <1>4, GrantsStayMeant DEF HitlInv
  <2>5. HitlTypes'
    BY <1>1, <1>2, <1>4, <2>2, <2>3 DEF HitlTypes
  <2> QED BY <2>2, <2>3, <2>4, <2>5 DEF HitlInv
<1>5. CASE ~no /\ d = "allowlist"
  <2>1. aCall' = [aCall EXCEPT ![c] = Answered(c)]
        /\ aConsent' = aConsent \cup {Hitl!Given(aCall[c], "tool")}
    BY <1>1, <1>2, <1>5 DEF Answered, HitlTypes
  <2>2. s \in Users
    BY <1>2 DEF Made, KeptAssumption, Hitl!ApprovalAssumption
  <2>3. /\ aCall' \in [ToolCalls -> {[status |-> "new"]} \cup Made]
        /\ aConsent' \in SUBSET (Said \cup Inherited)
        /\ QuestionsAreCurrent' /\ RanIsMeant' /\ SkipIsMeant'
    BY <2>1, <1>1, AnswerRuns
  <2>4. RecentIsMeant'
    BY <2>1, <1>1, <1>5 DEF HitlInv, RecentIsMeant
  <2>5. aAllow[s] \in Policies /\ PolicyMeant(aAllow[s], aConsent)
    BY <2>2, <1>2 DEF HitlTypes, HitlInv, GrantsAreMeant
  <2>6. q \in Policies /\ PolicyMeant(q, aConsent')
    BY <2>1, <2>5, <1>1, <1>2, GrantIsMeant
  <2>7. aAllow' = [aAllow EXCEPT ![s] = q] /\ UNCHANGED <<aRecent, aMarker, aFile>>
    BY <1>1, <1>5
  <2> HIDE DEF q, s
  <2>8. HitlTypes'
    BY <1>1, <1>2, <2>2, <2>3, <2>6, <2>7 DEF HitlTypes
  <2>9. ASSUME NEW u \in Users
        PROVE  PolicyMeant(aAllow'[u], aConsent') /\ PolicyMeant(aMarker'[u], aConsent')
    <3>1. ASSUME NEW p \in {aAllow[u], aMarker[u]} PROVE PolicyMeant(p, aConsent')
      <4>1. PolicyMeant(p, aConsent)
        BY DEF HitlInv, GrantsAreMeant
      <4> QED BY <4>1, <2>1, MeantStays
    <3>2. aAllow'[u] \in {aAllow[u], q}
      BY <1>2, <2>2, <2>7 DEF HitlTypes
    <3> QED BY <3>1, <3>2, <2>6, <2>7
  <2>10. ToolsMeant(aFile, aConsent)'
    BY <2>1, <2>7 DEF HitlInv, GrantsAreMeant, ToolsMeant
  <2>11. GrantsAreMeant'
    BY <2>9, <2>10 DEF GrantsAreMeant
  <2> QED BY <2>3, <2>4, <2>8, <2>11 DEF HitlInv
<1> QED BY <1>3, <1>4, <1>5

-----------------------------------------------------------------------------
\* A call of the allowlist rests on a grant.
LEMMA AllowedIsMeant ==
  ASSUME HitlInv, NEW s \in Users, NEW r \in Asked, Hitl!Allows(aAllow[s], r)
  PROVE  \E g \in aConsent :
           \/ g.kind = "tool" /\ g.tool = r.tool
           \/ g \in Said /\ g.kind = "path" /\ g.tool = r.tool /\ Hitl!IsPrefix(g.path, r.path)
<1>1. ToolsMeant(aAllow[s].tools, aConsent) /\ PathsMeant(aAllow[s].paths, aConsent)
  BY DEF HitlInv, GrantsAreMeant, PolicyMeant
<1>2. CASE r.tool \in aAllow[s].tools
  BY <1>1, <1>2 DEF ToolsMeant
<1>3. CASE \E q \in Paths : <<r.tool, q>> \in aAllow[s].paths /\ Hitl!IsPrefix(q, r.path)
  <2>1. PICK q \in Paths : <<r.tool, q>> \in aAllow[s].paths /\ Hitl!IsPrefix(q, r.path)
    BY <1>3
  <2>2. PICK g \in aConsent : g \in Said /\ g.kind = "path" /\ g.tool = r.tool /\ g.path = q
    BY <1>1, <2>1 DEF PathsMeant
  <2> QED BY <2>1, <2>2
<1> QED BY <1>2, <1>3 DEF Hitl!Allows

\* A call that is skipped rests on an Accept of the session, in the same turn of a thread.
LEMMA SkippedIsMeant ==
  ASSUME KeptAssumption, HitlInv, NEW t \in Threads, NEW r \in Asked, r.thread = t,
         r.turn = aTurn[t], Hitl!Skips(UserOf[t], r)
  PROVE  \E g \in aConsent :
           /\ g \in Said /\ g.kind \in {"once", "path"} /\ g.tool = r.tool /\ Hitl!Covers(g, r)
           /\ UserOf[g.thread] = UserOf[t]
           /\ g.thread = t => g.turn = r.turn
<1>1. UserOf[t] \in Users /\ Extents \subseteq Nat
  BY DEF KeptAssumption, Hitl!ApprovalAssumption
<1>2. PICK a \in aRecent[UserOf[t]] : Hitl!Covers(a, r) /\ r.tool = "read_file"
  BY DEF Hitl!Skips
<1>3. /\ UserOf[a.thread] = UserOf[t] /\ a.tool = "read_file" /\ a.turn = aTurn[a.thread]
      /\ \E g \in aConsent : AcceptOf(g, a)
  BY <1>1 DEF HitlInv, RecentIsMeant
<1>4. PICK g \in aConsent : AcceptOf(g, a)
  BY <1>3
<1> QED BY <1>2, <1>3, <1>4 DEF AcceptOf, Hitl!Covers

LEMMA CallMeant ==
  ASSUME KeptAssumption, HitlInv, NEW c \in ToolCalls, NEW t \in Threads, NEW x \in Gated,
         NEW p \in Paths, NEW e \in Extents, Hitl!CallTool(c, t, x, p, e)
  PROVE  HitlInv'
<1> DEFINE s == UserOf[t]
           r == [thread |-> t, turn |-> aTurn[t], tool |-> x, path |-> p, extent |-> e]
           m == IF Hitl!Allows(aAllow[s], r) THEN Hitl!Marked(r, "ran", "allowlist")
                ELSE IF Hitl!Skips(s, r) THEN Hitl!Marked(r, "ran", "coalesced")
                ELSE Hitl!Marked(r, "asking", "nothing")
<1>1. /\ aCall[c].status = "new" /\ aTurn[t] > 0 /\ aCall' = [aCall EXCEPT ![c] = m]
      /\ UNCHANGED <<aBridged, aTurn, aRecent, aAllow, aMarker, aFile, aConsent>>
  BY DEF Hitl!CallTool
<1>2. HitlTypes /\ s \in Users /\ MaxPrompts \in Nat
  BY DEF HitlInv, KeptAssumption, Hitl!ApprovalAssumption
<1>3. r \in Asked /\ r.thread = t /\ r.turn = aTurn[t]
  <2>1. aTurn[t] \in 1..MaxPrompts
    BY <1>1, <1>2 DEF HitlTypes
  <2> QED BY <2>1 DEF Asked
<1> HIDE DEF r
<1>4. ASSUME NEW st \in {"asking", "ran"}, NEW by \in {"nothing", "allowlist", "coalesced"}
      PROVE  LET k == Hitl!Marked(r, st, by)
             IN  /\ k \in Made /\ k.status = st /\ k.by = by /\ k.tool = r.tool
                 /\ k.path = r.path /\ k.extent = r.extent /\ k.thread = t /\ k.turn = aTurn[t]
  BY <1>3 DEF Asked, Made, Hitl!Marked
<1>5. m \in Made /\ m.status \in {"asking", "ran"} /\ m.thread = t /\ m.turn = aTurn[t]
  BY <1>4
<1>6. m.status = "ran" => \E g \in aConsent : Vouches(g, m)
  <2>1. CASE Hitl!Allows(aAllow[s], r)
    <3>1. m = Hitl!Marked(r, "ran", "allowlist")
      BY <2>1
    <3>2. m.tool = r.tool /\ m.path = r.path
      BY <1>4, <3>1
    <3> HIDE DEF m
    <3> QED BY <2>1, <3>2, <1>2, <1>3, AllowedIsMeant DEF Vouches
  <2>2. CASE ~Hitl!Allows(aAllow[s], r) /\ Hitl!Skips(s, r)
    <3>1. m = Hitl!Marked(r, "ran", "coalesced")
      BY <2>2
    <3>2. m.tool = r.tool /\ m.path = r.path /\ m.extent = r.extent
      BY <1>4, <3>1
    <3> HIDE DEF m
    <3>3. PICK g \in aConsent :
            /\ g \in Said /\ g.kind \in {"once", "path"} /\ g.tool = r.tool /\ Hitl!Covers(g, r)
            /\ UserOf[g.thread] = UserOf[t]
            /\ g.thread = t => g.turn = r.turn
      BY <2>2, <1>3, SkippedIsMeant
    <3>4. g.path = r.path /\ Hitl!Covers(g, m)
      BY <3>2, <3>3 DEF Hitl!Covers
    <3>5. Hitl!IsPrefix(g.path, m.path)
      <4>1. r.path \in Seq(STRING)
        BY <1>3 DEF Asked, KeptAssumption, Hitl!ApprovalAssumption
      <4> QED BY <4>1, <3>2, <3>4, OwnPrefix
    <3> QED BY <3>2, <3>3, <3>4, <3>5, <1>3, <1>5 DEF Vouches
  <2>3. CASE ~Hitl!Allows(aAllow[s], r) /\ ~Hitl!Skips(s, r)
    BY <2>3, <1>4
  <2> QED BY <2>1, <2>2, <2>3
<1>7. m.status = "ran" /\ m.by = "coalesced" =>
        \E g \in aConsent : /\ g \in Said /\ g.kind \in {"once", "path"} /\ Hitl!Covers(g, m)
                            /\ UserOf[g.thread] = UserOf[m.thread]
                            /\ g.thread = m.thread => g.turn = m.turn
  <2>1. m.by = "coalesced" => Hitl!Skips(s, r) /\ m.path = r.path /\ m.extent = r.extent
    BY <1>4
  <2> HIDE DEF m
  <2> QED BY <2>1, <1>3, <1>5, SkippedIsMeant DEF Hitl!Covers
<1> HIDE DEF m
<1>8. aCall'[c] = m /\ \A d \in ToolCalls \ {c} : aCall'[d] = aCall[d]
  BY <1>1, <1>2 DEF HitlTypes
<1>9. HitlTypes'
  BY <1>1, <1>2, <1>5 DEF HitlTypes
<1>10. QuestionsAreCurrent'
  BY <1>1, <1>5, <1>8 DEF HitlInv, QuestionsAreCurrent
<1>11. RanIsMeant'
  BY <1>1, <1>6, <1>8 DEF HitlInv, RanIsMeant, Vouches
<1>12. SkipIsMeant'
  BY <1>1, <1>7, <1>8 DEF HitlInv, SkipIsMeant, Hitl!Covers
<1>13. GrantsAreMeant' /\ RecentIsMeant'
  BY <1>1 DEF HitlInv, GrantsAreMeant, RecentIsMeant
<1> QED BY <1>9, <1>10, <1>11, <1>12, <1>13 DEF HitlInv

-----------------------------------------------------------------------------
LEMMA NextMeant == KeptAssumption /\ HitlInv /\ Hitl!Next => HitlInv'
<1> SUFFICES ASSUME KeptAssumption, HitlInv, Hitl!Next PROVE HitlInv'
  OBVIOUS
<1>1. ASSUME NEW t \in Threads, Hitl!NewPrompt(t) PROVE HitlInv'
  BY <1>1, NewPromptMeant
<1>2. ASSUME NEW t \in Threads, NEW c \in ToolCalls, NEW x \in Gated, NEW p \in Paths,
             NEW e \in Extents, Hitl!CallTool(c, t, x, p, e)
      PROVE  HitlInv'
  BY <1>2, CallMeant
<1>3. ASSUME NEW c \in ToolCalls, NEW d \in {"accept", "reject", "allowlist"},
             Hitl!BridgeAnswers(c, d)
      PROVE  HitlInv'
  BY <1>3, BridgeMeant
<1>4. ASSUME NEW c \in ToolCalls, NEW d \in Hitl!Answers, Hitl!CallbackAnswers(c, d)
      PROVE  HitlInv'
  BY <1>4, CallbackMeant
<1>5. ASSUME NEW s \in Users, Hitl!Prune(s) PROVE HitlInv'
  BY <1>5, PruneMeant
<1>6. ASSUME NEW s \in Users, Hitl!Restart(s) PROVE HitlInv'
  BY <1>6, RestartMeant
<1> QED BY <1>1, <1>2, <1>3, <1>4, <1>5, <1>6 DEF Hitl!Next

LEMMA StutterMeant == HitlInv /\ UNCHANGED aVars => HitlInv'
<1> SUFFICES ASSUME HitlInv, UNCHANGED aVars PROVE HitlInv'
  OBVIOUS
<1> USE DEF aVars
<1>1. HitlTypes'
  BY DEF HitlInv, HitlTypes
<1>2. GrantsAreMeant'
  BY GrantsStayMeant DEF HitlInv
<1>3. QuestionsAreCurrent' /\ RecentIsMeant'
  BY DEF HitlInv, QuestionsAreCurrent, RecentIsMeant
<1>4. RanIsMeant' /\ SkipIsMeant'
  BY RanStays DEF HitlInv
<1> QED BY <1>1, <1>2, <1>3, <1>4 DEF HitlInv

\* What the invariant says of the runs.
LEMMA HitlMeans ==
  ASSUME HitlInv
  PROVE  Hitl!RunsHaveConsent /\
         ((\A t, u \in Threads : UserOf[t] = UserOf[u] => t = u) => Hitl!SkipWithinTurn)
<1>1. ASSUME NEW c \in ToolCalls, aCall[c].status = "ran"
      PROVE  Hitl!Consented(aCall[c])
  <2>1. PICK g \in aConsent : Vouches(g, aCall[c])
    BY <1>1 DEF HitlInv, RanIsMeant
  <2>2. CASE g.kind = "tool"
    BY <2>1, <2>2 DEF Vouches, Hitl!Consented
  <2>3. CASE g.kind = "path"
    BY <2>1, <2>3 DEF Vouches, Hitl!Consented
  <2>4. CASE g.kind = "once"
    BY <2>1, <2>4 DEF Vouches, Hitl!Consented
  <2> QED BY <2>1, <2>2, <2>3, <2>4 DEF Vouches
<1>2. ASSUME \A t, u \in Threads : UserOf[t] = UserOf[u] => t = u,
             NEW c \in ToolCalls, aCall[c].status = "ran", aCall[c].by = "coalesced"
      PROVE  \E g \in aConsent :
               /\ g.kind \in {"once", "path"} /\ Hitl!Covers(g, aCall[c])
               /\ g.thread = aCall[c].thread /\ g.turn = aCall[c].turn
  <2>1. PICK g \in aConsent :
          /\ g \in Said /\ g.kind \in {"once", "path"} /\ Hitl!Covers(g, aCall[c])
          /\ UserOf[g.thread] = UserOf[aCall[c].thread]
          /\ g.thread = aCall[c].thread => g.turn = aCall[c].turn
    BY <1>2 DEF HitlInv, SkipIsMeant
  <2>2. aCall[c] \in Made
    BY <1>2, AskingIsMade DEF HitlInv
  <2>3. g.thread = aCall[c].thread
    BY <2>1, <2>2, <1>2 DEF Said, Made
  <2> QED BY <2>1, <2>3
<1> QED BY <1>1, <1>2 DEF Hitl!RunsHaveConsent, Hitl!SkipWithinTurn

-----------------------------------------------------------------------------
(* With the bridge and a session marker, an allowlist is what a restart would load. *)

AllowIsSaved == aBridged /\ Marks => \A s \in Users : aAllow[s] = Hitl!Loaded(s)

LEMMA InitSaved == KeptAssumption /\ Hitl!Init => AllowIsSaved
<1> SUFFICES ASSUME KeptAssumption, Hitl!Init, NEW s \in Users PROVE aAllow[s] = Hitl!Loaded(s)
  BY DEF AllowIsSaved
<1>1. aMarker[s] = Hitl!Nothing /\ aFile = Granted
  BY DEF Hitl!Init
<1>2. aAllow[s] = [Hitl!Nothing EXCEPT !.tools = Granted]
  BY DEF Hitl!Init
<1> QED BY <1>1, <1>2 DEF Hitl!Loaded

\* A grant adds to a policy, and leaves it with something.
LEMMA GrantAdds ==
  ASSUME NEW p \in Policies, NEW r, r.tool \in Gated
  PROVE  /\ p.tools \subseteq Hitl!Grant(p, r).tools /\ p.paths \subseteq Hitl!Grant(p, r).paths
         /\ Hitl!Grant(p, r) # Hitl!Nothing
<1> DEFINE q == Hitl!Grant(p, r)
<1>1. CASE aBridged /\ r.tool \in PathScoped
  <2>1. q.tools = p.tools /\ q.paths = p.paths \cup {<<r.tool, r.path>>}
    BY <1>1 DEF Hitl!Grant, Policies
  <2>2. <<r.tool, r.path>> \in q.paths
    BY <2>1
  <2> HIDE DEF q
  <2>3. q # Hitl!Nothing
    BY <2>2 DEF Hitl!Nothing
  <2> QED BY <2>1, <2>3 DEF q
<1>2. CASE ~(aBridged /\ r.tool \in PathScoped)
  <2>1. q.tools = p.tools \cup {r.tool} /\ q.paths = p.paths
    BY <1>2 DEF Hitl!Grant, Policies
  <2>2. r.tool \in q.tools
    BY <2>1
  <2> HIDE DEF q
  <2>3. q # Hitl!Nothing
    BY <2>2 DEF Hitl!Nothing
  <2> QED BY <2>1, <2>3 DEF q
<1> QED BY <1>1, <1>2

\* An answer of the bridge that is a grant is saved where it is granted.
LEMMA AnswerSaves ==
  ASSUME KeptAssumption, HitlInv, AllowIsSaved, Marks, NEW c \in ToolCalls,
         NEW d \in {"accept", "reject", "allowlist"}, Hitl!BridgeAnswers(c, d)
  PROVE  AllowIsSaved' /\ Hitl!GrantsStay
<1>1. aBridged /\ aCall[c].status = "asking" /\ UNCHANGED aBridged /\ HitlTypes
  BY DEF Hitl!BridgeAnswers, HitlInv
<1>2. CASE d \in {"accept", "reject"}
  <2>1. UNCHANGED <<aAllow, aMarker, aFile>>
    BY <1>2 DEF Hitl!BridgeAnswers, Hitl!Abort
  <2>2. \A s \in Users : Hitl!Loaded(s)' = Hitl!Loaded(s)
    BY <2>1 DEF Hitl!Loaded
  <2> QED BY <1>1, <2>1, <2>2 DEF AllowIsSaved, Hitl!GrantsStay
<1>3. CASE d = "allowlist"
  <2> DEFINE s == UserOf[aCall[c].thread]
             q == Hitl!Grant(aAllow[s], aCall[c])
  <2>1. aAllow' = [aAllow EXCEPT ![s] = q] /\ Hitl!Save(s, aAllow'[s])
    BY <1>3 DEF Hitl!BridgeAnswers
  <2>2. s \in Users /\ aCall[c].tool \in Gated
    BY <1>1, AskingIsMade DEF Made, KeptAssumption, Hitl!ApprovalAssumption
  <2>3. /\ aAllow[s].tools \subseteq q.tools /\ aAllow[s].paths \subseteq q.paths
        /\ q # Hitl!Nothing
    BY <1>1, <2>2, GrantAdds DEF HitlTypes
  <2> HIDE DEF q, s
  <2>4. aAllow'[s] = q /\ \A u \in Users \ {s} : aAllow'[u] = aAllow[u]
    BY <1>1, <2>1, <2>2 DEF HitlTypes
  <2>5. aMarker' = [aMarker EXCEPT ![s] = q] /\ UNCHANGED aFile
    BY <2>1, <2>4 DEF Hitl!Save
  <2>6. aMarker'[s] = q /\ \A u \in Users \ {s} : aMarker'[u] = aMarker[u]
    BY <1>1, <2>2, <2>5 DEF HitlTypes
  <2>7. \A u \in Users : u = s => Hitl!Loaded(u)' = q
    BY <2>3, <2>6 DEF Hitl!Loaded
  <2>8. \A u \in Users \ {s} : Hitl!Loaded(u)' = Hitl!Loaded(u)
    BY <2>5, <2>6 DEF Hitl!Loaded
  <2>9. \A u \in Users : aAllow'[u] = Hitl!Loaded(u)'
    BY <1>1, <2>4, <2>7, <2>8 DEF AllowIsSaved
  <2>10. AllowIsSaved'
    BY <2>9 DEF AllowIsSaved
  <2> QED BY <2>3, <2>4, <2>10 DEF Hitl!GrantsStay
<1> QED BY <1>2, <1>3

LEMMA NextSaved ==
  ASSUME KeptAssumption, HitlInv, AllowIsSaved, Hitl!Next \/ UNCHANGED aVars
  PROVE  AllowIsSaved' /\ (aBridged /\ Marks => Hitl!GrantsStay)
<1>1. ASSUME UNCHANGED <<aBridged, aAllow, aMarker, aFile>>
      PROVE  AllowIsSaved' /\ (aBridged /\ Marks => Hitl!GrantsStay)
  <2>1. \A s \in Users : Hitl!Loaded(s)' = Hitl!Loaded(s)
    BY <1>1 DEF Hitl!Loaded
  <2> QED BY <1>1, <2>1 DEF AllowIsSaved, Hitl!GrantsStay
<1>2. ASSUME NEW c \in ToolCalls, NEW d \in {"accept", "reject", "allowlist"},
             Hitl!BridgeAnswers(c, d)
      PROVE  AllowIsSaved' /\ (aBridged /\ Marks => Hitl!GrantsStay)
  BY <1>2, AnswerSaves DEF AllowIsSaved
<1>3. ASSUME NEW c \in ToolCalls, NEW d, Hitl!CallbackAnswers(c, d)
      PROVE  AllowIsSaved' /\ (aBridged /\ Marks => Hitl!GrantsStay)
  BY <1>3 DEF Hitl!CallbackAnswers, AllowIsSaved
<1>4. ASSUME NEW s \in Users, Hitl!Restart(s)
      PROVE  AllowIsSaved' /\ (aBridged /\ Marks => Hitl!GrantsStay)
  <2>1. aAllow' = [aAllow EXCEPT ![s] = Hitl!Loaded(s)] /\ UNCHANGED <<aBridged, aMarker, aFile>>
    BY <1>4 DEF Hitl!Restart
  <2>2. \A u \in Users : Hitl!Loaded(u)' = Hitl!Loaded(u)
    BY <2>1 DEF Hitl!Loaded
  <2>3. aBridged /\ Marks => \A u \in Users : aAllow'[u] = aAllow[u]
    BY <2>1 DEF AllowIsSaved, HitlInv, HitlTypes
  <2> QED BY <2>1, <2>2, <2>3 DEF AllowIsSaved, Hitl!GrantsStay
<1>5. ASSUME NEW t \in Threads,
             \/ Hitl!NewPrompt(t)
             \/ \E c \in ToolCalls, x \in Gated, p \in Paths, e \in Extents :
                  Hitl!CallTool(c, t, x, p, e)
      PROVE  UNCHANGED <<aBridged, aAllow, aMarker, aFile>>
  BY <1>5 DEF Hitl!NewPrompt, Hitl!CallTool
<1>6. ASSUME NEW s \in Users, Hitl!Prune(s)
      PROVE  UNCHANGED <<aBridged, aAllow, aMarker, aFile>>
  BY <1>6 DEF Hitl!Prune
<1>7. CASE UNCHANGED aVars
  BY <1>1, <1>7 DEF aVars
<1>8. CASE Hitl!Next
  BY <1>1, <1>2, <1>3, <1>4, <1>5, <1>6, <1>8 DEF Hitl!Next
<1> QED BY <1>7, <1>8

-----------------------------------------------------------------------------
(* The jobs of the harness (HarnessJobs). *)

Outcome == {"ok", "failed"}
JobLogs == {s \in Seq(Outcome) : Len(s) <= MaxSteps}

\* Both copies of the log are within the limit, and the counter of turns is one
\* ahead of the runner's log while a step is on its way to it.
JobInv ==
  /\ Jobs!TypeOK
  /\ jSteps \in JobLogs /\ jStored \in JobLogs \cup {None}
  /\ jOutcome \in Outcome
  /\ Jobs!TurnFollowsLog
  /\ jPc = "commit" => jTurn <= MaxSteps

LEMMA LoadedIsLog ==
  ASSUME JobInv, NEW log \in Jobs!Loaded
  PROVE  log \in JobLogs
BY DEF JobInv, Jobs!Loaded

LEMMA PersistKeepsLog ==
  ASSUME JobInv, NEW log \in JobLogs, Jobs!Persist(log)
  PROVE  jStored' \in JobLogs \cup {None}
BY DEF JobInv, Jobs!Persist

LEMMA CutIsLog ==
  ASSUME Jobs!JobAssumption, NEW log \in JobLogs, NEW from \in Nat, from <= Len(log)
  PROVE  SubSeq(log, 1, from) \in JobLogs /\ Len(log) - from \in Nat
<1>1. log \in Seq(Outcome) /\ Len(log) \in Nat /\ Len(log) <= MaxSteps
  BY LenProperties DEF JobLogs
<1>2. SubSeq(log, 1, from) \in Seq(Outcome) /\ Len(SubSeq(log, 1, from)) = from
  BY <1>1, SubSeqProperties
<1> QED
  BY <1>1, <1>2 DEF JobLogs, Jobs!JobAssumption

LEMMA AppendIsLog ==
  ASSUME Jobs!JobAssumption, NEW log \in JobLogs, NEW o \in Outcome, Len(log) + 1 <= MaxSteps
  PROVE  Append(log, o) \in JobLogs /\ Len(Append(log, o)) = Len(log) + 1
<1>1. log \in Seq(Outcome)
  BY DEF JobLogs
<1>2. Append(log, o) \in Seq(Outcome) /\ Len(Append(log, o)) = Len(log) + 1
  BY <1>1, AppendProperties
<1> QED
  BY <1>2 DEF JobLogs

\* What is not about the log, the turn and the counters has its type already.
LEMMA TypeFromLogs ==
  ASSUME jSteps' \in JobLogs, jStored' \in JobLogs \cup {None},
         jPc' \in {"idle", "load", "run", "commit", "failed", "completed", "paused"},
         {jTurn', jDone', jCut', jResumes', jStarts'} \subseteq Nat
  PROVE  Jobs!TypeOK'
BY DEF Jobs!TypeOK, JobLogs, Outcome

LEMMA InitJob == Jobs!JobAssumption /\ Jobs!Init => JobInv
<1> SUFFICES ASSUME Jobs!JobAssumption, Jobs!Init PROVE JobInv
  OBVIOUS
<1>1. <<>> \in Seq(Outcome) /\ Len(<<>>) = 0
  BY EmptySeq
<1> QED
  BY <1>1 DEF Jobs!Init, JobInv, Jobs!TypeOK, Jobs!TurnFollowsLog, JobLogs, Outcome, Jobs!JobAssumption

LEMMA RunJob ==
  ASSUME Jobs!JobAssumption, JobInv, Jobs!Run
  PROVE  JobInv'
<1>1. PICK log \in Jobs!Loaded : jSteps' = log /\ jTurn' = Len(log)
  BY DEF Jobs!Run
<1>2. jSteps' \in JobLogs /\ jTurn' = Len(jSteps')
  BY <1>1, LoadedIsLog
<1>3. jSteps' \in Seq(Outcome)
  BY <1>2 DEF JobLogs
<1>4. jTurn' \in Nat
  BY <1>2, <1>3, LenProperties
<1>5. Jobs!TypeOK'
  BY <1>2, <1>4, TypeFromLogs DEF Jobs!Run, JobInv, Jobs!TypeOK
<1> QED
  BY <1>2, <1>4, <1>5 DEF Jobs!Run, JobInv, Jobs!TurnFollowsLog

LEMMA TurnJob ==
  ASSUME Jobs!JobAssumption, JobInv, Jobs!Turn
  PROVE  JobInv'
<1>1. jTurn \in Nat /\ jDone \in Nat /\ jTurn = Len(jSteps)
  BY DEF Jobs!Turn, JobInv, Jobs!TypeOK, Jobs!TurnFollowsLog
<1>2. jTurn' \in Nat /\ jDone' \in Nat /\ jTurn' = Len(jSteps') + 1 /\ jTurn' <= MaxSteps
  BY <1>1 DEF Jobs!Turn, Jobs!JobAssumption
<1>3. jOutcome' \in Outcome /\ jPc' = "commit"
  BY DEF Jobs!Turn, Outcome
<1>4. Jobs!TypeOK'
  BY <1>2, <1>3, TypeFromLogs DEF Jobs!Turn, JobInv, Jobs!TypeOK
<1> QED
  BY <1>2, <1>3, <1>4 DEF Jobs!Turn, JobInv, Jobs!TurnFollowsLog

LEMMA CommitJob ==
  ASSUME Jobs!JobAssumption, JobInv, Jobs!CommitStep
  PROVE  JobInv'
<1>1. jTurn = Len(jSteps) + 1 /\ jTurn <= MaxSteps /\ jOutcome \in Outcome /\ jSteps \in JobLogs
  BY DEF Jobs!CommitStep, JobInv, Jobs!TurnFollowsLog
<1>2. jSteps' = Append(jSteps, jOutcome) /\ jTurn' = jTurn /\ jPc' \in {"run", "failed"}
  BY DEF Jobs!CommitStep
<1>3. jSteps' \in JobLogs /\ jTurn' = Len(jSteps')
  BY <1>1, <1>2, AppendIsLog
<1>4. jStored' \in JobLogs \cup {None}
  BY <1>3, PersistKeepsLog DEF Jobs!CommitStep
<1>5. Jobs!TypeOK'
  BY <1>2, <1>3, <1>4, TypeFromLogs DEF Jobs!CommitStep, JobInv, Jobs!TypeOK
<1> QED
  BY <1>2, <1>3, <1>4, <1>5 DEF Jobs!CommitStep, JobInv, Jobs!TurnFollowsLog

LEMMA ResumeJob ==
  ASSUME Jobs!JobAssumption, JobInv, NEW from \in Nat, NEW goal \in BOOLEAN, Jobs!Resume(from, goal)
  PROVE  JobInv'
<1>1. PICK log \in Jobs!Loaded :
        /\ from <= Len(log)
        /\ jSteps' = SubSeq(log, 1, from)
        /\ jCut' = jCut + Len(log) - from
        /\ Jobs!Persist(jSteps')
  BY DEF Jobs!Resume
<1>2. jSteps' \in JobLogs /\ Len(log) - from \in Nat
  BY <1>1, LoadedIsLog, CutIsLog
<1>3. jStored' \in JobLogs \cup {None}
  BY <1>1, <1>2, PersistKeepsLog
<1>4. log \in Seq(Outcome)
  BY <1>1, LoadedIsLog DEF JobLogs
<1>5. Len(log) \in Nat
  BY <1>4, LenProperties
<1>6. jCut' \in Nat
  BY <1>1, <1>2, <1>5 DEF JobInv, Jobs!TypeOK
<1>7. /\ UNCHANGED <<jTurn, jOutcome, jStarts, jDone>> /\ jPc' \in {"load", "paused"}
      /\ jResumes' = jResumes + 1
  BY DEF Jobs!Resume
<1>8. Jobs!TypeOK'
  BY <1>2, <1>3, <1>6, <1>7, TypeFromLogs DEF JobInv, Jobs!TypeOK
<1> QED
  BY <1>2, <1>3, <1>7, <1>8 DEF JobInv, Jobs!TurnFollowsLog

LEMMA CrashJob ==
  ASSUME Jobs!JobAssumption, JobInv, Jobs!Crash
  PROVE  JobInv'
<1>1. jSteps' \in JobLogs
  <2>1. <<>> \in Seq(Outcome) /\ Len(<<>>) = 0
    BY EmptySeq
  <2> QED
    BY <2>1 DEF Jobs!Crash, JobLogs, Jobs!JobAssumption
<1>2. Jobs!TypeOK'
  BY <1>1, TypeFromLogs DEF Jobs!Crash, JobInv, Jobs!TypeOK
<1> QED
  BY <1>1, <1>2 DEF Jobs!Crash, JobInv, Jobs!TurnFollowsLog

LEMMA NextJob == Jobs!JobAssumption /\ JobInv /\ [Jobs!Next]_jVars => JobInv'
<1> SUFFICES ASSUME Jobs!JobAssumption, JobInv, [Jobs!Next]_jVars
             PROVE  JobInv'
  OBVIOUS
<1>1. CASE UNCHANGED jVars
  BY <1>1 DEF jVars, JobInv, Jobs!TypeOK, Jobs!TurnFollowsLog
<1>2. CASE Jobs!Complete
  BY <1>2 DEF Jobs!Complete, JobInv, Jobs!TypeOK, Jobs!TurnFollowsLog
<1>3. ASSUME NEW from \in 0..MaxSteps, NEW goal \in BOOLEAN, Jobs!Resume(from, goal)
      PROVE  JobInv'
  <2>1. from \in Nat
    BY DEF Jobs!JobAssumption
  <2> QED
    BY <1>3, <2>1, ResumeJob
<1> QED
  BY <1>1, <1>2, <1>3, RunJob, TurnJob, CommitJob, CrashJob DEF Jobs!Next

\* With a store that works, the runner's log is the stored one while a turn runs, and
\* every turn but the one that runs is stored, was cut, or was lost with a runner.
JobCost ==
  ~StoreFails =>
    /\ jStored = None => jSteps = <<>>
    /\ jPc \in {"run", "commit"} => Len(jSteps) = Jobs!Kept
    /\ jDone + (IF jPc = "commit" THEN 0 ELSE 1) <= Jobs!Kept + jCut + jStarts

LEMMA KeptIsNat == JobInv => Jobs!Kept \in Nat
<1> SUFFICES ASSUME JobInv PROVE Jobs!Kept \in Nat
  OBVIOUS
<1>1. jStored # None => jStored \in Seq(Outcome)
  BY DEF JobInv, JobLogs
<1> QED BY <1>1, LenProperties DEF Jobs!Kept

LEMMA RunCost ==
  ASSUME Jobs!JobAssumption, JobInv, JobCost, ~StoreFails, Jobs!Run
  PROVE  JobCost'
<1>1. PICK log \in Jobs!Loaded : jSteps' = log /\ jTurn' = Len(log)
  BY DEF Jobs!Run
<1>2. log = IF jStored = None THEN jSteps ELSE jStored
  BY DEF Jobs!Loaded
<1>3. UNCHANGED <<jStored, jStarts, jDone, jCut>> /\ jPc' = "run" /\ jPc # "commit"
  BY DEF Jobs!Run
<1>4. Jobs!Kept' = Jobs!Kept /\ Len(jSteps') = Jobs!Kept
  <2>1. Len(<<>>) = 0
    BY EmptySeq
  <2> QED BY <1>1, <1>2, <1>3, <2>1 DEF JobCost, Jobs!Kept
<1> QED BY <1>1, <1>2, <1>3, <1>4 DEF JobCost

LEMMA TurnCost ==
  ASSUME JobInv, JobCost, ~StoreFails, Jobs!Turn
  PROVE  JobCost'
<1>1. /\ UNCHANGED <<jSteps, jStored, jStarts, jCut>> /\ jPc = "run" /\ jPc' = "commit"
      /\ jDone' = jDone + 1 /\ jDone \in Nat
  BY DEF Jobs!Turn, JobInv, Jobs!TypeOK
<1>2. Jobs!Kept' = Jobs!Kept
  BY <1>1 DEF Jobs!Kept
<1> QED BY <1>1, <1>2 DEF JobCost

LEMMA CommitCost ==
  ASSUME Jobs!JobAssumption, JobInv, JobCost, ~StoreFails, Jobs!CommitStep
  PROVE  JobCost'
<1>1. /\ UNCHANGED <<jStarts, jDone, jCut>> /\ jPc = "commit" /\ jPc' \in {"run", "failed"}
      /\ jSteps' = Append(jSteps, jOutcome) /\ jStored' = jSteps'
  BY DEF Jobs!CommitStep, Jobs!Persist
<1>2. jSteps \in Seq(Outcome) /\ jOutcome \in Outcome
  BY DEF JobInv, JobLogs
<1>3. jSteps' \in Seq(Outcome) /\ Len(jSteps') = Len(jSteps) + 1
  BY <1>1, <1>2, AppendProperties
<1>4. jStored' # None
  BY <1>1, <1>3 DEF Jobs!JobAssumption, Outcome
<1>5. Jobs!Kept' = Len(jSteps') /\ Len(jSteps) = Jobs!Kept
  BY <1>1, <1>4 DEF Jobs!Kept, JobCost
<1>6. {jDone, jCut, jStarts, Jobs!Kept} \subseteq Nat
  BY KeptIsNat DEF JobInv, Jobs!TypeOK
<1> QED BY <1>1, <1>3, <1>4, <1>5, <1>6 DEF JobCost

LEMMA ResumeCost ==
  ASSUME Jobs!JobAssumption, JobInv, JobCost, ~StoreFails, NEW from \in Nat,
         NEW goal \in BOOLEAN, Jobs!Resume(from, goal)
  PROVE  JobCost'
<1>1. PICK log \in Jobs!Loaded :
        /\ from <= Len(log)
        /\ jSteps' = SubSeq(log, 1, from)
        /\ jCut' = jCut + Len(log) - from
        /\ jStored' = jSteps'
  BY DEF Jobs!Resume, Jobs!Persist
<1>2. log = IF jStored = None THEN jSteps ELSE jStored
  BY DEF Jobs!Loaded
<1>3. /\ UNCHANGED <<jStarts, jDone>> /\ jPc' \in {"load", "paused"}
      /\ jPc \in {"idle", "failed", "completed", "paused"}
  BY DEF Jobs!Resume
<1>4. log \in Seq(Outcome)
  BY <1>1, LoadedIsLog DEF JobLogs
<1>5. Len(log) \in Nat /\ jSteps' \in Seq(Outcome) /\ Len(jSteps') = from
  BY <1>1, <1>4, LenProperties, SubSeqProperties
<1>6. jStored' # None
  BY <1>1, <1>5 DEF Jobs!JobAssumption, Outcome
<1>7. Jobs!Kept' = from
  BY <1>1, <1>5, <1>6 DEF Jobs!Kept
<1>8. Len(log) = Jobs!Kept
  <2>1. Len(<<>>) = 0
    BY EmptySeq
  <2> QED BY <1>2, <2>1 DEF JobCost, Jobs!Kept
<1>9. {jDone, jCut, jStarts, Jobs!Kept} \subseteq Nat
  BY KeptIsNat DEF JobInv, Jobs!TypeOK
<1>10. jDone + 1 <= Jobs!Kept + jCut + jStarts
  BY <1>3 DEF JobCost
<1>11. jDone' + 1 <= Jobs!Kept' + jCut' + jStarts'
  BY <1>1, <1>3, <1>7, <1>8, <1>9, <1>10
<1> QED BY <1>3, <1>6, <1>11 DEF JobCost

LEMMA CrashCost ==
  ASSUME JobInv, JobCost, ~StoreFails, Jobs!Crash
  PROVE  JobCost'
<1>1. /\ UNCHANGED <<jStored, jDone, jCut>> /\ jPc' = "idle" /\ jStarts' = jStarts + 1
      /\ jSteps' = <<>>
  BY DEF Jobs!Crash
<1>2. Jobs!Kept' = Jobs!Kept
  BY <1>1 DEF Jobs!Kept
<1>3. {jDone, jCut, jStarts, Jobs!Kept} \subseteq Nat
  BY KeptIsNat DEF JobInv, Jobs!TypeOK
<1>4. jDone <= Jobs!Kept + jCut + jStarts
  BY <1>3 DEF JobCost
<1> QED BY <1>1, <1>2, <1>3, <1>4 DEF JobCost

LEMMA NextCost ==
  Jobs!JobAssumption /\ JobInv /\ JobCost /\ [Jobs!Next]_jVars => JobCost'
<1> SUFFICES ASSUME Jobs!JobAssumption, JobInv, JobCost, [Jobs!Next]_jVars, ~StoreFails
             PROVE  JobCost'
  BY DEF JobCost
<1>1. CASE UNCHANGED jVars
  BY <1>1 DEF jVars, JobCost, Jobs!Kept
<1>2. CASE Jobs!Complete
  BY <1>2 DEF Jobs!Complete, JobCost, Jobs!Kept
<1>3. ASSUME NEW from \in 0..MaxSteps, NEW goal \in BOOLEAN, Jobs!Resume(from, goal)
      PROVE  JobCost'
  <2>1. from \in Nat
    BY DEF Jobs!JobAssumption
  <2> QED BY <1>3, <2>1, ResumeCost
<1> QED BY <1>1, <1>2, <1>3, RunCost, TurnCost, CommitCost, CrashCost DEF Jobs!Next

LEMMA InitCost == Jobs!JobAssumption /\ Jobs!Init => JobCost
<1> SUFFICES ASSUME Jobs!Init PROVE JobCost
  OBVIOUS
<1>1. Len(<<>>) = 0
  BY EmptySeq
<1> QED BY <1>1 DEF Jobs!Init, JobCost, Jobs!Kept

\* What the two say of a job.
LEMMA JobMeans ==
  ASSUME JobInv, JobCost
  PROVE  Jobs!LogIsBounded /\ Jobs!TurnFollowsLog /\ (~StoreFails => Jobs!OneTurnIsRepeated)
<1>1. {jDone, jCut, jStarts, Jobs!Kept} \subseteq Nat
  BY KeptIsNat DEF JobInv, Jobs!TypeOK
<1>2. ~StoreFails => jDone <= Jobs!Kept + jCut + jStarts
  BY <1>1 DEF JobCost
<1> QED BY <1>2 DEF JobInv, JobLogs, Jobs!LogIsBounded, Jobs!OneTurnIsRepeated

\* With a store that works, a job that waits to load its log has it as it is stored.
JobBack == ~StoreFails /\ jPc = "load" => jStored = jSteps

LEMMA NextBack ==
  ASSUME JobBack, [Jobs!Next]_jVars
  PROVE  JobBack' /\ (~StoreFails => Jobs!BackToLog)
<1>1. CASE UNCHANGED jVars
  BY <1>1 DEF jVars, JobBack, Jobs!BackToLog
<1>2. CASE Jobs!Run
  <2>1. ASSUME ~StoreFails, jPc = "load" PROVE jSteps' = jSteps
    BY <1>2, <2>1 DEF Jobs!Run, Jobs!Loaded, JobBack
  <2>2. jPc' = "run"
    BY <1>2 DEF Jobs!Run
  <2> QED BY <2>1, <2>2 DEF JobBack, Jobs!BackToLog
<1>3. CASE Jobs!Turn \/ Jobs!CommitStep \/ Jobs!Complete \/ Jobs!Crash
  BY <1>3 DEF Jobs!Turn, Jobs!CommitStep, Jobs!Complete, Jobs!Crash, JobBack, Jobs!BackToLog
<1>4. ASSUME NEW from \in 0..MaxSteps, NEW goal \in BOOLEAN, Jobs!Resume(from, goal)
      PROVE  JobBack' /\ (~StoreFails => Jobs!BackToLog)
  <2>1. jPc' \in {"load", "paused"} /\ jPc # "load"
    BY <1>4 DEF Jobs!Resume
  <2>2. ~StoreFails => jStored' = jSteps'
    BY <1>4 DEF Jobs!Resume, Jobs!Persist
  <2> QED BY <2>1, <2>2 DEF JobBack, Jobs!BackToLog
<1> QED BY <1>1, <1>2, <1>3, <1>4 DEF Jobs!Next

-----------------------------------------------------------------------------
(* The repository (GitSession). *)

Trees == [Files -> [n : Nat, there : BOOLEAN]]
Entries == [tree : Trees, by : GitSessions \cup {"operator"}]
GitPlaces == {"idle", "add", "commit", "log", "committed", "failed", "exists", "tag", "untag",
              "retag", "tagged"}

GitTypes ==
  /\ gSetup \in GitSetups
  /\ gWork \in Trees /\ gIndex \in Trees
  /\ gLog \in Seq(Entries) /\ Len(gLog) \in Nat \ {0}
  /\ gTag \in [Names -> Nat]
  /\ gPc \in [GitSessions -> GitPlaces] /\ gPaths \in [GitSessions -> SUBSET Files]
  /\ gLast \in [GitSessions -> 0..Len(gLog)] /\ gName \in [GitSessions -> Names]
  /\ gTarget \in [GitSessions -> Nat] /\ gStray \in SUBSET gSetup.sessions
  /\ gSeen \in [GitSessions -> Trees] /\ gHead \in [GitSessions -> Nat]
  /\ gMine \in [GitSessions -> SUBSET Nat]

\* No file of a is older than in b.
Newer(a, b) == \A f \in Files : b[f].n <= a[f].n

\* The work tree is the newest, then the index, then the last commit.
TreesGrow == Newer(gWork, gIndex) /\ Newer(gIndex, Git!Tip)

\* What a commit of s still has to take in is in the index, then in the last commit.
SeenOf(s) ==
  /\ Newer(gWork, gSeen[s])
  /\ gPc[s] = "add" => \A f \in Files \ gPaths[s] : gSeen[s][f].n <= gIndex[f].n
  /\ gPc[s] = "commit" => Newer(gIndex, gSeen[s])
  /\ gPc[s] = "log" => Newer(Git!Tip, gSeen[s])
  /\ gPc[s] = "committed" => gLast[s] # 0 /\ Newer(gLog[gLast[s]].tree, gSeen[s])
SeenIsKept == \A s \in GitSessions : SeenOf(s)

\* A session that is alone in the repository knows its last commit.
OwnOf(s) ==
  /\ gPc[s] \notin {"untag", "retag"}
  /\ gPc[s] # "log" /\ gLast[s] # 0 => gLast[s] = Len(gLog)
  /\ gPc[s] = "log" => Len(gLog) \in gMine[s]
  /\ gPc[s] = "committed" => gLast[s] \in gMine[s]
  /\ gPc[s] = "tag" => gTag[gName[s]] = 0
  /\ gPc[s] \in {"exists", "tag", "tagged"} => gHead[s] <= gTarget[s]
OwnIsKept ==
  Alone => /\ gStray = {}
           /\ \A s \in GitSessions \ gSetup.sessions : gPc[s] = "idle"
           /\ \A s \in gSetup.sessions : OwnOf(s)

GitInv == GitTypes /\ TreesGrow /\ SeenIsKept /\ OwnIsKept

LEMMA InitGit == KeptAssumption /\ Git!Init => GitInv
<1> SUFFICES ASSUME KeptAssumption, Git!Init PROVE GitInv
  OBVIOUS
<1> USE DEF Git!Init
<1>1. gWork \in Trees /\ gIndex = gWork
  BY DEF Trees
<1>2. /\ gLog \in Seq(Entries) /\ Len(gLog) = 1 /\ gLog[1].tree = gWork
  <2> DEFINE e == [tree |-> gWork, by |-> "operator"]
  <2>1. e \in Entries /\ e.tree = gWork /\ gLog = <<e>>
    BY <1>1 DEF Entries
  <2> HIDE DEF e
  <2>2. <<e>> \in Seq(Entries)
    BY <2>1
  <2>3. Len(<<e>>) = 1 /\ <<e>>[1] = e
    OBVIOUS
  <2> QED BY <2>1, <2>2, <2>3
<1>3. Git!Tip = gWork
  BY <1>2 DEF Git!Tip
<1>4. \A f \in Files : gWork[f].n = 0
  OBVIOUS
<1>5. GitTypes
  <2>1. /\ gTag \in [Names -> Nat] /\ gPc \in [GitSessions -> GitPlaces]
        /\ gPaths \in [GitSessions -> SUBSET Files]
    BY DEF GitPlaces
  <2>2. /\ gLast \in [GitSessions -> 0..Len(gLog)] /\ gTarget \in [GitSessions -> Nat]
        /\ gSeen \in [GitSessions -> Trees] /\ gHead \in [GitSessions -> Nat]
    BY <1>1, <1>2
  <2>3. gMine \in [GitSessions -> SUBSET Nat] /\ gStray \in SUBSET gSetup.sessions
    OBVIOUS
  <2>4. gSetup \in GitSetups /\ gName \in [GitSessions -> Names] /\ Len(gLog) \in Nat \ {0}
    BY <1>2
  <2> QED BY <1>1, <1>2, <2>1, <2>2, <2>3, <2>4 DEF GitTypes
<1>6. TreesGrow
  BY <1>1, <1>3, <1>4 DEF TreesGrow, Newer
<1>7. SeenIsKept
  BY <1>1, <1>4 DEF SeenIsKept, SeenOf, Newer
<1>8. OwnIsKept
  <2>1. \A s \in gSetup.sessions : s \in GitSessions
    BY DEF KeptAssumption, Git!GitAssumption
  <2> QED BY <2>1 DEF OwnIsKept, OwnOf
<1> QED BY <1>5, <1>6, <1>7, <1>8 DEF GitInv

-----------------------------------------------------------------------------
(* Trees and the log. *)

LEMMA NewerIsOrder ==
  ASSUME NEW a \in Trees, NEW b \in Trees, NEW c \in Trees
  PROVE  /\ Newer(a, a)
         /\ Newer(a, b) /\ Newer(b, c) => Newer(a, c)
<1>1. \A t \in Trees : \A f \in Files : t[f].n \in Nat
  BY DEF Trees
<1> QED BY <1>1 DEF Newer

LEMMA TipIsTree ==
  ASSUME GitTypes
  PROVE  Git!Tip \in Trees /\ \A i \in 1..Len(gLog) : gLog[i].tree \in Trees
<1>1. \A i \in 1..Len(gLog) : gLog[i] \in Entries
  BY DEF GitTypes
<1>2. Len(gLog) \in 1..Len(gLog)
  BY DEF GitTypes
<1> QED BY <1>1, <1>2 DEF Entries, Git!Tip

\* A commit of the tree t by whoever.
LEMMA AppendedLog ==
  ASSUME GitTypes, NEW t \in Trees, NEW b \in GitSessions \cup {"operator"},
         gLog' = Append(gLog, [tree |-> t, by |-> b])
  PROVE  /\ gLog' \in Seq(Entries) /\ Len(gLog') = Len(gLog) + 1 /\ Len(gLog') \in Nat \ {0}
         /\ Git!Tip' = t
         /\ \A i \in 1..Len(gLog) : gLog'[i] = gLog[i]
<1> DEFINE e == [tree |-> t, by |-> b]
<1>1. e \in Entries /\ gLog \in Seq(Entries) /\ Len(gLog) \in Nat \ {0}
  BY DEF Entries, GitTypes
<1>2. e.tree = t
  OBVIOUS
<1> HIDE DEF e
<1>3. gLog' = Append(gLog, e)
  BY DEF e
<1>4. /\ gLog' \in Seq(Entries) /\ Len(gLog') = Len(gLog) + 1
      /\ \A i \in 1..Len(gLog) : gLog'[i] = gLog[i]
      /\ gLog'[Len(gLog) + 1] = e
  BY <1>1, <1>3, AppendProperties
<1> QED BY <1>1, <1>2, <1>4 DEF Git!Tip

\* What a step does that leaves the log alone or appends to it a tree that is newer.
LogGrows ==
  /\ gLog' \in Seq(Entries) /\ Len(gLog') \in Nat \ {0} /\ Len(gLog) <= Len(gLog')
  /\ Git!Tip' \in Trees /\ Newer(Git!Tip', Git!Tip)
  /\ \A i \in 1..Len(gLog) : gLog'[i] = gLog[i]

LEMMA SameLogGrows == ASSUME GitTypes, UNCHANGED gLog PROVE LogGrows /\ Git!Tip' = Git!Tip
<1>1. Git!Tip' = Git!Tip
  BY DEF Git!Tip
<1>2. Git!Tip \in Trees
  BY TipIsTree
<1>3. Newer(Git!Tip, Git!Tip)
  BY <1>2, NewerIsOrder
<1> QED BY <1>1, <1>2, <1>3 DEF LogGrows, GitTypes

\* What the session r has to keep survives a step that is not one of its own.
LEMMA OthersSeen ==
  ASSUME GitTypes, NEW r \in GitSessions, SeenOf(r), LogGrows,
         gWork' \in Trees, gIndex' \in Trees, Newer(gWork', gWork), Newer(gIndex', gIndex),
         gPc'[r] = gPc[r], gPaths'[r] = gPaths[r], gLast'[r] = gLast[r], gSeen'[r] = gSeen[r]
  PROVE  SeenOf(r)'
<1>1. gSeen[r] \in Trees /\ gWork \in Trees /\ gIndex \in Trees /\ Git!Tip \in Trees
  BY TipIsTree DEF GitTypes
<1>2. Newer(gWork', gSeen[r])
  BY <1>1, NewerIsOrder DEF SeenOf
<1>3. gPc[r] = "add" => \A f \in Files \ gPaths[r] : gSeen[r][f].n <= gIndex'[f].n
  <2>1. \A f \in Files : {gSeen[r][f].n, gIndex[f].n, gIndex'[f].n} \subseteq Nat
    BY <1>1 DEF Trees
  <2> QED BY <2>1 DEF SeenOf, Newer
<1>4. gPc[r] = "commit" => Newer(gIndex', gSeen[r])
  BY <1>1, NewerIsOrder DEF SeenOf
<1>5. gPc[r] = "log" => Newer(Git!Tip', gSeen[r])
  BY <1>1, NewerIsOrder DEF SeenOf, LogGrows
<1>6. gPc[r] = "committed" => gLast[r] # 0 /\ Newer(gLog'[gLast[r]].tree, gSeen[r])
  <2>1. gPc[r] = "committed" => gLast[r] # 0 /\ gLast[r] \in 1..Len(gLog)
    BY DEF SeenOf, GitTypes
  <2> QED BY <2>1 DEF SeenOf, LogGrows
<1> QED BY <1>2, <1>3, <1>4, <1>5, <1>6 DEF SeenOf, Newer

\* A step of one session, which leaves what belongs to the others alone.
LEMMA OneSession ==
  ASSUME KeptAssumption, GitInv, NEW s \in gSetup.sessions, LogGrows, UNCHANGED gSetup,
         gWork' \in Trees, gIndex' \in Trees, Newer(gWork', gWork), Newer(gIndex', gIndex),
         \A r \in GitSessions \ {s} : /\ gPc'[r] = gPc[r] /\ gPaths'[r] = gPaths[r]
                                      /\ gLast'[r] = gLast[r] /\ gSeen'[r] = gSeen[r],
         SeenOf(s)', Alone => gStray' = {} /\ OwnOf(s)'
  PROVE  SeenIsKept' /\ OwnIsKept'
<1>1. SeenIsKept'
  <2>1. ASSUME NEW r \in GitSessions, r # s PROVE SeenOf(r)'
    BY <2>1, OthersSeen DEF GitInv, SeenIsKept
  <2> QED BY <2>1 DEF SeenIsKept
<1>2. OwnIsKept'
  <2> SUFFICES ASSUME Alone
               PROVE  /\ gStray' = {}
                      /\ \A r \in GitSessions \ gSetup.sessions : gPc'[r] = "idle"
                      /\ \A r \in gSetup.sessions : OwnOf(r)'
    BY DEF OwnIsKept, Alone
  <2>1. \A r \in gSetup.sessions : r = s
    BY DEF Alone
  <2>2. \A r \in GitSessions \ gSetup.sessions : gPc'[r] = "idle"
    BY DEF GitInv, OwnIsKept
  <2> QED BY <2>1, <2>2
<1> QED BY <1>1, <1>2

\* A step that is not of a session.
LEMMA NoSession ==
  ASSUME GitInv, LogGrows, UNCHANGED <<gSetup, gTag, gPc, gPaths, gLast, gName, gTarget,
                                       gStray, gSeen, gHead, gMine>>,
         gWork' \in Trees, gIndex' \in Trees, Newer(gWork', gWork), Newer(gIndex', gIndex),
         Alone => UNCHANGED gLog
  PROVE  SeenIsKept' /\ OwnIsKept'
<1>1. SeenIsKept'
  <2>1. ASSUME NEW r \in GitSessions PROVE SeenOf(r)'
    BY <2>1, OthersSeen DEF GitInv, SeenIsKept
  <2> QED BY <2>1 DEF SeenIsKept
<1>2. OwnIsKept'
  BY DEF GitInv, OwnIsKept, OwnOf, Alone
<1> QED BY <1>1, <1>2

LEMMA EditGit ==
  ASSUME KeptAssumption, GitInv, NEW f \in gSetup.files, NEW there \in BOOLEAN, Git!Edit(f, there)
  PROVE  GitInv'
<1> USE DEF Git!Edit
<1>1. GitTypes /\ f \in Files
  BY DEF GitInv, GitTypes, KeptAssumption, Git!GitAssumption
<1>2. gWork' \in Trees /\ gIndex' \in Trees /\ UNCHANGED gIndex
  BY <1>1 DEF GitTypes, Trees, Git!inst
<1>3. Newer(gWork', gWork) /\ Newer(gIndex', gIndex)
  BY <1>1 DEF GitTypes, Trees, Newer
<1>4. LogGrows /\ Git!Tip' = Git!Tip
  BY <1>1, SameLogGrows
<1>5. GitTypes'
  BY <1>1, <1>2 DEF GitTypes, Git!inst
<1>6. TreesGrow'
  BY <1>1, <1>2, <1>3, <1>4, NewerIsOrder DEF GitInv, TreesGrow, GitTypes
<1>7. SeenIsKept' /\ OwnIsKept'
  BY <1>2, <1>3, <1>4, NoSession DEF Git!inst
<1> QED BY <1>5, <1>6, <1>7 DEF GitInv

LEMMA StageGit ==
  ASSUME KeptAssumption, GitInv, NEW f \in gSetup.files, Git!StageRemoval(f)
  PROVE  GitInv'
<1> USE DEF Git!StageRemoval
<1>1. GitTypes /\ f \in Files
  BY DEF GitInv, GitTypes, KeptAssumption, Git!GitAssumption
<1>2. gWork' \in Trees /\ gIndex' \in Trees
  BY <1>1 DEF GitTypes, Trees
<1>3. Newer(gWork', gWork) /\ Newer(gIndex', gIndex) /\ Newer(gWork', gIndex')
  BY <1>1 DEF GitInv, TreesGrow, GitTypes, Trees, Newer
<1>4. LogGrows /\ Git!Tip' = Git!Tip
  BY <1>1, SameLogGrows
<1>5. GitTypes'
  BY <1>1, <1>2 DEF GitTypes, Git!inst
<1>6. TreesGrow'
  <2>1. Newer(gIndex', Git!Tip)
    BY <1>1, <1>2, <1>3, NewerIsOrder, TipIsTree DEF GitInv, TreesGrow, GitTypes
  <2> QED BY <2>1, <1>3, <1>4 DEF TreesGrow
<1>7. SeenIsKept' /\ OwnIsKept'
  BY <1>2, <1>3, <1>4, NoSession DEF Git!inst
<1> QED BY <1>5, <1>6, <1>7 DEF GitInv

LEMMA ShellGit ==
  ASSUME KeptAssumption, GitInv, Git!ShellCommit
  PROVE  GitInv'
<1>1. /\ gSetup.shell /\ gIndex' = gWork /\ UNCHANGED gWork
      /\ gLog' = Append(gLog, [tree |-> gWork, by |-> "operator"])
      /\ UNCHANGED <<gSetup, gTag, gPc, gPaths, gLast, gName, gTarget, gStray, gSeen, gHead, gMine>>
  BY DEF Git!ShellCommit, Git!inst
<1>2. GitTypes /\ gWork \in Trees /\ gIndex \in Trees /\ Git!Tip \in Trees
  BY TipIsTree DEF GitInv, GitTypes
<1>3. /\ gLog' \in Seq(Entries) /\ Len(gLog') = Len(gLog) + 1 /\ Len(gLog') \in Nat \ {0}
      /\ Git!Tip' = gWork /\ \A i \in 1..Len(gLog) : gLog'[i] = gLog[i]
  BY <1>1, <1>2, AppendedLog
<1>4. Newer(gWork, gWork) /\ Newer(gWork, gIndex) /\ Newer(gWork, Git!Tip)
  BY <1>2, NewerIsOrder DEF GitInv, TreesGrow
<1>5. LogGrows
  BY <1>2, <1>3, <1>4 DEF LogGrows, GitTypes
<1>6. GitTypes'
  <2>1. gLast' \in [GitSessions -> 0..Len(gLog')]
    BY <1>1, <1>2, <1>3 DEF GitTypes
  <2> QED BY <2>1, <1>1, <1>2, <1>3 DEF GitTypes
<1>7. TreesGrow'
  BY <1>1, <1>3, <1>4 DEF TreesGrow, Newer
<1>8. SeenIsKept' /\ OwnIsKept'
  BY <1>1, <1>2, <1>4, <1>5, NoSession DEF GitInv, Alone
<1> QED BY <1>6, <1>7, <1>8 DEF GitInv

-----------------------------------------------------------------------------
(* The steps of a session. *)

\* Each step moves the place of its session.
LEMMA PlaceMoves ==
  ASSUME GitTypes, NEW s \in GitSessions, NEW p \in GitPlaces, Git!Go(s, p)
  PROVE  /\ gPc' \in [GitSessions -> GitPlaces] /\ gPc'[s] = p
         /\ \A r \in GitSessions \ {s} : gPc'[r] = gPc[r]
BY DEF GitTypes, Git!Go

LEMMA SameTrees ==
  ASSUME GitInv, UNCHANGED <<gWork, gIndex, gLog>>
  PROVE  /\ LogGrows /\ gWork' \in Trees /\ gIndex' \in Trees /\ Git!Tip' = Git!Tip
         /\ Newer(gWork', gWork) /\ Newer(gIndex', gIndex) /\ TreesGrow'
<1>1. GitTypes /\ gWork \in Trees /\ gIndex \in Trees
  BY DEF GitInv, GitTypes
<1>2. LogGrows /\ Git!Tip' = Git!Tip
  BY <1>1, SameLogGrows
<1>3. Newer(gWork, gWork) /\ Newer(gIndex, gIndex)
  BY <1>1, NewerIsOrder
<1> QED BY <1>1, <1>2, <1>3 DEF GitInv, TreesGrow, Newer

LEMMA StatusGit ==
  ASSUME KeptAssumption, GitInv, NEW s \in gSetup.sessions, Git!Status(s)
  PROVE  GitInv'
<1> USE DEF Git!Status, Git!repo
<1>1. GitTypes /\ s \in GitSessions
  BY DEF GitInv, GitTypes, KeptAssumption, Git!GitAssumption
<1>2. /\ LogGrows /\ gWork' \in Trees /\ gIndex' \in Trees /\ Git!Tip' = Git!Tip
      /\ Newer(gWork', gWork) /\ Newer(gIndex', gIndex) /\ TreesGrow'
  BY SameTrees
<1>3. /\ gPc' \in [GitSessions -> GitPlaces] /\ gPc'[s] \in {"idle", "add"}
      /\ \A r \in GitSessions \ {s} : gPc'[r] = gPc[r]
  <2> DEFINE p == IF Git!Changed = {} THEN "idle" ELSE "add"
  <2>1. Git!Go(s, p) /\ p \in GitPlaces /\ p \in {"idle", "add"}
    BY DEF GitPlaces
  <2> HIDE DEF p
  <2> QED BY <2>1, <1>1, PlaceMoves
<1>4. GitTypes'
  <2>1. gSeen' \in [GitSessions -> Trees] /\ gHead' \in [GitSessions -> Nat]
        /\ gPaths' \in [GitSessions -> SUBSET Files]
    BY <1>1 DEF GitTypes, Git!Changed
  <2> QED BY <2>1, <1>1, <1>3 DEF GitTypes
<1>5. SeenOf(s)'
  <2>1. gSeen'[s] = gWork /\ gPaths'[s] = Git!Changed
    BY <1>1 DEF GitTypes
  <2>2. Newer(gWork, gWork) /\ \A f \in Files : gWork[f].n \in Nat
    BY <1>1, NewerIsOrder DEF GitTypes, Trees
  <2>3. \A f \in Files \ Git!Changed : gWork[f].n <= gIndex[f].n
    BY <2>2 DEF Git!Changed
  <2> QED BY <2>1, <2>2, <2>3, <1>3 DEF SeenOf, Newer
<1>6. Alone => gStray' = {} /\ OwnOf(s)'
  BY <1>1, <1>3 DEF GitInv, OwnIsKept, OwnOf, GitTypes
<1>7. SeenIsKept' /\ OwnIsKept'
  <2>1. \A r \in GitSessions \ {s} : /\ gPc'[r] = gPc[r] /\ gPaths'[r] = gPaths[r]
                                     /\ gLast'[r] = gLast[r] /\ gSeen'[r] = gSeen[r]
    BY <1>1, <1>3 DEF GitTypes
  <2> QED BY <2>1, <1>2, <1>5, <1>6, OneSession
<1> QED BY <1>2, <1>4, <1>7 DEF GitInv

LEMMA AddGit ==
  ASSUME KeptAssumption, GitInv, NEW s \in gSetup.sessions, Git!Add(s)
  PROVE  GitInv'
<1> USE DEF Git!Add
<1>1. GitTypes /\ s \in GitSessions /\ gWork \in Trees /\ gIndex \in Trees /\ Git!Tip \in Trees
  BY TipIsTree DEF GitInv, GitTypes, KeptAssumption, Git!GitAssumption
<1>2. LogGrows /\ Git!Tip' = Git!Tip
  BY <1>1, SameLogGrows
<1>3. /\ gPc' \in [GitSessions -> GitPlaces] /\ gPc'[s] \in {"failed", "commit"}
      /\ \A r \in GitSessions \ {s} : gPc'[r] = gPc[r]
  <2>1. PICK p \in {"failed", "commit"} : Git!Go(s, p)
    OBVIOUS
  <2> QED BY <2>1, <1>1, PlaceMoves DEF GitPlaces
<1>4. gIndex' \in Trees /\ Newer(gIndex', gIndex) /\ Newer(gWork, gIndex')
  <2>1. \A f \in Files : gIndex[f].n <= gWork[f].n /\ {gIndex[f].n, gWork[f].n} \subseteq Nat
    BY <1>1 DEF GitInv, TreesGrow, Newer, Trees
  <2>2. CASE gIndex' = gIndex
    BY <2>1, <2>2, <1>1 DEF Newer
  <2>3. CASE gIndex' = [f \in Files |-> IF f \in gPaths[s] THEN gWork[f] ELSE gIndex[f]]
    BY <2>1, <2>3, <1>1 DEF Newer, Trees
  <2> QED BY <2>2, <2>3
<1>5. Newer(gWork, gWork)
  BY <1>1, NewerIsOrder
<1>6. GitTypes'
  BY <1>1, <1>3, <1>4 DEF GitTypes
<1>7. TreesGrow'
  <2>1. Newer(gIndex', Git!Tip)
    BY <1>1, <1>4, NewerIsOrder DEF GitInv, TreesGrow
  <2> QED BY <2>1, <1>2, <1>4 DEF TreesGrow, Newer
<1>8. SeenOf(s)'
  <2>1. /\ Newer(gWork, gSeen[s]) /\ \A f \in Files \ gPaths[s] : gSeen[s][f].n <= gIndex[f].n
        /\ UNCHANGED <<gWork, gSeen>>
    BY <1>1 DEF GitInv, SeenIsKept, SeenOf
  <2>2. gPc'[s] = "commit" => gIndex' = [f \in Files |-> IF f \in gPaths[s] THEN gWork[f] ELSE gIndex[f]]
    BY <1>1 DEF Git!Go, GitTypes
  <2>3. gPc'[s] = "commit" => Newer(gIndex', gSeen[s])
    BY <2>1, <2>2 DEF Newer
  <2> QED BY <2>1, <2>3, <1>3 DEF SeenOf, Newer
<1>9. Alone => gStray' = {} /\ OwnOf(s)'
  BY <1>1, <1>3 DEF GitInv, OwnIsKept, OwnOf, GitTypes
<1>10. SeenIsKept' /\ OwnIsKept'
  BY <1>1, <1>2, <1>3, <1>4, <1>5, <1>8, <1>9, OneSession
<1> QED BY <1>6, <1>7, <1>10 DEF GitInv

\* git commit appends the index, when there is something to commit.
LEMMA CommittedGit ==
  ASSUME KeptAssumption, GitInv, NEW s \in gSetup.sessions, Git!Committed(s),
         UNCHANGED <<gWork, gIndex>>
  PROVE  /\ LogGrows /\ gMine' \in [GitSessions -> SUBSET Nat] /\ TreesGrow'
         /\ gIndex # Git!Tip => Git!Tip' = gIndex /\ Len(gLog') \in gMine'[s]
         /\ gIndex = Git!Tip => UNCHANGED <<gLog, gMine>>
<1>1. GitTypes /\ s \in GitSessions /\ gWork \in Trees /\ gIndex \in Trees /\ Git!Tip \in Trees
  BY TipIsTree DEF GitInv, GitTypes, KeptAssumption, Git!GitAssumption
<1>2. CASE gIndex = Git!Tip
  BY <1>1, <1>2, SameTrees DEF Git!Committed, GitTypes
<1>3. CASE gIndex # Git!Tip
  <2>1. /\ gLog' = Append(gLog, [tree |-> gIndex, by |-> s])
        /\ gMine' = [gMine EXCEPT ![s] = @ \cup {Len(gLog')}]
    BY <1>3 DEF Git!Committed
  <2>2. /\ gLog' \in Seq(Entries) /\ Len(gLog') = Len(gLog) + 1 /\ Len(gLog') \in Nat \ {0}
        /\ Git!Tip' = gIndex /\ \A i \in 1..Len(gLog) : gLog'[i] = gLog[i]
    BY <2>1, <1>1, AppendedLog
  <2>3. Newer(gIndex, gIndex) /\ Newer(gIndex, Git!Tip) /\ Newer(gWork, gIndex)
    BY <1>1, NewerIsOrder DEF GitInv, TreesGrow
  <2>4. LogGrows
    BY <1>1, <2>2, <2>3 DEF LogGrows, GitTypes
  <2>5. gMine' \in [GitSessions -> SUBSET Nat] /\ Len(gLog') \in gMine'[s]
    BY <1>1, <2>1, <2>2 DEF GitTypes
  <2> QED BY <2>2, <2>3, <2>4, <2>5, <1>3 DEF TreesGrow, Newer
<1> QED BY <1>2, <1>3

LEMMA CommitGit ==
  ASSUME KeptAssumption, GitInv, NEW s \in gSetup.sessions, Git!Commit(s)
  PROVE  GitInv'
<1>1. GitTypes /\ s \in GitSessions /\ gWork \in Trees /\ gIndex \in Trees
  BY DEF GitInv, GitTypes, KeptAssumption, Git!GitAssumption
<1>2. /\ gPc[s] = "commit" /\ Git!Committed(s)
      /\ UNCHANGED <<gSetup, gWork, gIndex, gTag, gPaths, gLast, gName, gTarget, gStray, gSeen, gHead>>
  BY DEF Git!Commit
<1>3. /\ LogGrows /\ gMine' \in [GitSessions -> SUBSET Nat] /\ TreesGrow'
      /\ gIndex # Git!Tip => Git!Tip' = gIndex /\ Len(gLog') \in gMine'[s]
      /\ gIndex = Git!Tip => UNCHANGED <<gLog, gMine>>
  BY <1>2, CommittedGit
<1>4. /\ gPc' \in [GitSessions -> GitPlaces]
      /\ gPc'[s] = (IF gIndex = Git!Tip THEN "failed" ELSE "log")
      /\ \A r \in GitSessions \ {s} : gPc'[r] = gPc[r]
  <2> DEFINE p == IF gIndex = Git!Tip THEN "failed" ELSE "log"
  <2>1. Git!Go(s, p) /\ p \in GitPlaces
    BY DEF GitPlaces, Git!Commit
  <2>2. gPc' \in [GitSessions -> GitPlaces] /\ gPc'[s] = p
        /\ \A r \in GitSessions \ {s} : gPc'[r] = gPc[r]
    <3> HIDE DEF p
    <3> QED BY <2>1, <1>1, PlaceMoves
  <2> QED BY <2>2
<1>5. Newer(gWork, gWork) /\ Newer(gIndex, gIndex)
  BY <1>1, NewerIsOrder
<1>6. GitTypes'
  <2>1. gLast' \in [GitSessions -> 0..Len(gLog')]
    BY <1>1, <1>2, <1>3 DEF GitTypes, LogGrows
  <2> QED BY <2>1, <1>1, <1>2, <1>3, <1>4 DEF GitTypes, LogGrows
<1>7. SeenOf(s)'
  <2>1. Newer(gWork, gSeen[s]) /\ Newer(gIndex, gSeen[s])
    BY <1>1, <1>2 DEF GitInv, SeenIsKept, SeenOf
  <2>2. gPc'[s] = "log" => Newer(Git!Tip', gSeen[s])
    BY <2>1, <1>3, <1>4
  <2> QED BY <2>1, <2>2, <1>2, <1>4 DEF SeenOf, Newer
<1>8. Alone => gStray' = {} /\ OwnOf(s)'
  <2> SUFFICES ASSUME Alone PROVE gStray' = {} /\ OwnOf(s)'
    OBVIOUS
  <2>1. gStray = {} /\ OwnOf(s)
    BY DEF GitInv, OwnIsKept
  <2>2. CASE gIndex = Git!Tip
    BY <2>1, <2>2, <1>2, <1>3, <1>4 DEF OwnOf
  <2>3. CASE gIndex # Git!Tip
    BY <2>1, <2>3, <1>2, <1>3, <1>4 DEF OwnOf
  <2> QED BY <2>2, <2>3
<1>9. SeenIsKept' /\ OwnIsKept'
  BY <1>1, <1>2, <1>3, <1>4, <1>5, <1>7, <1>8, OneSession
<1> QED BY <1>3, <1>6, <1>9 DEF GitInv

\* The process that was left running, and what the session that left it does meanwhile.
LEMMA StrayGit ==
  ASSUME KeptAssumption, GitInv, NEW s \in gSetup.sessions, Git!StrayEnds(s)
  PROVE  GitInv'
<1>1. GitTypes /\ s \in GitSessions /\ gWork \in Trees /\ gIndex \in Trees
  BY DEF GitInv, GitTypes, KeptAssumption, Git!GitAssumption
<1>2. /\ s \in gStray /\ gStray' = gStray \ {s} /\ Git!Committed(s)
      /\ UNCHANGED <<gSetup, gWork, gIndex, gTag, gPc, gPaths, gLast, gName, gTarget, gSeen, gHead>>
  BY DEF Git!StrayEnds
<1>3. LogGrows /\ gMine' \in [GitSessions -> SUBSET Nat] /\ TreesGrow'
  BY <1>2, CommittedGit
<1>4. Newer(gWork, gWork) /\ Newer(gIndex, gIndex)
  BY <1>1, NewerIsOrder
<1>5. GitTypes'
  <2>1. gLast' \in [GitSessions -> 0..Len(gLog')]
    BY <1>1, <1>2, <1>3 DEF GitTypes, LogGrows
  <2> QED BY <2>1, <1>1, <1>2, <1>3 DEF GitTypes, LogGrows
<1>6. SeenOf(s)
  BY <1>1 DEF GitInv, SeenIsKept
<1>7. SeenOf(s)'
  BY <1>1, <1>2, <1>3, <1>4, <1>6, OthersSeen
<1>8. ~Alone
  BY <1>2 DEF GitInv, OwnIsKept
<1>9. SeenIsKept' /\ OwnIsKept'
  BY <1>1, <1>2, <1>3, <1>4, <1>7, <1>8, OneSession
<1> QED BY <1>3, <1>5, <1>9 DEF GitInv

\* A step that leaves the trees, the log and what status found alone.
LEMMA QuietGit ==
  ASSUME KeptAssumption, GitInv, NEW s \in gSetup.sessions,
         UNCHANGED <<gSetup, gWork, gIndex, gLog, gPaths, gSeen>>, GitTypes',
         \A r \in GitSessions \ {s} : gPc'[r] = gPc[r] /\ gLast'[r] = gLast[r],
         SeenOf(s)', Alone => gStray' = {} /\ OwnOf(s)'
  PROVE  GitInv'
<1>1. /\ LogGrows /\ gWork' \in Trees /\ gIndex' \in Trees
      /\ Newer(gWork', gWork) /\ Newer(gIndex', gIndex) /\ TreesGrow'
  BY SameTrees
<1>2. SeenIsKept' /\ OwnIsKept'
  BY <1>1, OneSession
<1> QED BY <1>1, <1>2 DEF GitInv

LEMMA TimesOutGit ==
  ASSUME KeptAssumption, GitInv, NEW s \in gSetup.sessions, Git!CommitTimesOut(s)
  PROVE  GitInv'
<1> USE DEF Git!CommitTimesOut, Git!repo
<1>1. GitTypes /\ s \in GitSessions
  BY DEF GitInv, GitTypes, KeptAssumption, Git!GitAssumption
<1>2. gPc' \in [GitSessions -> GitPlaces] /\ gPc'[s] = "failed"
      /\ \A r \in GitSessions \ {s} : gPc'[r] = gPc[r]
  BY <1>1, PlaceMoves DEF GitPlaces
<1>3. GitTypes'
  BY <1>1, <1>2 DEF GitTypes
<1>4. SeenOf(s)'
  BY <1>1, <1>2 DEF GitInv, SeenIsKept, SeenOf, Newer
<1> QED BY <1>1, <1>2, <1>3, <1>4, QuietGit DEF Alone

LEMMA LogGit ==
  ASSUME KeptAssumption, GitInv, NEW s \in gSetup.sessions, Git!Log(s)
  PROVE  GitInv'
<1> USE DEF Git!Log, Git!repo
<1>1. GitTypes /\ s \in GitSessions
  BY DEF GitInv, GitTypes, KeptAssumption, Git!GitAssumption
<1>2. gPc' \in [GitSessions -> GitPlaces] /\ gPc'[s] = "committed"
      /\ \A r \in GitSessions \ {s} : gPc'[r] = gPc[r]
  BY <1>1, PlaceMoves DEF GitPlaces
<1>3. /\ gLast' \in [GitSessions -> 0..Len(gLog)] /\ gLast'[s] = Len(gLog) /\ Len(gLog) # 0
      /\ \A r \in GitSessions \ {s} : gLast'[r] = gLast[r]
  BY <1>1 DEF GitTypes
<1>4. GitTypes'
  BY <1>1, <1>2, <1>3 DEF GitTypes
<1>5. SeenOf(s)'
  <2>1. Newer(gWork, gSeen[s]) /\ Newer(gLog[Len(gLog)].tree, gSeen[s])
    BY <1>1 DEF GitInv, SeenIsKept, SeenOf, Git!Tip
  <2> QED BY <2>1, <1>2, <1>3 DEF SeenOf, Newer
<1>6. Alone => gStray' = {} /\ OwnOf(s)'
  BY <1>2, <1>3 DEF GitInv, OwnIsKept, OwnOf
<1> QED BY <1>2, <1>3, <1>4, <1>5, <1>6, QuietGit

LEMMA ReturnGit ==
  ASSUME KeptAssumption, GitInv, NEW s \in gSetup.sessions, Git!Return(s)
  PROVE  GitInv'
<1> USE DEF Git!Return, Git!repo
<1>1. GitTypes /\ s \in GitSessions
  BY DEF GitInv, GitTypes, KeptAssumption, Git!GitAssumption
<1>2. gPc' \in [GitSessions -> GitPlaces] /\ gPc'[s] = "idle"
      /\ \A r \in GitSessions \ {s} : gPc'[r] = gPc[r]
  BY <1>1, PlaceMoves DEF GitPlaces
<1>3. GitTypes'
  BY <1>1, <1>2 DEF GitTypes
<1>4. SeenOf(s)'
  BY <1>1, <1>2 DEF GitInv, SeenIsKept, SeenOf, Newer
<1>5. Alone => gStray' = {} /\ OwnOf(s)'
  BY <1>2 DEF GitInv, OwnIsKept, OwnOf
<1> QED BY <1>2, <1>3, <1>4, <1>5, QuietGit

LEMMA PickGit ==
  ASSUME KeptAssumption, GitInv, NEW s \in gSetup.sessions, NEW n \in Names, Git!Pick(s, n)
  PROVE  GitInv'
<1> USE DEF Git!Pick, Git!repo
<1>1. GitTypes /\ s \in GitSessions
  BY DEF GitInv, GitTypes, KeptAssumption, Git!GitAssumption
<1>2. gPc' \in [GitSessions -> GitPlaces] /\ gPc'[s] = "exists"
      /\ \A r \in GitSessions \ {s} : gPc'[r] = gPc[r]
  BY <1>1, PlaceMoves DEF GitPlaces
<1>3. /\ gName' \in [GitSessions -> Names]
      /\ gTarget' \in [GitSessions -> Nat] /\ gHead' \in [GitSessions -> Nat]
      /\ gTarget'[s] = (IF gLast[s] # 0 THEN gLast[s] ELSE Len(gLog)) /\ gHead'[s] = Len(gLog)
  BY <1>1 DEF GitTypes
<1>4. GitTypes'
  BY <1>1, <1>2, <1>3 DEF GitTypes
<1>5. SeenOf(s)'
  BY <1>1, <1>2 DEF GitInv, SeenIsKept, SeenOf, Newer
<1>6. Alone => gStray' = {} /\ OwnOf(s)'
  <2>1. Len(gLog) <= Len(gLog)
    BY <1>1 DEF GitTypes
  <2> QED BY <2>1, <1>2, <1>3 DEF GitInv, OwnIsKept, OwnOf
<1> QED BY <1>2, <1>4, <1>5, <1>6, QuietGit

LEMMA ExistsGit ==
  ASSUME KeptAssumption, GitInv, NEW s \in gSetup.sessions, Git!Exists(s)
  PROVE  GitInv'
<1> USE DEF Git!Exists, Git!repo
<1>1. GitTypes /\ s \in GitSessions
  BY DEF GitInv, GitTypes, KeptAssumption, Git!GitAssumption
<1>2. /\ gPc' \in [GitSessions -> GitPlaces]
      /\ gPc'[s] \in {"failed", "tag"} /\ (gPc'[s] = "tag" => gTag[gName[s]] = 0)
      /\ \A r \in GitSessions \ {s} : gPc'[r] = gPc[r]
  <2> DEFINE p == IF gTag[gName[s]] # 0 THEN "failed" ELSE "tag"
  <2>1. Git!Go(s, p) /\ p \in GitPlaces
    BY DEF GitPlaces
  <2>2. gPc' \in [GitSessions -> GitPlaces] /\ gPc'[s] = p
        /\ \A r \in GitSessions \ {s} : gPc'[r] = gPc[r]
    <3> HIDE DEF p
    <3> QED BY <2>1, <1>1, PlaceMoves
  <2> QED BY <2>2
<1>3. GitTypes'
  BY <1>1, <1>2 DEF GitTypes
<1>4. SeenOf(s)'
  BY <1>1, <1>2 DEF GitInv, SeenIsKept, SeenOf, Newer
<1>5. Alone => gStray' = {} /\ OwnOf(s)'
  BY <1>2 DEF GitInv, OwnIsKept, OwnOf
<1> QED BY <1>2, <1>3, <1>4, <1>5, QuietGit

LEMMA TagGit ==
  ASSUME KeptAssumption, GitInv, NEW s \in gSetup.sessions, Git!Tag(s)
  PROVE  GitInv'
<1> USE DEF Git!Tag
<1>1. GitTypes /\ s \in GitSessions
  BY DEF GitInv, GitTypes, KeptAssumption, Git!GitAssumption
<1>2. /\ gPc' \in [GitSessions -> GitPlaces] /\ gPc'[s] \in {"tagged", "untag", "failed"}
      /\ (gTag[gName[s]] = 0 => gPc'[s] = "tagged")
      /\ (gTag[gName[s]] # 0 => gPc'[s] = (IF gPc[s] = "tag" THEN "untag" ELSE "failed"))
      /\ \A r \in GitSessions \ {s} : gPc'[r] = gPc[r]
  <2>1. CASE gTag[gName[s]] = 0
    <3>1. Git!Go(s, "tagged") /\ "tagged" \in GitPlaces
      BY <2>1 DEF GitPlaces
    <3> QED BY <2>1, <3>1, <1>1, PlaceMoves
  <2>2. CASE gTag[gName[s]] # 0
    <3> DEFINE p == IF gPc[s] = "tag" THEN "untag" ELSE "failed"
    <3>1. Git!Go(s, p) /\ p \in GitPlaces
      BY <2>2 DEF GitPlaces
    <3>2. gPc' \in [GitSessions -> GitPlaces] /\ gPc'[s] = p
          /\ \A r \in GitSessions \ {s} : gPc'[r] = gPc[r]
      <4> HIDE DEF p
      <4> QED BY <3>1, <1>1, PlaceMoves
    <3> QED BY <3>2, <2>2
  <2> QED BY <2>1, <2>2
<1>3. gTag' \in [Names -> Nat]
  BY <1>1 DEF GitTypes
<1>4. GitTypes'
  BY <1>1, <1>2, <1>3 DEF GitTypes
<1>5. SeenOf(s)'
  BY <1>1, <1>2 DEF GitInv, SeenIsKept, SeenOf, Newer
<1>6. Alone => gStray' = {} /\ OwnOf(s)'
  BY <1>2 DEF GitInv, OwnIsKept, OwnOf
<1> QED BY <1>2, <1>4, <1>5, <1>6, QuietGit

LEMMA UntagGit ==
  ASSUME KeptAssumption, GitInv, NEW s \in gSetup.sessions, Git!Untag(s)
  PROVE  GitInv'
<1> USE DEF Git!Untag
<1>1. GitTypes /\ s \in GitSessions
  BY DEF GitInv, GitTypes, KeptAssumption, Git!GitAssumption
<1>2. gPc' \in [GitSessions -> GitPlaces] /\ gPc'[s] = "retag"
      /\ \A r \in GitSessions \ {s} : gPc'[r] = gPc[r]
  BY <1>1, PlaceMoves DEF GitPlaces
<1>3. gTag' \in [Names -> Nat]
  BY <1>1 DEF GitTypes
<1>4. GitTypes'
  BY <1>1, <1>2, <1>3 DEF GitTypes
<1>5. SeenOf(s)'
  BY <1>1, <1>2 DEF GitInv, SeenIsKept, SeenOf, Newer
<1>6. ~Alone
  BY DEF GitInv, OwnIsKept, OwnOf
<1> QED BY <1>2, <1>4, <1>5, <1>6, QuietGit

LEMMA CrashGit ==
  ASSUME KeptAssumption, GitInv, NEW s \in gSetup.sessions, Git!Crash(s)
  PROVE  GitInv'
<1> USE DEF Git!Crash, Git!repo
<1>1. GitTypes /\ s \in GitSessions
  BY DEF GitInv, GitTypes, KeptAssumption, Git!GitAssumption
<1>2. gPc' \in [GitSessions -> GitPlaces] /\ gPc'[s] = "idle"
      /\ \A r \in GitSessions \ {s} : gPc'[r] = gPc[r]
  BY <1>1, PlaceMoves DEF GitPlaces
<1>3. /\ gLast' \in [GitSessions -> 0..Len(gLog)] /\ gLast'[s] = 0
      /\ \A r \in GitSessions \ {s} : gLast'[r] = gLast[r]
  BY <1>1 DEF GitTypes
<1>4. GitTypes'
  BY <1>1, <1>2, <1>3 DEF GitTypes
<1>5. SeenOf(s)'
  BY <1>1, <1>2 DEF GitInv, SeenIsKept, SeenOf, Newer
<1>6. Alone => gStray' = {} /\ OwnOf(s)'
  BY <1>2, <1>3 DEF GitInv, OwnIsKept, OwnOf
<1> QED BY <1>2, <1>3, <1>4, <1>5, <1>6, QuietGit

-----------------------------------------------------------------------------
(* Every step, and what the invariant means. *)

LEMMA NextGit == ASSUME KeptAssumption, GitInv, [Git!Next]_gVars PROVE GitInv'
<1>1. CASE UNCHANGED gVars
  BY <1>1 DEF gVars, GitInv, GitTypes, TreesGrow, SeenIsKept, SeenOf, OwnIsKept, OwnOf, Alone,
              Newer, Git!Tip
<1>2. CASE \E f \in gSetup.files : (\E there \in BOOLEAN : Git!Edit(f, there)) \/ Git!StageRemoval(f)
  BY <1>2, EditGit, StageGit
<1>3. CASE Git!ShellCommit
  BY <1>3, ShellGit
<1>4. ASSUME NEW s \in gSetup.sessions, Git!Step(s) PROVE GitInv'
  <2>1. CASE Git!Status(s) \/ Git!Add(s) \/ Git!Commit(s) \/ Git!Log(s) \/ Git!Return(s)
    BY <2>1, StatusGit, AddGit, CommitGit, LogGit, ReturnGit
  <2>2. CASE Git!CommitTimesOut(s) \/ Git!StrayEnds(s) \/ Git!Crash(s)
    BY <2>2, TimesOutGit, StrayGit, CrashGit
  <2>3. CASE \E n \in Names : Git!Pick(s, n)
    BY <2>3, PickGit
  <2>4. CASE Git!Exists(s) \/ Git!Tag(s) \/ Git!Untag(s)
    BY <2>4, ExistsGit, TagGit, UntagGit
  <2> QED BY <1>4, <2>1, <2>2, <2>3, <2>4 DEF Git!Step
<1> QED BY <1>1, <1>2, <1>3, <1>4 DEF Git!Next

\* A whole commit holds no file that is older than what status saw of it; a session
\* that is alone gets its own hash and tags the milestone it has just completed.
LEMMA GitMeans ==
  ASSUME KeptAssumption, GitInv PROVE CommitIsWhole /\ HashIsOwn /\ CheckpointIsCurrent
<1>1. CommitIsWhole
  <2>1. \A s \in GitSessions : gPc[s] = "committed" => Newer(gLog[gLast[s]].tree, gSeen[s])
    BY DEF GitInv, SeenIsKept, SeenOf
  <2>2. \A s \in GitSessions : gPc[s] = "committed" =>
          gLast[s] \in 1..Len(gLog) /\ gLog[gLast[s]].tree \in Trees /\ gSeen[s] \in Trees
    BY TipIsTree DEF GitInv, SeenIsKept, SeenOf, GitTypes
  <2>3. \A a, b \in Trees : Newer(a, b) => \A f \in Files : a[f].n >= b[f].n
    BY DEF Newer, Trees
  <2> QED BY <2>1, <2>2, <2>3 DEF CommitIsWhole, Git!CommitIsWhole
<1>2. ASSUME Alone, NEW s \in GitSessions, gPc[s] # "idle" PROVE OwnOf(s)
  BY <1>2 DEF GitInv, OwnIsKept
<1>3. HashIsOwn
  BY <1>2 DEF HashIsOwn, Git!HashIsOwn, OwnOf
<1>4. CheckpointIsCurrent
  <2>1. \A s \in GitSessions : {gTarget[s], gHead[s]} \subseteq Nat
    BY DEF GitInv, GitTypes
  <2> QED BY <2>1, <1>2 DEF CheckpointIsCurrent, Git!CheckpointIsCurrent, OwnOf
<1> QED BY <1>1, <1>3, <1>4

\* The tag of a checkpoint stays where it is, when a session is alone: it looks for the
\* name first, and nobody takes it until it has tagged.
LEMMA TagsAreKept ==
  ASSUME GitInv, [Git!Next]_gVars, Alone PROVE Git!TagsStay
<1>1. CASE UNCHANGED gTag
  BY <1>1 DEF Git!TagsStay
<1>2. ASSUME NEW s \in gSetup.sessions, Git!Tag(s) \/ Git!Untag(s) PROVE Git!TagsStay
  <2>1. OwnOf(s)
    BY DEF GitInv, OwnIsKept
  <2>2. gPc[s] = "tag" /\ gTag[gName[s]] = 0 /\ Git!Tag(s)
    BY <1>2, <2>1 DEF OwnOf, Git!Tag, Git!Untag
  <2>3. gTag' = [gTag EXCEPT ![gName[s]] = gTarget[s]]
    BY <2>2 DEF Git!Tag
  <2>4. \A n \in Names : gTag[n] # 0 => gTag'[n] = gTag[n]
    BY <2>2, <2>3 DEF GitInv, GitTypes
  <2> QED BY <2>4 DEF Git!TagsStay
<1>3. UNCHANGED gTag \/ \E s \in gSetup.sessions : Git!Tag(s) \/ Git!Untag(s)
  BY DEF Git!Next, Git!Step, gVars, Git!repo, Git!inst, Git!Edit, Git!StageRemoval,
     Git!ShellCommit, Git!Status, Git!Add, Git!Commit, Git!CommitTimesOut, Git!StrayEnds,
     Git!Log, Git!Return, Git!Pick, Git!Exists, Git!Crash
<1> QED BY <1>1, <1>2, <1>3

-----------------------------------------------------------------------------
(* The ledger (HarnessLedger). *)

Saved == Ledger!Artifact \cup {None}
\* An operation that holds the lock of a tracker.
IsRunning(o) ==
  /\ DOMAIN o = {"at", "todo", "adds", "claims", "out"}
  /\ o.at \in {"load", "next", "check", "write"} /\ o.out \in Saved

LedgerTypes ==
  /\ lSetup \in LedgerSetups
  /\ lArt \in [Trackers -> Saved]
  /\ lCur \in [Trackers -> Owners \cup {None}]
  /\ lOp = [t \in Trackers |-> lOp[t]]
  /\ \A t \in Trackers : lOp[t] = Ledger!Idle \/ IsRunning(lOp[t])
  /\ \A t \in Trackers : lOp[t].at \in {"next", "check", "write"} => lArt[t] # None
  /\ lStore \in Saved /\ lDisk \in Saved

\* Every task of a that passes has steps, and they passed.
Verified(a) ==
  \A i \in Ledger!Has(a) : a.tasks[i].st = "passing" => a.tasks[i].ok /\ i \notin Stepless

\* So in memory, on its way to the store, in the store and in the file.
AllVerified ==
  /\ \A t \in Trackers : lArt[t] # None => Verified(lArt[t])
  /\ \A t \in Trackers : lOp[t] # Ledger!Idle /\ lOp[t].out # None => Verified(lOp[t].out)
  /\ lStore # None => Verified(lStore)
  /\ lDisk # None => Verified(lDisk)

\* The artifact of a tracker has all tasks that the store has, and its version is
\* not behind; what it adds is in the artifact until it is in the store.
ArtLeads(a, o, st) ==
  /\ a # None /\ st # None => Ledger!Has(st) \subseteq Ledger!Has(a) /\ st.v <= a.v
  /\ a # None /\ o.at \in {"idle", "load", "next"} =>
       st # None /\ Ledger!Has(a) = Ledger!Has(st)
  /\ o.at \in {"check", "write"} => o.adds \subseteq Ledger!Has(a)
  /\ o.at = "write" => o.out # None /\ Ledger!Has(o.out) = Ledger!Has(a) /\ o.out.v = a.v

\* What add_task returned of is in the store.
AreStored(tasks, st) == tasks # {} => st # None /\ tasks \subseteq Ledger!Has(st)

\* One tracker, and a store that works.
Sole == (\A t, u \in lSetup.trackers : t = u) /\ ~ReadsFail /\ ~WritesFail

AddedIsKept ==
  Sole => /\ \A t \in lSetup.trackers : ArtLeads(lArt[t], lOp[t], lStore)
          /\ AreStored(lSure, lStore)

\* No store operation lets another tracker run: an artifact is not ahead of the store,
\* and has all tasks of the version it is of, until it is written itself.
Follows(a, o, st) ==
  /\ a # None /\ o.at \in {"idle", "load", "next"} => st # None
  /\ a # None /\ st # None /\ o.at # "write" =>
       a.v <= st.v /\ (a.v = st.v => Ledger!Has(st) \subseteq Ledger!Has(a))
  /\ o.at = "write" => o.out # None /\ Ledger!Has(o.out) = Ledger!Has(a) /\ o.out.v = a.v
  /\ o.at = "write" /\ st # None => st.v < a.v /\ Ledger!Has(st) \subseteq Ledger!Has(a)

\* What is written is newer than what it replaces.
OutIsNewer(o, st) == o.at = "write" => o.out # None /\ (st # None => st.v < o.out.v)

KeepsUp(a, o, st) ==
  /\ ~Yields /\ ~ReadsFail => OutIsNewer(o, st)
  /\ ~Yields /\ ~ReadsFail /\ ~WritesFail => Follows(a, o, st)
AllKeepUp == \A t \in Trackers : KeepsUp(lArt[t], lOp[t], lStore)

\* Then one tracker at a time is busy.
OneAtATime ==
  ~Yields => \A t, u \in Trackers : t # u => lOp[t] = Ledger!Idle \/ lOp[u] = Ledger!Idle

LedgerInv == LedgerTypes /\ AllVerified /\ AddedIsKept /\ OneAtATime /\ AllKeepUp

LEMMA InitLedger == KeptAssumption /\ Ledger!Init => LedgerInv
<1> SUFFICES ASSUME KeptAssumption, Ledger!Init PROVE LedgerInv
  OBVIOUS
<1> USE DEF Ledger!Init
<1>1. \A t \in Trackers : lArt[t] = None /\ lOp[t] = Ledger!Idle
  OBVIOUS
<1>2. LedgerTypes
  BY <1>1 DEF LedgerTypes, Saved, Ledger!Idle
<1>3. AllVerified
  BY <1>1 DEF AllVerified
<1>4. AddedIsKept
  <2>1. \A t \in lSetup.trackers : t \in Trackers
    BY DEF KeptAssumption, Ledger!LedgerAssumption
  <2> QED BY <1>1, <2>1 DEF AddedIsKept, AreStored, ArtLeads, Ledger!Idle
<1>5. OneAtATime /\ AllKeepUp
  BY <1>1 DEF OneAtATime, AllKeepUp, KeepsUp, Follows, OutIsNewer, Ledger!Idle
<1> QED BY <1>2, <1>3, <1>4, <1>5 DEF LedgerInv

-----------------------------------------------------------------------------
(* What the operations do to an artifact. *)

WithTask(a, i, task) == [a EXCEPT !.tasks[i] = task]
Raised(a) == [a EXCEPT !.v = @ + 1]
SameTasks(a, b) == Ledger!Has(a) = Ledger!Has(b) /\ a.v = b.v

LEMMA NoneIsNone ==
  ASSUME KeptAssumption
  PROVE  None \notin Ledger!Artifact /\ None \notin Ledger!TaskState
BY DEF KeptAssumption, Ledger!LedgerAssumption

LEMMA TasksOfArtifact ==
  ASSUME KeptAssumption, NEW a \in Ledger!Artifact
  PROVE  /\ a.v \in 1..MaxVersion + 1 /\ a.v \in Nat
         /\ a.tasks \in [Tasks -> Ledger!TaskState \cup {None}]
         /\ Ledger!Has(a) \subseteq Tasks
         /\ \A i \in Ledger!Has(a) : a.tasks[i] \in Ledger!TaskState
BY DEF Ledger!Artifact, Ledger!Has, KeptAssumption, Ledger!LedgerAssumption

LEMMA FreshIsVerified ==
  ASSUME KeptAssumption
  PROVE  Ledger!FreshArtifact \in Ledger!Artifact /\ Verified(Ledger!FreshArtifact)
<1>1. Ledger!Has(Ledger!FreshArtifact) = {}
  BY DEF Ledger!Has, Ledger!FreshArtifact
<1>2. 1 \in 1..MaxVersion + 1
  BY DEF KeptAssumption, Ledger!LedgerAssumption
<1> QED BY <1>1, <1>2 DEF Verified, Ledger!FreshArtifact, Ledger!Artifact

LEMMA RaisedArtifact ==
  ASSUME KeptAssumption, NEW a \in Ledger!Artifact, a.v <= MaxVersion
  PROVE  /\ Raised(a) \in Ledger!Artifact /\ Raised(a).v = a.v + 1
         /\ Ledger!Has(Raised(a)) = Ledger!Has(a)
         /\ Verified(a) => Verified(Raised(a))
<1>1. a.v + 1 \in 1..MaxVersion + 1 /\ MaxVersion \in Nat
  BY TasksOfArtifact DEF KeptAssumption, Ledger!LedgerAssumption
<1>2. Raised(a) = [v |-> a.v + 1, tasks |-> a.tasks]
  BY DEF Raised, Ledger!Artifact
<1>3. Raised(a).v = a.v + 1 /\ Raised(a).tasks = a.tasks
  BY <1>2
<1>4. Ledger!Has(Raised(a)) = Ledger!Has(a)
  BY <1>3 DEF Ledger!Has
<1>5. Raised(a) \in Ledger!Artifact
  BY <1>1, <1>2, TasksOfArtifact DEF Ledger!Artifact
<1> QED BY <1>3, <1>4, <1>5 DEF Verified

LEMMA ArtifactWithTask ==
  ASSUME KeptAssumption, NEW a \in Ledger!Artifact, NEW i \in Tasks,
         NEW task \in Ledger!TaskState
  PROVE  /\ WithTask(a, i, task) \in Ledger!Artifact /\ WithTask(a, i, task).v = a.v
         /\ Ledger!Has(WithTask(a, i, task)) = Ledger!Has(a) \cup {i}
         /\ Verified(a) /\ (task.st = "passing" => task.ok /\ i \notin Stepless)
              => Verified(WithTask(a, i, task))
<1> DEFINE b == WithTask(a, i, task)
<1>1. b = [v |-> a.v, tasks |-> [a.tasks EXCEPT ![i] = task]]
  BY DEF WithTask, Ledger!Artifact
<1>2. /\ b.v = a.v /\ b.tasks \in [Tasks -> Ledger!TaskState \cup {None}]
      /\ b.tasks[i] = task /\ \A j \in Tasks \ {i} : b.tasks[j] = a.tasks[j]
  BY <1>1, TasksOfArtifact
<1>3. b \in Ledger!Artifact
  BY <1>1, <1>2, TasksOfArtifact DEF Ledger!Artifact
<1> HIDE DEF b
<1>4. Ledger!Has(b) = Ledger!Has(a) \cup {i}
  BY <1>2, NoneIsNone DEF Ledger!Has
<1>5. Verified(a) /\ (task.st = "passing" => task.ok /\ i \notin Stepless) => Verified(b)
  <2>1. \A j \in Ledger!Has(b) \ {i} : j \in Tasks /\ j \in Ledger!Has(a)
    BY <1>4, TasksOfArtifact
  <2> QED BY <1>2, <2>1 DEF Verified
<1> QED BY <1>2, <1>3, <1>4, <1>5 DEF b

LEMMA ReclaimedArtifact ==
  ASSUME KeptAssumption, NEW a \in Ledger!Artifact, NEW s \in Owners \cup {None}
  PROVE  /\ Ledger!Reclaimed(a, s) \in Ledger!Artifact
         /\ SameTasks(Ledger!Reclaimed(a, s), a)
         /\ Verified(a) => Verified(Ledger!Reclaimed(a, s))
<1> DEFINE takes(i) == i \in Ledger!InProgress(a) /\ a.tasks[i].own # None
           taken(i) == IF takes(i) THEN [a.tasks[i] EXCEPT !.own = s] ELSE a.tasks[i]
           b == Ledger!Reclaimed(a, s)
<1>1. b = [v |-> a.v, tasks |-> [i \in Tasks |-> taken(i)]]
  BY DEF Ledger!Reclaimed, Ledger!Artifact
<1>2. ASSUME NEW i \in Tasks, takes(i)
      PROVE  /\ i \in Ledger!Has(a) /\ taken(i) \in Ledger!TaskState
             /\ taken(i).st = a.tasks[i].st /\ taken(i).ok = a.tasks[i].ok
  <2>1. i \in Ledger!Has(a) /\ a.tasks[i] \in Ledger!TaskState
    BY <1>2, TasksOfArtifact DEF Ledger!InProgress
  <2> QED BY <1>2, <2>1 DEF Ledger!TaskState
<1>3. ASSUME NEW i \in Tasks, ~takes(i) PROVE taken(i) = a.tasks[i]
  BY <1>3
<1> HIDE DEF takes, taken
<1>4. \A i \in Tasks : /\ taken(i) \in Ledger!TaskState \cup {None}
                       /\ taken(i) # None <=> i \in Ledger!Has(a)
                       /\ taken(i) # None => /\ taken(i).st = a.tasks[i].st
                                             /\ taken(i).ok = a.tasks[i].ok
  BY <1>2, <1>3, TasksOfArtifact, NoneIsNone DEF Ledger!Has
<1>5. b.v = a.v /\ \A i \in Tasks : b.tasks[i] = taken(i)
  BY <1>1
<1>6. b \in Ledger!Artifact
  BY <1>1, <1>4, TasksOfArtifact DEF Ledger!Artifact
<1> HIDE DEF b
<1>7. Ledger!Has(b) = Ledger!Has(a)
  <2>1. \A i \in Tasks : b.tasks[i] # None <=> i \in Ledger!Has(a)
    BY <1>4, <1>5
  <2> QED BY <2>1, TasksOfArtifact DEF Ledger!Has
<1>8. Verified(a) => Verified(b)
  <2>1. \A i \in Ledger!Has(b) : /\ i \in Ledger!Has(a) /\ i \in Tasks
                                 /\ b.tasks[i].st = a.tasks[i].st
                                 /\ b.tasks[i].ok = a.tasks[i].ok
    BY <1>4, <1>5, <1>7, TasksOfArtifact DEF Ledger!Has
  <2> QED BY <2>1 DEF Verified
<1> QED BY <1>5, <1>6, <1>7, <1>8 DEF SameTasks, b

LEMMA UpdatedIsVerified ==
  ASSUME KeptAssumption, NEW i \in Tasks, NEW task \in Ledger!TaskState,
         task.st = "passing" => task.ok /\ i \notin Stepless,
         NEW status \in Ledger!Status, NEW results \in BOOLEAN, NEW s \in Owners \cup {None}
  PROVE  LET u == Ledger!Updated(i, task, status, results, s)
         IN  u \in Ledger!TaskState /\ (u.st = "passing" => u.ok /\ i \notin Stepless)
<1>1. CASE status = "passing"
  <2> DEFINE tried == [task EXCEPT !.ok = results]
  <2>1. tried \in Ledger!TaskState /\ tried.st = task.st /\ tried.ok = results
    BY DEF Ledger!TaskState
  <2> HIDE DEF tried
  <2>2. Ledger!Updated(i, task, status, results, s) = Ledger!MarkPassing(i, tried)
    BY <1>1 DEF Ledger!Updated, tried
  <2>3. Ledger!MarkPassing(i, tried) \in Ledger!TaskState
    BY <2>1 DEF Ledger!MarkPassing, Ledger!TaskState, Ledger!Status
  <2>4. Ledger!MarkPassing(i, tried).st = "passing" =>
          Ledger!MarkPassing(i, tried).ok /\ i \notin Stepless
    BY <2>1 DEF Ledger!MarkPassing, Ledger!TaskState, Ledger!Status
  <2> QED BY <2>2, <2>3, <2>4
<1>2. CASE status = "in_progress"
  BY <1>2 DEF Ledger!Updated, Ledger!TaskState, Ledger!Status
<1>3. CASE status = "skipped"
  BY <1>3 DEF Ledger!Updated, Ledger!TaskState, Ledger!Status
<1>4. CASE status \in {"pending", "failing"}
  BY <1>4 DEF Ledger!Updated, Ledger!TaskState, Ledger!Status
<1> QED BY <1>1, <1>2, <1>3, <1>4 DEF Ledger!Status

-----------------------------------------------------------------------------
(* The steps of a tracker. *)

LEMMA TrackerHas ==
  ASSUME KeptAssumption, LedgerInv, NEW t \in lSetup.trackers
  PROVE  /\ t \in Trackers
         /\ lArt[t] \in Saved /\ (lArt[t] # None => lArt[t] \in Ledger!Artifact /\ Verified(lArt[t]))
         /\ lOp[t] = Ledger!Idle \/ IsRunning(lOp[t])
         /\ lOp[t].at \in {"next", "check", "write"} => lArt[t] # None
         /\ lStore \in Saved /\ (lStore # None => lStore \in Ledger!Artifact /\ Verified(lStore))
         /\ lDisk \in Saved /\ (lDisk # None => lDisk \in Ledger!Artifact /\ Verified(lDisk))
         /\ lCur[t] \in Owners \cup {None}
         /\ Sole => ArtLeads(lArt[t], lOp[t], lStore) /\ AreStored(lSure, lStore)
         /\ KeepsUp(lArt[t], lOp[t], lStore)
<1>1. t \in Trackers
  BY DEF LedgerInv, LedgerTypes, KeptAssumption, Ledger!LedgerAssumption
<1>2. KeepsUp(lArt[t], lOp[t], lStore)
  BY <1>1 DEF LedgerInv, AllKeepUp
<1> QED BY <1>1, <1>2 DEF LedgerInv, LedgerTypes, AllVerified, AddedIsKept, Saved

\* The artifact and the operation of a tracker change together, those of others do not.
ArtBecomes(t, a) ==
  /\ lArt' \in [Trackers -> Saved] /\ lArt'[t] = a
  /\ \A u \in Trackers \ {t} : lArt'[u] = lArt[u]
OpBecomes(t, o) ==
  /\ lOp' = [u \in Trackers |-> lOp'[u]] /\ lOp'[t] = o
  /\ \A u \in Trackers \ {t} : lOp'[u] = lOp[u]

LEMMA SetArt ==
  ASSUME LedgerTypes, NEW t \in Trackers, NEW a \in Saved, lArt' = [lArt EXCEPT ![t] = a]
  PROVE  ArtBecomes(t, a)
BY DEF LedgerTypes, ArtBecomes

LEMMA SameArt ==
  ASSUME LedgerTypes, NEW t \in Trackers, UNCHANGED lArt
  PROVE  ArtBecomes(t, lArt[t])
BY DEF LedgerTypes, ArtBecomes

LEMMA SetOp ==
  ASSUME LedgerTypes, NEW t \in Trackers, NEW o, lOp' = [lOp EXCEPT ![t] = o]
  PROVE  OpBecomes(t, o)
<1>1. lOp = [u \in Trackers |-> lOp[u]]
  BY DEF LedgerTypes
<1>2. lOp' = [u \in Trackers |-> IF u = t THEN o ELSE lOp[u]]
  BY <1>1
<1> HIDE DEF OpBecomes
<1> QED BY <1>2 DEF OpBecomes

LEMMA SameOp ==
  ASSUME LedgerTypes, NEW t \in Trackers, UNCHANGED lOp
  PROVE  OpBecomes(t, lOp[t])
BY DEF LedgerTypes, OpBecomes

LEMMA TrackerMoves ==
  ASSUME KeptAssumption, LedgerInv, NEW t \in lSetup.trackers, UNCHANGED lSetup,
         NEW a \in Saved, NEW o, ArtBecomes(t, a), OpBecomes(t, o),
         lCur' \in [Trackers -> Owners \cup {None}], lStore' \in Saved, lDisk' \in Saved,
         o = Ledger!Idle \/ IsRunning(o),
         o.at \in {"next", "check", "write"} => a # None,
         a # None => Verified(a),
         o # Ledger!Idle /\ o.out # None => Verified(o.out),
         lStore' # None => Verified(lStore'),
         lDisk' # None => Verified(lDisk'),
         Sole => ArtLeads(a, o, lStore') /\ AreStored(lSure', lStore'),
         Ledger!MayRun(t), KeepsUp(a, o, lStore'),
         lStore' = lStore \/ (lOp[t].at = "write" /\ lStore' = lOp[t].out)
  PROVE  LedgerInv'
<1>1. t \in Trackers
  BY TrackerHas
<1>2. LedgerTypes'
  <2>1. \A u \in Trackers : lOp'[u] = Ledger!Idle \/ IsRunning(lOp'[u])
    BY <1>1 DEF OpBecomes, LedgerInv, LedgerTypes
  <2>2. \A u \in Trackers : lOp'[u].at \in {"next", "check", "write"} => lArt'[u] # None
    BY <1>1 DEF ArtBecomes, OpBecomes, LedgerInv, LedgerTypes
  <2> QED BY <2>1, <2>2 DEF LedgerInv, LedgerTypes, ArtBecomes, OpBecomes
<1>3. AllVerified'
  <2>1. \A u \in Trackers : lArt'[u] # None => Verified(lArt'[u])
    BY <1>1 DEF ArtBecomes, LedgerInv, AllVerified
  <2>2. \A u \in Trackers : lOp'[u] # Ledger!Idle /\ lOp'[u].out # None => Verified(lOp'[u].out)
    BY <1>1 DEF OpBecomes, LedgerInv, AllVerified
  <2> QED BY <2>1, <2>2 DEF AllVerified
<1>4. AddedIsKept'
  <2>1. Sole' <=> Sole
    BY DEF Sole
  <2>2. Sole => \A u \in lSetup.trackers : u = t
    BY DEF Sole
  <2>3. Sole => \A u \in lSetup.trackers : ArtLeads(lArt'[u], lOp'[u], lStore')
    BY <2>2 DEF ArtBecomes, OpBecomes
  <2> QED BY <2>1, <2>3 DEF AddedIsKept
<1>5. ~Yields => \A u \in Trackers \ {t} : lOp[u] = Ledger!Idle /\ lOp'[u] = Ledger!Idle
  BY DEF Ledger!MayRun, OpBecomes
<1>6. OneAtATime'
  BY <1>5 DEF OneAtATime
<1>7. ASSUME NEW u \in Trackers \ {t} PROVE KeepsUp(lArt[u], lOp'[u], lStore')
  <2>1. KeepsUp(lArt[u], lOp[u], lStore) /\ lOp'[u] = lOp[u]
    BY DEF LedgerInv, AllKeepUp, OpBecomes
  <2>2. CASE lStore' = lStore
    BY <2>1, <2>2
  <2>3. CASE lOp[t].at = "write" /\ lStore' = lOp[t].out
    <3>1. ~Yields => lOp'[u] = Ledger!Idle /\ Ledger!Idle.at = "idle"
      BY <1>5 DEF Ledger!Idle
    <3>2. /\ lArt[u] # None => lArt[u].v \in Nat
          /\ lStore # None => lStore.v \in Nat
          /\ lArt[t] # None => lArt[t].v \in Nat
      BY <1>1, TasksOfArtifact DEF LedgerInv, LedgerTypes, Saved
    <3>3. ASSUME ~Yields, ~ReadsFail, ~WritesFail PROVE Follows(lArt[u], lOp'[u], lStore')
      <4>1. lArt[u] # None => lStore # None /\ lArt[u].v <= lStore.v
        BY <2>1, <3>1, <3>3 DEF KeepsUp, Follows
      <4>2. KeepsUp(lArt[t], lOp[t], lStore) /\ lArt[t] # None
        BY <1>1, <2>3, TrackerHas
      <4>3. lStore' # None /\ (lStore # None => lStore.v < lStore'.v) /\ lStore'.v = lArt[t].v
        BY <2>3, <3>3, <4>2 DEF KeepsUp, Follows
      <4>4. lArt[u] # None => lArt[u].v < lStore'.v
        BY <3>2, <4>1, <4>2, <4>3
      <4> QED BY <3>1, <3>2, <3>3, <4>2, <4>3, <4>4 DEF Follows
    <3>4. ~Yields => OutIsNewer(lOp'[u], lStore')
      BY <3>1 DEF OutIsNewer
    <3> QED BY <3>3, <3>4 DEF KeepsUp
  <2> QED BY <2>2, <2>3
<1>8. AllKeepUp'
  <2>1. \A u \in Trackers \ {t} : KeepsUp(lArt'[u], lOp'[u], lStore')
    BY <1>7 DEF ArtBecomes
  <2>2. KeepsUp(lArt'[t], lOp'[t], lStore')
    BY DEF ArtBecomes, OpBecomes
  <2> QED BY <2>1, <2>2 DEF AllKeepUp
<1> QED BY <1>2, <1>3, <1>4, <1>6, <1>8 DEF LedgerInv

LEMMA OpsAreRunning ==
  ASSUME KeptAssumption, NEW where \in {"load", "next", "check", "write"}, NEW todo
  PROVE  /\ IsRunning(Ledger!At(where, todo)) /\ Ledger!At(where, todo).at = where
         /\ Ledger!At(where, todo).out = None /\ Ledger!At(where, todo).adds = {}
BY DEF Ledger!At, IsRunning, Saved

LEMMA BootstrapLedger ==
  ASSUME KeptAssumption, LedgerInv, NEW t \in lSetup.trackers, NEW s \in Owners,
         Ledger!Bootstrap(t, s)
  PROVE  LedgerInv'
<1> DEFINE o == Ledger!At("load", <<>>)
<1>1. /\ UNCHANGED <<lSetup, lArt, lStore, lDisk, lSure>> /\ lOp[t] = Ledger!Idle
      /\ lOp' = [lOp EXCEPT ![t] = o] /\ lCur' = [lCur EXCEPT ![t] = s] /\ Ledger!MayRun(t)
  BY DEF Ledger!Bootstrap, Ledger!Free
<1>2. IsRunning(o) /\ o.at = "load" /\ o.out = None
  BY OpsAreRunning
<1> HIDE DEF o
<1>3. t \in Trackers /\ LedgerTypes
  BY TrackerHas DEF LedgerInv
<1>4. ArtBecomes(t, lArt[t]) /\ OpBecomes(t, o)
  BY <1>1, <1>3, SameArt, SetOp
<1>5. lCur' \in [Trackers -> Owners \cup {None}]
  BY <1>1, <1>3 DEF LedgerTypes
<1>6. Sole => ArtLeads(lArt[t], o, lStore) /\ AreStored(lSure, lStore)
  <2>1. Ledger!Idle.at = "idle"
    BY DEF Ledger!Idle
  <2> QED BY <2>1, <1>1, <1>2, TrackerHas DEF ArtLeads
<1>7. KeepsUp(lArt[t], o, lStore)
  BY <1>1, <1>2, TrackerHas DEF KeepsUp, Follows, OutIsNewer, Ledger!Idle
<1> QED BY <1>1, <1>2, <1>4, <1>5, <1>6, <1>7, TrackerHas, TrackerMoves

LEMMA LoadLedger ==
  ASSUME KeptAssumption, LedgerInv, NEW t \in lSetup.trackers, NEW fails \in BOOLEAN,
         Ledger!Load(t, fails)
  PROVE  LedgerInv'
<1> DEFINE found == Ledger!Read(fails)
           fromDisk == found = None /\ lDisk # None
           a == CASE found # None -> found [] fromDisk -> lDisk [] OTHER -> Ledger!FreshArtifact
           o == Ledger!At("check", IF fromDisk THEN <<0>> ELSE <<>>)
<1>1. /\ UNCHANGED <<lSetup, lStore, lDisk, lCur, lSure>> /\ (fails => ReadsFail)
      /\ lOp' = [lOp EXCEPT ![t] = o] /\ lArt' = [lArt EXCEPT ![t] = a]
      /\ Ledger!MayRun(t)
  BY DEF Ledger!Load, Ledger!Flush
<1>2. IsRunning(o) /\ o.at = "check" /\ o.out = None /\ o.adds = {}
  BY OpsAreRunning
<1>3. found = lStore \/ (found = None /\ fails)
  BY DEF Ledger!Read
<1>4. /\ a \in Ledger!Artifact /\ Verified(a)
      /\ found # None => a = found
  BY <1>3, TrackerHas, FreshIsVerified
<1> HIDE DEF a, o, found
<1>5. t \in Trackers /\ LedgerTypes /\ a \in Saved /\ a # None
  BY <1>4, TrackerHas, NoneIsNone DEF LedgerInv, Saved
<1>6. ArtBecomes(t, a) /\ OpBecomes(t, o)
  BY <1>1, <1>5, SetArt, SetOp
<1>7. Sole => ArtLeads(a, o, lStore) /\ AreStored(lSure, lStore)
  <2>1. Sole => found = lStore
    BY <1>1, <1>3 DEF Sole
  <2>2. Sole /\ lStore # None => a = lStore
    BY <2>1, <1>4
  <2>3. a.v \in Nat
    BY <1>4, TasksOfArtifact
  <2> QED BY <2>2, <2>3, <1>2, <1>5, TrackerHas DEF ArtLeads
<1>8. KeepsUp(a, o, lStore)
  <2>1. ~ReadsFail /\ lStore # None => a = lStore /\ a.v \in Nat
    BY <1>1, <1>3, <1>4, TasksOfArtifact
  <2> QED BY <2>1, <1>2 DEF KeepsUp, Follows, OutIsNewer
<1> QED BY <1>1, <1>2, <1>4, <1>5, <1>6, <1>7, <1>8, TrackerHas, TrackerMoves DEF LedgerTypes

Writing(r, a) == [r EXCEPT !.at = "write", !.out = a]

LEMMA WritingOp ==
  ASSUME NEW r, IsRunning(r), NEW a \in Saved
  PROVE  /\ IsRunning(Writing(r, a)) /\ Writing(r, a).at = "write"
         /\ Writing(r, a).out = a /\ Writing(r, a).adds = r.adds
<1> DEFINE o == Writing(r, a)
<1>1. DOMAIN o = DOMAIN r
  BY DEF Writing
<1>2. o.at = "write" /\ o.out = a /\ o.adds = r.adds
  BY DEF IsRunning, Writing
<1> HIDE DEF o
<1>3. IsRunning(o)
  BY <1>1, <1>2 DEF IsRunning
<1> QED BY <1>2, <1>3 DEF o

LEMMA CheckLedger ==
  ASSUME KeptAssumption, LedgerInv, NEW t \in lSetup.trackers, NEW fails \in BOOLEAN,
         Ledger!Check(t, fails)
  PROVE  LedgerInv'
<1> DEFINE found == Ledger!Read(fails)
           saved == Raised(lArt[t])
           o == Writing(lOp[t], saved)
<1>1. /\ UNCHANGED <<lSetup, lStore, lDisk, lCur, lSure>> /\ (fails => ReadsFail)
      /\ lOp[t].at = "check" /\ lArt[t].v <= MaxVersion /\ Ledger!MayRun(t)
  BY DEF Ledger!Check
<1>2. /\ t \in Trackers /\ LedgerTypes /\ lArt[t] \in Ledger!Artifact /\ lArt[t] # None
      /\ Verified(lArt[t]) /\ IsRunning(lOp[t])
  BY <1>1, TrackerHas DEF LedgerInv, Ledger!Idle
<1>3. found = lStore \/ (found = None /\ fails)
  BY DEF Ledger!Read
<1>4. lArt[t].v \in Nat /\ (lStore # None => lStore.v \in Nat)
  BY <1>2, TrackerHas, TasksOfArtifact
<1>5. Sole => /\ lStore # None => Ledger!Has(lStore) \subseteq Ledger!Has(lArt[t])
              /\ lStore # None => lStore.v <= lArt[t].v
              /\ lOp[t].adds \subseteq Ledger!Has(lArt[t]) /\ AreStored(lSure, lStore)
  BY <1>1, <1>2, TrackerHas DEF ArtLeads
<1>6. CASE found # None /\ found.v > lArt[t].v
  <2>1. lOp' = [lOp EXCEPT ![t] = Ledger!Idle] /\ UNCHANGED lArt
    BY <1>6 DEF Ledger!Check
  <2>2. ArtBecomes(t, lArt[t]) /\ OpBecomes(t, Ledger!Idle)
    BY <2>1, <1>2, SameArt, SetOp
  <2>3. ~Sole
    BY <1>3, <1>4, <1>5, <1>6
  <2>4. Ledger!Idle.at = "idle"
    BY DEF Ledger!Idle
  <2>5. KeepsUp(lArt[t], Ledger!Idle, lStore)
    <3>1. lStore # None
      BY <1>3, <1>6
    <3> QED BY <3>1, <2>4, <1>1, TrackerHas DEF KeepsUp, Follows, OutIsNewer
  <2> HIDE DEF found
  <2> QED BY <2>2, <2>3, <2>4, <2>5, <1>1, <1>2, TrackerHas, TrackerMoves DEF LedgerTypes
<1>7. CASE ~(found # None /\ found.v > lArt[t].v)
  <2>1. lArt' = [lArt EXCEPT ![t] = saved] /\ lOp' = [lOp EXCEPT ![t].at = "write", ![t].out = saved]
    BY <1>7 DEF Ledger!Check, Raised
  <2>2. lOp' = [lOp EXCEPT ![t] = o]
    BY <2>1 DEF Writing
  <2>3. /\ saved \in Ledger!Artifact /\ saved.v = lArt[t].v + 1 /\ Verified(saved)
        /\ Ledger!Has(saved) = Ledger!Has(lArt[t])
    BY <1>1, <1>2, RaisedArtifact
  <2> HIDE DEF saved
  <2>4. saved # None /\ saved \in Saved
    BY <2>3, NoneIsNone DEF Saved
  <2>5. o.at = "write" /\ o.out = saved /\ o.adds = lOp[t].adds /\ IsRunning(o)
    <3> HIDE DEF saved
    <3> QED BY <1>2, <2>4, WritingOp
  <2> HIDE DEF o
  <2>6. ArtBecomes(t, saved) /\ OpBecomes(t, o)
    BY <1>2, <2>1, <2>2, <2>4, SetArt, SetOp
  <2>7. Sole => ArtLeads(saved, o, lStore) /\ AreStored(lSure, lStore)
    BY <1>4, <1>5, <2>3, <2>4, <2>5 DEF ArtLeads
  <2>8. KeepsUp(saved, o, lStore)
    <3>1. ~ReadsFail /\ lStore # None => lStore.v <= lArt[t].v
      BY <1>1, <1>3, <1>4, <1>7
    <3> HIDE DEF found
    <3>2. lStore # None /\ ~ReadsFail => lStore.v < saved.v
      BY <3>1, <2>3, <1>4
    <3>3. ~Yields /\ ~ReadsFail => OutIsNewer(o, lStore)
      BY <3>2, <2>4, <2>5 DEF OutIsNewer
    <3>4. ASSUME ~Yields, ~ReadsFail, ~WritesFail, lStore # None
          PROVE  Ledger!Has(lStore) \subseteq Ledger!Has(saved)
      <4>1. lArt[t].v <= lStore.v /\
              (lArt[t].v = lStore.v => Ledger!Has(lStore) \subseteq Ledger!Has(lArt[t]))
        BY <3>4, <1>1, <1>2, TrackerHas DEF KeepsUp, Follows
      <4> QED BY <3>1, <3>4, <4>1, <2>3, <1>4
    <3> QED BY <2>3, <2>4, <2>5, <3>2, <3>3, <3>4 DEF KeepsUp, Follows
  <2> HIDE DEF found
  <2> QED BY <1>1, <1>2, <2>3, <2>4, <2>5, <2>6, <2>7, <2>8, TrackerHas, TrackerMoves DEF LedgerTypes
<1> QED BY <1>6, <1>7

LEMMA WriteLedger ==
  ASSUME KeptAssumption, LedgerInv, NEW t \in lSetup.trackers, NEW fails \in BOOLEAN,
         Ledger!Write(t, fails)
  PROVE  LedgerInv'
<1>1. UNCHANGED <<lSetup, lArt, lCur, lDisk>> /\ lOp[t].at = "write" /\ Ledger!MayRun(t)
  BY DEF Ledger!Write
<1>2. /\ t \in Trackers /\ LedgerTypes /\ lArt[t] # None /\ IsRunning(lOp[t])
      /\ lOp[t].out \in Saved /\ (lOp[t].out # None => Verified(lOp[t].out))
  BY <1>1, TrackerHas DEF LedgerInv, AllVerified, IsRunning, Ledger!Idle
<1>3. ArtBecomes(t, lArt[t])
  BY <1>1, <1>2, SameArt
<1>4. CASE fails
  <2>1. lOp' = [lOp EXCEPT ![t] = Ledger!Idle] /\ WritesFail /\ UNCHANGED lStore
    BY <1>4 DEF Ledger!Write
  <2>2. OpBecomes(t, Ledger!Idle) /\ Ledger!Idle.at = "idle"
    BY <2>1, <1>2, SetOp DEF Ledger!Idle
  <2>3. KeepsUp(lArt[t], Ledger!Idle, lStore)
    BY <2>1, <2>2 DEF KeepsUp, OutIsNewer
  <2> QED BY <2>1, <2>2, <2>3, <1>1, <1>2, <1>3, TrackerHas, TrackerMoves DEF LedgerTypes, Sole
<1>5. CASE ~fails
  <2> DEFINE o == IF lOp[t].todo = <<>> THEN Ledger!Idle ELSE Ledger!At("next", lOp[t].todo)
  <2>1. lOp' = [lOp EXCEPT ![t] = o] /\ lStore' = lOp[t].out /\ lSure' = lSure \cup lOp[t].adds
    BY <1>5 DEF Ledger!Write
  <2>2. o = Ledger!Idle \/ (IsRunning(o) /\ o.out = None)
    BY OpsAreRunning
  <2>3. o.at \in {"idle", "next"}
    BY OpsAreRunning DEF Ledger!Idle
  <2> HIDE DEF o
  <2>4. OpBecomes(t, o)
    BY <2>1, <1>2, SetOp
  <2>5. Sole => ArtLeads(lArt[t], o, lStore') /\ AreStored(lSure', lStore')
    <3> SUFFICES ASSUME Sole PROVE ArtLeads(lArt[t], o, lStore') /\ AreStored(lSure', lStore')
      OBVIOUS
    <3>1. /\ lStore' # None /\ Ledger!Has(lStore') = Ledger!Has(lArt[t]) /\ lStore'.v = lArt[t].v
          /\ lOp[t].adds \subseteq Ledger!Has(lArt[t])
          /\ lStore # None => Ledger!Has(lStore) \subseteq Ledger!Has(lArt[t])
          /\ AreStored(lSure, lStore)
      BY <1>1, <1>2, <2>1, TrackerHas DEF ArtLeads
    <3>2. lArt[t].v \in Nat
      BY <1>2, TrackerHas, TasksOfArtifact
    <3>3. lSure' \subseteq Ledger!Has(lStore')
      BY <2>1, <3>1 DEF AreStored
    <3>4. AreStored(lSure', lStore')
      BY <3>1, <3>3 DEF AreStored
    <3> QED BY <2>3, <3>1, <3>2, <3>4 DEF ArtLeads
  <2>6. KeepsUp(lArt[t], o, lStore')
    <3>1. ~Yields /\ ~ReadsFail /\ ~WritesFail =>
            lStore' # None /\ Ledger!Has(lStore') = Ledger!Has(lArt[t]) /\ lStore'.v = lArt[t].v
      BY <1>1, <2>1, TrackerHas DEF KeepsUp, Follows
    <3>2. lArt[t].v \in Nat
      BY <1>2, TrackerHas, TasksOfArtifact
    <3> QED BY <2>3, <3>1, <3>2 DEF KeepsUp, Follows, OutIsNewer
  <2> QED BY <2>1, <2>2, <2>3, <2>4, <2>5, <2>6, <1>1, <1>2, <1>3, TrackerHas, TrackerMoves
          DEF LedgerTypes
<1> QED BY <1>4, <1>5

\* An operation that adds no task yet starts on an artifact, or goes on with it.
LEMMA GoesOn ==
  ASSUME KeptAssumption, LedgerInv, NEW t \in lSetup.trackers, lArt[t] # None,
         lOp[t].at \in {"idle", "next"}, UNCHANGED <<lSetup, lCur, lStore>>,
         NEW a \in Ledger!Artifact, Verified(a), SameTasks(a, lArt[t]), ArtBecomes(t, a),
         NEW o, OpBecomes(t, o), o = Ledger!Idle \/ (IsRunning(o) /\ o.out = None /\ o.adds = {}),
         o.at \in {"idle", "next", "check"},
         lDisk' \in Saved, lDisk' # None => Verified(lDisk'),
         Sole => AreStored(lSure', lStore), Ledger!MayRun(t)
  PROVE  LedgerInv'
<1>1. a # None /\ a \in Saved
  BY NoneIsNone DEF Saved
<1>2. Sole => ArtLeads(a, o, lStore)
  <2>1. Sole => /\ lStore # None => Ledger!Has(lStore) \subseteq Ledger!Has(lArt[t])
                /\ lStore # None => lStore.v <= lArt[t].v
                /\ lStore # None /\ Ledger!Has(lArt[t]) = Ledger!Has(lStore)
    BY TrackerHas DEF ArtLeads
  <2>2. o.at = "check" => o.adds = {}
    BY DEF Ledger!Idle
  <2> QED BY <1>1, <2>1, <2>2 DEF ArtLeads, SameTasks
<1>3. KeepsUp(a, o, lStore)
  BY TrackerHas DEF KeepsUp, Follows, OutIsNewer, SameTasks
<1> QED BY <1>1, <1>2, <1>3, TrackerHas, TrackerMoves DEF LedgerInv, LedgerTypes

LEMMA StepLedger ==
  ASSUME KeptAssumption, LedgerInv, NEW t \in lSetup.trackers, Ledger!Step(t)
  PROVE  LedgerInv'
<1> DEFINE item == Head(lOp[t].todo)
           rest == Tail(lOp[t].todo)
           later == IF rest = <<>> THEN Ledger!Idle ELSE Ledger!At("next", rest)
           check == Ledger!At("check", rest)
<1>1. UNCHANGED <<lSetup, lCur, lStore, lDisk>> /\ lOp[t].at = "next" /\ Ledger!MayRun(t)
  BY DEF Ledger!Step
<1>2. /\ t \in Trackers /\ LedgerTypes /\ lArt[t] # None /\ lArt[t] \in Ledger!Artifact
      /\ Verified(lArt[t]) /\ SameTasks(lArt[t], lArt[t])
  BY <1>1, TrackerHas DEF LedgerInv, SameTasks
<1>3. lDisk' \in Saved /\ (lDisk' # None => Verified(lDisk'))
  BY <1>1, TrackerHas
<1>4. /\ later = Ledger!Idle \/ (IsRunning(later) /\ later.out = None /\ later.adds = {})
      /\ later.at \in {"idle", "next"}
      /\ IsRunning(check) /\ check.out = None /\ check.adds = {} /\ check.at = "check"
  BY OpsAreRunning DEF Ledger!Idle
<1>5. CASE item = 0 /\ lOp' = [lOp EXCEPT ![t] = check] /\ UNCHANGED <<lArt, lSure>>
  <2> HIDE DEF check
  <2>1. ArtBecomes(t, lArt[t]) /\ OpBecomes(t, check)
    BY <1>2, <1>5, SameArt, SetOp
  <2>2. Sole => AreStored(lSure', lStore)
    BY <1>5, TrackerHas
  <2> QED BY <2>1, <2>2, <1>1, <1>2, <1>3, <1>4, GoesOn
<1>6. CASE /\ item \in Ledger!Has(lArt[t]) /\ lSure' = lSure \cup {item}
           /\ lOp' = [lOp EXCEPT ![t] = later] /\ UNCHANGED lArt
  <2> HIDE DEF later, item
  <2>1. ArtBecomes(t, lArt[t]) /\ OpBecomes(t, later)
    BY <1>2, <1>6, SameArt, SetOp
  <2>2. Sole => AreStored(lSure', lStore)
    <3>1. Sole => lStore # None /\ Ledger!Has(lArt[t]) = Ledger!Has(lStore)
      BY <1>1, <1>2, TrackerHas DEF ArtLeads
    <3> QED BY <1>6, <3>1, TrackerHas DEF AreStored
  <2> QED BY <2>1, <2>2, <1>1, <1>2, <1>3, <1>4, GoesOn
<1>7. CASE /\ item \in Tasks \ Ledger!Has(lArt[t]) /\ UNCHANGED lSure
           /\ lArt' = [lArt EXCEPT ![t].tasks[item] = Ledger!New]
           /\ lOp' = [lOp EXCEPT ![t] = [check EXCEPT !.adds = {item}]]
  <2> DEFINE a == WithTask(lArt[t], item, Ledger!New)
             o == [check EXCEPT !.adds = {item}]
  <2>1. lArt' = [lArt EXCEPT ![t] = a]
    BY <1>7 DEF WithTask
  <2>2. Ledger!New \in Ledger!TaskState /\ Ledger!New.st # "passing"
    BY DEF Ledger!New, Ledger!TaskState, Ledger!Status
  <2> HIDE DEF item
  <2>3. /\ a \in Ledger!Artifact /\ a.v = lArt[t].v /\ Verified(a)
        /\ Ledger!Has(a) = Ledger!Has(lArt[t]) \cup {item}
    BY <1>2, <1>7, <2>2, ArtifactWithTask
  <2>4. o.adds = {item} /\ o.out = None /\ o.at = "check" /\ IsRunning(o)
    <3>1. DOMAIN check = {"at", "todo", "adds", "claims", "out"}
      BY <1>4 DEF IsRunning
    <3> HIDE DEF check
    <3>2. o.adds = {item} /\ o.out = check.out /\ o.at = check.at /\ DOMAIN o = DOMAIN check
      BY <3>1
    <3> HIDE DEF o
    <3> QED BY <3>1, <3>2, <1>4 DEF IsRunning
  <2>5. lOp' = [lOp EXCEPT ![t] = o]
    BY <1>7
  <2> HIDE DEF a, o
  <2>6. a # None /\ a \in Saved
    BY <2>3, NoneIsNone DEF Saved
  <2>7. ArtBecomes(t, a) /\ OpBecomes(t, o)
    BY <1>2, <2>1, <2>5, <2>6, SetArt, SetOp
  <2>8. Sole => ArtLeads(a, o, lStore) /\ AreStored(lSure', lStore)
    <3>1. Sole => /\ lStore # None => Ledger!Has(lStore) \subseteq Ledger!Has(lArt[t])
                  /\ lStore # None => lStore.v <= lArt[t].v
                  /\ AreStored(lSure, lStore)
      BY <1>2, TrackerHas DEF ArtLeads
    <3> QED BY <1>7, <2>3, <2>4, <2>6, <3>1 DEF ArtLeads
  <2>9. KeepsUp(a, o, lStore)
    BY <1>1, <1>2, <2>3, <2>4, TrackerHas DEF KeepsUp, Follows, OutIsNewer
  <2> QED BY <2>3, <2>4, <2>6, <2>7, <2>8, <2>9, <1>1, <1>2, <1>3, TrackerHas, TrackerMoves
          DEF LedgerTypes
<1> QED BY <1>5, <1>6, <1>7 DEF Ledger!Step, Ledger!Flush

LEMMA AddLedger ==
  ASSUME KeptAssumption, LedgerInv, NEW t \in lSetup.trackers, NEW i \in Tasks, Ledger!Add(t, i)
  PROVE  LedgerInv'
<1> DEFINE o == Ledger!At("next", <<i>>)
<1>1. /\ UNCHANGED <<lSetup, lArt, lCur, lStore, lDisk, lSure>>
      /\ lOp[t] = Ledger!Idle /\ lArt[t] # None /\ Ledger!MayRun(t)
      /\ lOp' = [lOp EXCEPT ![t] = o]
  BY DEF Ledger!Add, Ledger!Ready, Ledger!Free
<1>2. IsRunning(o) /\ o.out = None /\ o.adds = {} /\ o.at = "next"
  BY OpsAreRunning
<1> HIDE DEF o
<1>3. t \in Trackers /\ LedgerTypes /\ lOp[t].at = "idle" /\ SameTasks(lArt[t], lArt[t])
  BY <1>1, TrackerHas DEF LedgerInv, SameTasks, Ledger!Idle
<1>4. ArtBecomes(t, lArt[t]) /\ OpBecomes(t, o)
  BY <1>1, <1>3, SameArt, SetOp
<1> QED BY <1>1, <1>2, <1>3, <1>4, TrackerHas, GoesOn

LEMMA SyncLedger ==
  ASSUME KeptAssumption, LedgerInv, NEW t \in lSetup.trackers, Ledger!Sync(t)
  PROVE  LedgerInv'
<1>1. /\ UNCHANGED <<lSetup, lArt, lCur, lStore, lDisk, lSure>>
      /\ lOp[t] = Ledger!Idle /\ lArt[t] # None /\ Ledger!MayRun(t)
  BY DEF Ledger!Sync, Ledger!Ready, Ledger!Free
<1>2. PICK todo : lOp' = [lOp EXCEPT ![t] = Ledger!At("next", todo)]
  BY DEF Ledger!Sync
<1> DEFINE o == Ledger!At("next", todo)
<1>3. IsRunning(o) /\ o.out = None /\ o.adds = {} /\ o.at = "next"
  BY OpsAreRunning
<1> HIDE DEF o
<1>4. t \in Trackers /\ LedgerTypes /\ lOp[t].at = "idle" /\ SameTasks(lArt[t], lArt[t])
  BY <1>1, TrackerHas DEF LedgerInv, SameTasks, Ledger!Idle
<1>5. lOp' = [lOp EXCEPT ![t] = o]
  BY <1>2 DEF o
<1>6. ArtBecomes(t, lArt[t]) /\ OpBecomes(t, o)
  BY <1>1, <1>4, <1>5, SameArt, SetOp
<1> QED BY <1>1, <1>3, <1>4, <1>6, TrackerHas, GoesOn

\* An operation that changes nothing but the owner of tasks, and the file.
LEMMA RetouchLedger ==
  ASSUME KeptAssumption, LedgerInv, NEW t \in lSetup.trackers, lArt[t] # None,
         Ledger!MayRun(t), UNCHANGED <<lSetup, lCur, lOp, lStore, lSure>>,
         lArt' = [lArt EXCEPT ![t] = Ledger!Reclaimed(lArt[t], lCur[t])],
         lDisk' \in {lDisk, Ledger!Reclaimed(lArt[t], lCur[t])}
  PROVE  LedgerInv'
<1> DEFINE a == Ledger!Reclaimed(lArt[t], lCur[t])
<1>1. t \in Trackers /\ LedgerTypes /\ lArt[t] \in Ledger!Artifact /\ Verified(lArt[t])
  BY TrackerHas DEF LedgerInv
<1>2. a \in Ledger!Artifact /\ SameTasks(a, lArt[t]) /\ Verified(a)
  BY <1>1, TrackerHas, ReclaimedArtifact
<1>3. lArt' = [lArt EXCEPT ![t] = a] /\ lDisk' \in {lDisk, a}
  OBVIOUS
<1> HIDE DEF a
<1>4. a # None /\ a \in Saved
  BY <1>2, NoneIsNone DEF Saved
<1>5. ArtBecomes(t, a) /\ OpBecomes(t, lOp[t])
  BY <1>1, <1>3, <1>4, SetArt, SameOp
<1>6. lDisk' \in Saved /\ (lDisk' # None => Verified(lDisk'))
  BY <1>2, <1>3, <1>4, TrackerHas
<1>7. lOp[t] # Ledger!Idle /\ lOp[t].out # None => Verified(lOp[t].out)
  BY <1>1 DEF LedgerInv, AllVerified
<1>8. Sole => ArtLeads(a, lOp[t], lStore) /\ AreStored(lSure, lStore)
  <2>1. Sole => ArtLeads(lArt[t], lOp[t], lStore) /\ AreStored(lSure, lStore)
    BY TrackerHas
  <2> QED BY <2>1, <1>2, <1>4 DEF ArtLeads, SameTasks
<1>9. KeepsUp(a, lOp[t], lStore)
  BY <1>2, <1>4, TrackerHas DEF KeepsUp, Follows, OutIsNewer, SameTasks
<1> QED BY <1>1, <1>2, <1>4, <1>5, <1>6, <1>7, <1>8, <1>9, TrackerHas, TrackerMoves DEF LedgerTypes

LEMMA FocusLedger ==
  ASSUME KeptAssumption, LedgerInv, NEW t \in lSetup.trackers, Ledger!Focus(t)
  PROVE  LedgerInv'
BY RetouchLedger DEF Ledger!Focus

LEMMA SaveToDiskLedger ==
  ASSUME KeptAssumption, LedgerInv, NEW t \in lSetup.trackers, Ledger!SaveToDisk(t)
  PROVE  LedgerInv'
<1>1. lArt' = [lArt EXCEPT ![t] = Ledger!Reclaimed(lArt[t], lCur[t])] /\ t \in Trackers
  BY TrackerHas DEF Ledger!SaveToDisk
<1>2. lArt'[t] = Ledger!Reclaimed(lArt[t], lCur[t])
  BY <1>1 DEF LedgerInv, LedgerTypes
<1>3. Ledger!MayRun(t)
  BY DEF Ledger!SaveToDisk, Ledger!Free
<1> QED BY <1>1, <1>2, <1>3, RetouchLedger DEF Ledger!SaveToDisk

LEMMA CrashLedger ==
  ASSUME KeptAssumption, LedgerInv, NEW t \in lSetup.trackers, Ledger!Crash(t)
  PROVE  LedgerInv'
<1>1. /\ UNCHANGED <<lSetup, lStore, lDisk, lSure>> /\ lArt' = [lArt EXCEPT ![t] = None]
      /\ lCur' = [lCur EXCEPT ![t] = None] /\ lOp' = [lOp EXCEPT ![t] = Ledger!Idle]
      /\ Ledger!MayRun(t)
  BY DEF Ledger!Crash
<1>2. t \in Trackers /\ LedgerTypes /\ None \in Saved
  BY TrackerHas DEF LedgerInv, Saved
<1>3. ArtBecomes(t, None) /\ OpBecomes(t, Ledger!Idle)
  BY <1>1, <1>2, SetArt, SetOp
<1>4. lCur' \in [Trackers -> Owners \cup {None}]
  BY <1>1, <1>2 DEF LedgerTypes
<1>5. ArtLeads(None, Ledger!Idle, lStore) /\ Ledger!Idle.at = "idle"
  BY DEF ArtLeads, Ledger!Idle
<1>6. KeepsUp(None, Ledger!Idle, lStore)
  BY <1>5 DEF KeepsUp, Follows, OutIsNewer
<1> QED BY <1>1, <1>2, <1>3, <1>4, <1>5, <1>6, TrackerHas, TrackerMoves

LEMMA UpdateLedger ==
  ASSUME KeptAssumption, LedgerInv, NEW t \in lSetup.trackers, NEW i \in Tasks,
         NEW status \in lSetup.reports, NEW results \in BOOLEAN,
         Ledger!Update(t, i, status, results)
  PROVE  LedgerInv'
<1> DEFINE task == lArt[t].tasks[i]
           new == Ledger!Updated(i, task, status, results, lCur[t])
           a == WithTask(lArt[t], i, new)
           o == Ledger!At("check", <<>>)
<1>1. /\ UNCHANGED <<lSetup, lCur, lStore, lDisk, lSure>> /\ lOp[t] = Ledger!Idle
      /\ lArt[t] # None /\ i \in Ledger!Has(lArt[t]) /\ lOp' = [lOp EXCEPT ![t] = o]
      /\ Ledger!MayRun(t)
  BY DEF Ledger!Update, Ledger!Ready, Ledger!Free
<1>2. lArt' = [lArt EXCEPT ![t] = a]
  BY DEF Ledger!Update, WithTask
<1>3. /\ t \in Trackers /\ LedgerTypes /\ lArt[t] \in Ledger!Artifact /\ Verified(lArt[t])
      /\ lCur[t] \in Owners \cup {None} /\ lOp[t].at = "idle" /\ status \in Ledger!Status
  <2>1. status \in Ledger!Status
    BY DEF LedgerInv, LedgerTypes, KeptAssumption, Ledger!LedgerAssumption
  <2> QED BY <2>1, <1>1, TrackerHas DEF LedgerInv, Ledger!Idle
<1>4. task \in Ledger!TaskState /\ (task.st = "passing" => task.ok /\ i \notin Stepless)
  BY <1>1, <1>3, TasksOfArtifact DEF Verified
<1>5. new \in Ledger!TaskState /\ (new.st = "passing" => new.ok /\ i \notin Stepless)
  BY <1>3, <1>4, UpdatedIsVerified
<1> HIDE DEF new
<1>6. a \in Ledger!Artifact /\ Verified(a) /\ SameTasks(a, lArt[t])
  <2> HIDE DEF task
  <2>1. /\ a \in Ledger!Artifact /\ Verified(a) /\ a.v = lArt[t].v
        /\ Ledger!Has(a) = Ledger!Has(lArt[t]) \cup {i}
    BY <1>3, <1>5, ArtifactWithTask
  <2> HIDE DEF a
  <2> QED BY <2>1, <1>1 DEF SameTasks
<1>7. IsRunning(o) /\ o.out = None /\ o.adds = {} /\ o.at = "check"
  BY OpsAreRunning
<1> HIDE DEF a, o
<1>8. ArtBecomes(t, a) /\ OpBecomes(t, o)
  BY <1>1, <1>2, <1>3, <1>6, SetArt, SetOp DEF Saved
<1> QED BY <1>1, <1>3, <1>6, <1>7, <1>8, TrackerHas, GoesOn

LEMMA LeastTask ==
  ASSUME NEW S, S \subseteq Nat, S # {}
  PROVE  Ledger!MostUrgent(S) \in S
<1>1. IsWellFoundedOn(OpToRel(<, Nat), Nat)
  BY NatLessThanWellFounded
<1>2. PICK n \in S : \A k \in S : <<k, n>> \notin OpToRel(<, Nat)
  BY <1>1, WFMin
<1>3. \A k \in S : ~(k < n)
  BY <1>2 DEF OpToRel
<1>4. \A k \in S : n <= k
  BY <1>3
<1> QED BY <1>4 DEF Ledger!MostUrgent

LEMMA ClaimLedger ==
  ASSUME KeptAssumption, LedgerInv, NEW t \in lSetup.trackers, Ledger!Claim(t)
  PROVE  LedgerInv'
<1> DEFINE mine == Ledger!Reclaimed(lArt[t], lCur[t])
           S == Ledger!Candidates(mine, lCur[t])
           i == Ledger!MostUrgent(S)
<1>1. /\ UNCHANGED <<lSetup, lCur, lStore, lDisk, lSure>> /\ lOp[t] = Ledger!Idle
      /\ lArt[t] # None /\ Ledger!MayRun(t)
  BY DEF Ledger!Claim, Ledger!Ready, Ledger!Free
<1>2. /\ t \in Trackers /\ LedgerTypes /\ lArt[t] \in Ledger!Artifact /\ Verified(lArt[t])
      /\ lCur[t] \in Owners \cup {None} /\ lOp[t].at = "idle"
  BY <1>1, TrackerHas DEF LedgerInv, Ledger!Idle
<1>3. mine \in Ledger!Artifact /\ SameTasks(mine, lArt[t]) /\ Verified(mine)
  BY <1>2, ReclaimedArtifact
<1>4. CASE S = {}
  <2>1. lArt' = [lArt EXCEPT ![t] = mine] /\ UNCHANGED lOp
    BY <1>4 DEF Ledger!Claim
  <2> HIDE DEF mine
  <2>2. ArtBecomes(t, mine) /\ OpBecomes(t, lOp[t])
    BY <1>2, <1>3, <2>1, SetArt, SameOp DEF Saved
  <2> QED BY <1>1, <1>2, <1>3, <2>2, TrackerHas, GoesOn
<1>5. CASE S # {}
  <2> DEFINE task == [mine.tasks[i] EXCEPT !.st = "in_progress", !.own = lCur[t]]
             a == WithTask(mine, i, task)
             o == [Ledger!At("check", <<>>) EXCEPT !.claims = {i}]
  <2>1. lArt' = [lArt EXCEPT ![t] = a] /\ lOp' = [lOp EXCEPT ![t] = o]
    BY <1>5 DEF Ledger!Claim, WithTask
  <2>2. i \in Ledger!Has(mine) /\ i \in Tasks
    <3>1. S \subseteq Ledger!Has(mine) /\ Ledger!Has(mine) \subseteq Tasks /\ Tasks \subseteq Nat
      BY <1>3, TasksOfArtifact DEF Ledger!Candidates, KeptAssumption, Ledger!LedgerAssumption
    <3> HIDE DEF S
    <3> QED BY <1>5, <3>1, LeastTask
  <2> HIDE DEF i, mine
  <2>3. task \in Ledger!TaskState /\ task.st # "passing"
    <3>1. mine.tasks[i] \in Ledger!TaskState
      BY <1>3, <2>2, TasksOfArtifact
    <3> QED BY <3>1, <1>2 DEF Ledger!TaskState, Ledger!Status
  <2> HIDE DEF task
  <2>4. a \in Ledger!Artifact /\ Verified(a) /\ SameTasks(a, lArt[t])
    <3>1. /\ a \in Ledger!Artifact /\ Verified(a) /\ a.v = mine.v
          /\ Ledger!Has(a) = Ledger!Has(mine) \cup {i}
      BY <1>3, <2>2, <2>3, ArtifactWithTask
    <3> HIDE DEF a
    <3> QED BY <3>1, <1>3, <2>2 DEF SameTasks
  <2>5. IsRunning(o) /\ o.out = None /\ o.adds = {} /\ o.at = "check"
    <3> DEFINE c == Ledger!At("check", <<>>)
    <3>1. IsRunning(c) /\ c.out = None /\ c.adds = {} /\ c.at = "check"
      BY OpsAreRunning
    <3> HIDE DEF c
    <3>2. /\ [c EXCEPT !.claims = {i}].adds = c.adds /\ [c EXCEPT !.claims = {i}].out = c.out
          /\ [c EXCEPT !.claims = {i}].at = c.at /\ DOMAIN [c EXCEPT !.claims = {i}] = DOMAIN c
      BY <3>1 DEF IsRunning
    <3>3. o = [c EXCEPT !.claims = {i}]
      BY DEF c
    <3> HIDE DEF o
    <3> QED BY <3>1, <3>2, <3>3 DEF IsRunning
  <2> HIDE DEF a, o
  <2>6. ArtBecomes(t, a) /\ OpBecomes(t, o)
    BY <1>2, <2>1, <2>4, SetArt, SetOp DEF Saved
  <2> QED BY <1>1, <1>2, <2>4, <2>5, <2>6, TrackerHas, GoesOn
<1> QED BY <1>4, <1>5

-----------------------------------------------------------------------------
(* Every step, and what the invariant means. *)

LEMMA NextLedger == ASSUME KeptAssumption, LedgerInv, [Ledger!Next]_lVars PROVE LedgerInv'
<1>1. CASE UNCHANGED lVars
  BY <1>1 DEF lVars, LedgerInv, LedgerTypes, AllVerified, AddedIsKept, Sole,
            OneAtATime, AllKeepUp
<1>2. ASSUME NEW t \in lSetup.trackers, NEW fails \in BOOLEAN,
             Ledger!Load(t, fails) \/ Ledger!Check(t, fails) \/ Ledger!Write(t, fails)
      PROVE  LedgerInv'
  BY <1>2, LoadLedger, CheckLedger, WriteLedger
<1>3. ASSUME NEW t \in lSetup.trackers,
             \/ Ledger!Step(t) \/ Ledger!Sync(t) \/ Ledger!Claim(t)
             \/ Ledger!Focus(t) \/ Ledger!SaveToDisk(t) \/ Ledger!Crash(t)
      PROVE  LedgerInv'
  BY <1>3, StepLedger, SyncLedger, ClaimLedger, FocusLedger, SaveToDiskLedger, CrashLedger
<1>4. ASSUME NEW t \in lSetup.trackers,
             \/ \E s \in Owners : Ledger!Bootstrap(t, s)
             \/ \E i \in Tasks : Ledger!Add(t, i)
             \/ \E i \in Tasks, status \in lSetup.reports, results \in BOOLEAN :
                  Ledger!Update(t, i, status, results)
      PROVE  LedgerInv'
  BY <1>4, BootstrapLedger, AddLedger, UpdateLedger
<1> QED BY <1>1, <1>2, <1>3, <1>4 DEF Ledger!Next

\* What passes has steps that passed, in memory, in the store and in the file; with
\* one tracker and a store that works, what add_task returned of is stored.
LEMMA LedgerMeans ==
  ASSUME KeptAssumption, LedgerInv PROVE PassingIsVerified /\ AddedIsStored
<1>1. PassingIsVerified
  BY DEF PassingIsVerified, Ledger!PassingIsVerified, LedgerInv, AllVerified, Verified
<1>2. AddedIsStored
  BY DEF AddedIsStored, Ledger!AddedIsStored, LedgerInv, AddedIsKept, AreStored, Sole
<1> QED BY <1>1, <1>2

\* Where a store operation lets nobody else run, a save takes no task away and its
\* version is newer.
LEMMA SavesKeep ==
  ASSUME KeptAssumption, LedgerInv, [Ledger!Next]_lVars, ~Yields, ~ReadsFail
  PROVE  Ledger!VersionGrows /\ (~WritesFail => Ledger!SaveStays)
<1>1. CASE UNCHANGED lStore
  BY <1>1 DEF Ledger!VersionGrows, Ledger!SaveStays
<1>2. ASSUME NEW t \in lSetup.trackers, Ledger!Write(t, FALSE)
      PROVE  Ledger!VersionGrows /\ (~WritesFail => Ledger!SaveStays)
  <2>1. lOp[t].at = "write" /\ lStore' = lOp[t].out
    BY <1>2 DEF Ledger!Write
  <2>2. /\ t \in Trackers /\ KeepsUp(lArt[t], lOp[t], lStore)
        /\ lOp[t] = Ledger!Idle \/ IsRunning(lOp[t])
        /\ lStore # None => lStore \in Ledger!Artifact
    BY TrackerHas
  <2>3. lStore # None => lStore.v < lStore'.v /\ lStore.v \in Nat
    BY <2>1, <2>2, TasksOfArtifact DEF KeepsUp, OutIsNewer
  <2>4. lStore' # None => lStore' \in Ledger!Artifact
    BY <2>1, <2>2 DEF IsRunning, Saved, Ledger!Idle
  <2>5. lStore # None /\ lStore' # lStore => lStore'.v > lStore.v
    <3>1. lStore' # None
      BY <2>1, <2>2 DEF KeepsUp, OutIsNewer
    <3> QED BY <2>3, <2>4, <3>1, TasksOfArtifact
  <2>6. ~WritesFail /\ lStore # None =>
          lStore' # None /\ Ledger!Has(lStore) \subseteq Ledger!Has(lStore')
    BY <2>1, <2>2 DEF KeepsUp, Follows
  <2> QED BY <2>5, <2>6 DEF Ledger!VersionGrows, Ledger!SaveStays
<1>3. \/ UNCHANGED lStore
      \/ \E t \in lSetup.trackers : Ledger!Write(t, FALSE)
  <2>1. ASSUME NEW t \in lSetup.trackers, NEW fails \in BOOLEAN, Ledger!Write(t, fails)
        PROVE  UNCHANGED lStore \/ Ledger!Write(t, FALSE)
    BY <2>1 DEF Ledger!Write
  <2> QED
    BY <2>1 DEF Ledger!Next, lVars, Ledger!Bootstrap, Ledger!Load, Ledger!Check, Ledger!Step,
         Ledger!Add, Ledger!Sync, Ledger!Update, Ledger!Claim, Ledger!Focus, Ledger!SaveToDisk,
         Ledger!Crash
<1> QED BY <1>1, <1>2, <1>3

-----------------------------------------------------------------------------
(* What the run states of them. *)

\* A behaviour of MC_Kept runs one component: each step is one of the component, or it
\* leaves the component as it was.
LEMMA PartsStep ==
  ASSUME [AllNext]_all
  PROVE  /\ (part = "hitl" /\ Hitl!Next) \/ UNCHANGED aVars
         /\ [Ledger!Next]_lVars /\ [Jobs!Next]_jVars /\ [Git!Next]_gVars
<1>1. CASE UNCHANGED all
  BY <1>1 DEF all
<1>2. CASE AllNext
  <2>1. part # "hitl" => UNCHANGED aVars
    BY <1>2 DEF AllNext, Others
  <2>2. part # "ledger" => UNCHANGED lVars
    BY <1>2 DEF AllNext, Others
  <2>3. part # "jobs" => UNCHANGED jVars
    BY <1>2 DEF AllNext, Others
  <2>4. part # "git" => UNCHANGED gVars
    BY <1>2 DEF AllNext, Others
  <2>5. /\ part = "hitl" => Hitl!Next
        /\ part = "ledger" => Ledger!Next
        /\ part = "jobs" => Jobs!Next
        /\ part = "git" => Git!Next
    BY <1>2 DEF AllNext
  <2> QED BY <2>1, <2>2, <2>3, <2>4, <2>5
<1> QED BY <1>1, <1>2

\* Whatever runs has the user's consent, and no prompt is skipped without an Accept of
\* the turn where a session has one thread (awrap_tool_call and its coalescer): for any
\* sessions, threads, tools, paths and grants that were there at the start, with the
\* bridge and with a library user's callback.
THEOREM ConsentAlwaysHolds == KeptAssumption /\ AllSpec => []ConsentHolds
<1> SUFFICES ASSUME KeptAssumption PROVE AllSpec => []ConsentHolds
  OBVIOUS
<1>1. AllInit => HitlInv
  BY InitHitl DEF AllInit
<1>2. HitlInv /\ [AllNext]_all => HitlInv'
  BY PartsStep, NextMeant, StutterMeant
<1>3. HitlInv => ConsentHolds
  BY HitlMeans DEF ConsentHolds, RunsHaveConsent, SkipWithinTurn
<1> QED BY <1>1, <1>2, <1>3, PTL DEF AllSpec

\* The harness keeps what it was told and says of it what is so: the ledger, the job
\* log and the repository (ProgressTracker, JobRunner, GitSession), for any trackers,
\* tasks, plans, runners, files and sessions.
THEOREM HarnessStaysHonest == KeptAssumption /\ AllSpec => []HarnessIsHonest
<1> SUFFICES ASSUME KeptAssumption PROVE AllSpec => []HarnessIsHonest
  OBVIOUS
<1> DEFINE Inv == JobInv /\ JobCost /\ LedgerInv /\ GitInv
<1>1. Jobs!JobAssumption
  BY DEF KeptAssumption
<1>2. AllInit => Inv
  BY <1>1, InitJob, InitCost, InitLedger, InitGit DEF AllInit
<1>3. Inv /\ [AllNext]_all => Inv'
  <2> SUFFICES ASSUME Inv, [AllNext]_all PROVE Inv'
    OBVIOUS
  <2>1. [Ledger!Next]_lVars /\ [Jobs!Next]_jVars /\ [Git!Next]_gVars
    BY PartsStep
  <2>2. JobInv' /\ JobCost'
    BY <1>1, <2>1, NextJob, NextCost
  <2>3. LedgerInv' /\ GitInv'
    BY <2>1, NextLedger, NextGit
  <2> QED BY <2>2, <2>3
<1>4. Inv => HarnessIsHonest
  <2> SUFFICES ASSUME Inv PROVE HarnessIsHonest
    OBVIOUS
  <2>1. OneTurnIsRepeated /\ LogIsBounded /\ TurnFollowsLog
    BY JobMeans DEF OneTurnIsRepeated, LogIsBounded, TurnFollowsLog
  <2>2. AddedIsStored /\ PassingIsVerified
    BY LedgerMeans
  <2>3. CommitIsWhole /\ HashIsOwn /\ CheckpointIsCurrent
    BY GitMeans
  <2> QED BY <2>1, <2>2, <2>3 DEF HarnessIsHonest
<1> HIDE DEF Inv
<1> QED BY <1>2, <1>3, <1>4, PTL DEF AllSpec

\* What was granted or saved stays: grants through a restart (load_tool_allowlist), the
\* artifact of the ledger and its version (_save_progress_unlocked), the log of a job that
\* was resumed (JobRunner.resume) and the tags of checkpoints (GitSession.checkpoint).
THEOREM KeptAlwaysStays == KeptAssumption /\ AllSpec => KeptStays
<1> SUFFICES ASSUME KeptAssumption PROVE AllSpec => KeptStays
  OBVIOUS
<1> DEFINE Inv == HitlInv /\ AllowIsSaved /\ JobBack /\ LedgerInv /\ GitInv
           Grants == aBridged /\ Marks => Hitl!GrantsStay
           Saves == ~Yields /\ ~ReadsFail /\ ~WritesFail => Ledger!SaveStays
           Grows == ~Yields /\ ~ReadsFail => Ledger!VersionGrows
           Back == ~StoreFails => Jobs!BackToLog
           Tags == Alone => Git!TagsStay
<1>1. AllInit => Inv
  BY InitHitl, InitSaved, InitLedger, InitGit DEF AllInit, Jobs!Init, JobBack
<1>2. ASSUME Inv, [AllNext]_all
      PROVE  Inv' /\ Grants /\ Saves /\ Grows /\ Back /\ Tags
  <2>1. (part = "hitl" /\ Hitl!Next) \/ UNCHANGED aVars
    BY <1>2, PartsStep
  <2>2. [Ledger!Next]_lVars /\ [Jobs!Next]_jVars /\ [Git!Next]_gVars
    BY <1>2, PartsStep
  <2>3. HitlInv'
    BY <1>2, <2>1, NextMeant, StutterMeant
  <2>4. AllowIsSaved' /\ Grants
    BY <1>2, <2>1, NextSaved
  <2>5. JobBack' /\ Back
    BY <1>2, <2>2, NextBack
  <2>6. LedgerInv' /\ Saves /\ Grows
    BY <1>2, <2>2, NextLedger, SavesKeep
  <2>7. GitInv' /\ Tags
    BY <1>2, <2>2, NextGit, TagsAreKept
  <2> QED BY <2>3, <2>4, <2>5, <2>6, <2>7
<1> HIDE DEF Inv, Grants, Saves, Grows, Back, Tags
<1>3. AllSpec => [][Grants]_all /\ [][Saves]_all /\ [][Grows]_all /\ [][Back]_all /\ [][Tags]_all
  BY <1>1, <1>2, PTL DEF AllSpec
<1>4. AllSpec => /\ GrantsSurviveRestart /\ SavedIsNotLost /\ RevisionGrows
                 /\ ResumeGoesBack /\ CheckpointsStay
  BY <1>3 DEF Grants, Saves, Grows, Back, Tags, GrantsSurviveRestart, SavedIsNotLost,
              RevisionGrows, ResumeGoesBack, CheckpointsStay
<1> QED BY <1>4 DEF KeptStays
===============================================================================
