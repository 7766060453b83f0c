---------------------------- MODULE Engines_proofs ----------------------------
(***************************************************************************)
(* Proofs about the dispatcher and the engines below it, for every value   *)
(* of their constants.                                                     *)
(***************************************************************************)
EXTENDS MC_Engines, FiniteSetTheorems, SequenceTheorems, TLAPS

\* An instance counts as its module does.
LEMMA SameCount == ASSUME NEW S PROVE /\ Reflect!Cardinality(S) = Cardinality(S)
                               /\ Fan!Cardinality(S) = Cardinality(S)
                               /\ Agent!Cardinality(S) = Cardinality(S)
    BY DEF Reflect!Cardinality, Fan!Cardinality, Agent!Cardinality, Cardinality

-------------------------------------------------------------------------------
(* The dispatcher: chains of frames, what they may spend, and escalation.    *)

Step == [pattern : Pattern, task : Task, depth : Nat]
Statuses == {"handler", "escalating", "raising", "done"}
FrameT == [parent : Nat, depth : Nat, pattern : Pattern, task : Task, calls : Nat,
           history : Seq(Step), status : Statuses, due : Seq(Pattern),
           spawned : Nat, follows : BOOLEAN, charged : BOOLEAN]
PlanT == [depth : Nat, calls : Nat, escalate : BOOLEAN]

(* A frame stands under an earlier one; its history is its chain, from the *)
(* root to itself, and no pair comes twice in it.                          *)
ShapeOk(fs, pl, f) ==
    /\ fs[f].parent \in 0..(f - 1)
    /\ fs[f].follows => fs[f].parent # Turn!Root
    /\ fs[f].depth < pl.depth
    /\ Len(fs[f].history) = fs[f].depth + 1
    /\ \A i \in 1..Len(fs[f].history) : fs[f].history[i].depth = i - 1
    /\ \A i, j \in 1..Len(fs[f].history) : i # j => Turn!Key(fs[f].history[i]) # Turn!Key(fs[f].history[j])

(* A handler may still be charged with its own result.                     *)
CallsOk(fs, pl, f) ==
    pl.calls > 0 => /\ fs[f].calls <= pl.calls
                    /\ fs[f].status = "handler" => fs[f].calls < pl.calls

(* A follow-up is awaited by itself, and its parent may still be charged   *)
(* with it; a spawn is awaited by a handler.                               *)
ChildOk(fs, pl, f) ==
    LET p == fs[f].parent IN
    fs[f].status # "done" /\ p # Turn!Root =>
        IF fs[f].follows
        THEN /\ fs[p].status = "escalating"
             /\ pl.calls > 0 => fs[p].calls < pl.calls
             /\ \A g \in 1..Len(fs) : fs[g].parent = p /\ g # f => fs[g].status = "done"
        ELSE fs[p].status = "handler"

PlanInv ==
    /\ oAgent \in Agents /\ oPlan \in PlanT /\ oPlan.depth <= oAgent.depth
    /\ oFrames \in Seq(FrameT)

OrchInv ==
    /\ PlanInv
    /\ \A f \in 1..Len(oFrames) : ShapeOk(oFrames, oPlan, f) /\ CallsOk(oFrames, oPlan, f) /\ ChildOk(oFrames, oPlan, f)

(* The plan of a turn.                                                     *)
LEMMA Clamped ==
    ASSUME NEW value \in Int, NEW ceiling \in Nat
    PROVE  Turn!Clamp(value, ceiling) \in Nat /\ (ceiling > 0 => Turn!Clamp(value, ceiling) <= ceiling)
BY DEF Turn!Clamp, Turn!Positive, Turn!Least

LEMMA Limited ==
    ASSUME NEW said \in Int \cup {None}, None \notin Int, NEW derived \in Nat, NEW top \in Nat
    PROVE  Turn!Limit(said, derived, top) \in Nat /\ (top > 0 => Turn!Limit(said, derived, top) <= top)
<1> DEFINE v == IF said = None THEN derived ELSE Turn!Positive(said)
<1>1. v \in Int
    BY DEF Turn!Positive
<1>2. Turn!Limit(said, derived, top) = Turn!Clamp(v, top)
    BY DEF Turn!Limit
<1> HIDE DEF v
<1> QED
    BY <1>1, <1>2, Clamped

LEMMA Settings ==
    ASSUME Turn!LimitAssumption, oAgent \in Agents
    PROVE  /\ oAgent.depth \in Nat /\ oAgent.calls \in Nat /\ oAgent.escalation \in BOOLEAN
           /\ oAgent.complexity \subseteq 0..10 /\ oAgent.suggested \subseteq Int \cup {None}
           /\ oAgent.patterns \subseteq Pattern /\ None \notin Int
BY DEF Turn!LimitAssumption

LEMMA Planned ==
    ASSUME Turn!LimitAssumption, oAgent \in Agents, oPlan \in Turn!TurnPlans
    PROVE  oPlan \in PlanT /\ oPlan.depth <= oAgent.depth
<1>1. /\ oAgent.depth \in Nat /\ oAgent.calls \in Nat /\ oAgent.escalation \in BOOLEAN
      /\ oAgent.complexity \subseteq 0..10 /\ oAgent.suggested \subseteq Int \cup {None} /\ None \notin Int
    BY Settings
<1>2. Turn!AgentCalls \in Nat
    BY <1>1 DEF Turn!AgentCalls
<1>3. CASE oPlan = Turn!StaticPlan
    <2>1. Turn!StaticPlan \in PlanT /\ Turn!StaticPlan.depth = oAgent.depth
        BY <1>1, <1>2 DEF Turn!StaticPlan, PlanT
    <2> QED
        BY <1>1, <1>3, <2>1
<1>4. CASE oPlan # Turn!StaticPlan
    <2>1. PICK c \in oAgent.complexity, d \in oAgent.suggested, k \in oAgent.suggested : oPlan = Turn!TurnPlan(c, d, k)
        BY <1>4 DEF Turn!TurnPlans
    <2>2. c \in 0..10 /\ d \in Int \cup {None} /\ k \in Int \cup {None}
        BY <1>1, <2>1
    <2>3. Turn!Derived(c).depth \in Nat /\ Turn!Derived(c).calls \in Nat /\ Turn!Derived(c).escalate \in BOOLEAN
        BY <2>2 DEF Turn!Derived
    <2>4. CASE oAgent.depth = 0
        BY <1>1, <2>1, <2>4 DEF Turn!TurnPlan, PlanT
    <2>5. CASE oAgent.depth # 0
        <3> DEFINE dd == Turn!Limit(d, Turn!Derived(c).depth, oAgent.depth)
                   kk == Turn!Limit(k, Turn!Derived(c).calls, Turn!AgentCalls)
                   ee == oAgent.escalation /\ Turn!Derived(c).escalate /\ dd > 0
        <3>1. oPlan = [depth |-> dd, calls |-> kk, escalate |-> ee]
            BY <2>1, <2>5 DEF Turn!TurnPlan
        <3>2. dd \in Nat /\ dd <= oAgent.depth
            <4>1. dd \in Nat /\ (oAgent.depth > 0 => dd <= oAgent.depth)
                <5>1. d \in Int \cup {None} /\ None \notin Int /\ Turn!Derived(c).depth \in Nat /\ oAgent.depth \in Nat
                    BY <1>1, <2>2, <2>3
                <5> HIDE DEF kk, ee
                <5> QED
                    BY <5>1, Limited
            <4> QED
                BY <1>1, <2>5, <4>1
        <3>3. kk \in Nat
            BY <1>1, <1>2, <2>2, <2>3, Limited
        <3>4. ee \in BOOLEAN
            OBVIOUS
        <3> HIDE DEF dd, kk, ee
        <3> QED
            BY <3>1, <3>2, <3>3, <3>4 DEF PlanT
    <2> QED
        BY <2>4, <2>5
<1> QED
    BY <1>3, <1>4

(* Fields of a frame that was changed.                                     *)
LEMMA SetStatus ==
    ASSUME NEW r \in FrameT, NEW x \in Statuses, NEW q, q = [r EXCEPT !.status = x]
    PROVE  /\ q \in FrameT /\ q.status = x /\ q.calls = r.calls
           /\ q.parent = r.parent /\ q.follows = r.follows /\ q.depth = r.depth /\ q.history = r.history
BY DEF FrameT

LEMMA SetSpawned ==
    ASSUME NEW r \in FrameT, NEW n \in Nat, NEW q, q = [r EXCEPT !.spawned = n]
    PROVE  /\ q \in FrameT /\ q.status = r.status /\ q.calls = r.calls
           /\ q.parent = r.parent /\ q.follows = r.follows /\ q.depth = r.depth /\ q.history = r.history
BY DEF FrameT

LEMMA SetDue ==
    ASSUME NEW r \in FrameT, NEW d \in Seq(Pattern), NEW q, q = [r EXCEPT !.due = d]
    PROVE  /\ q \in FrameT /\ q.status = r.status /\ q.calls = r.calls
           /\ q.parent = r.parent /\ q.follows = r.follows /\ q.depth = r.depth /\ q.history = r.history
BY DEF FrameT

LEMMA FrameFields ==
    ASSUME NEW r \in FrameT
    PROVE  /\ r.parent \in Nat /\ r.depth \in Nat /\ r.pattern \in Pattern /\ r.task \in Task /\ r.calls \in Nat
           /\ r.history \in Seq(Step) /\ r.status \in Statuses /\ r.due \in Seq(Pattern)
           /\ r.spawned \in Nat /\ r.follows \in BOOLEAN /\ r.charged \in BOOLEAN
BY DEF FrameT

(* One frame of a list is replaced.                                        *)
LEMMA Replaced ==
    ASSUME NEW fs \in Seq(FrameT), NEW f \in 1..Len(fs), NEW q \in FrameT, NEW gs, gs = [fs EXCEPT ![f] = q]
    PROVE  /\ gs \in Seq(FrameT) /\ Len(gs) = Len(fs)
           /\ \A g \in 1..Len(fs) : gs[g] = IF g = f THEN q ELSE fs[g]
OBVIOUS

(* Frames keep their shape.                                                *)
LEMMA SameShape ==
    ASSUME NEW fs, NEW gs, NEW pl, NEW f,
           gs[f].parent = fs[f].parent, gs[f].follows = fs[f].follows,
           gs[f].depth = fs[f].depth, gs[f].history = fs[f].history, ShapeOk(fs, pl, f)
    PROVE  ShapeOk(gs, pl, f)
BY DEF ShapeOk

(* A handler ends: what it awaited is done, its parent still waits for it. *)
LEMMA HandlerMoves ==
    ASSUME NEW fs, NEW gs, NEW pl, Len(gs) = Len(fs), Len(fs) \in Nat, NEW f \in 1..Len(fs),
           \A g \in 1..Len(fs) : gs[g].parent = fs[g].parent /\ gs[g].follows = fs[g].follows,
           \A g \in 1..Len(fs) : g # f => gs[g].status = fs[g].status /\ gs[g].calls = fs[g].calls,
           \A g \in 1..Len(fs) : fs[g].parent \in 0..(g - 1),
           \A g \in 1..Len(fs) : fs[g].parent = f => fs[g].status = "done",
           fs[f].status = "handler", gs[f].status # "done",
           \A g \in 1..Len(fs) : ChildOk(fs, pl, g)
    PROVE  \A g \in 1..Len(gs) : ChildOk(gs, pl, g)
<1> SUFFICES ASSUME NEW c \in 1..Len(fs) PROVE ChildOk(gs, pl, c)
    OBVIOUS
<1> DEFINE p == fs[c].parent
<1>1. p \in 0..(c - 1) /\ gs[c].parent = p /\ gs[c].follows = fs[c].follows /\ ChildOk(fs, pl, c)
    OBVIOUS
<1> SUFFICES ASSUME gs[c].status # "done", p # Turn!Root
             PROVE  IF fs[c].follows
                    THEN /\ gs[p].status = "escalating"
                         /\ pl.calls > 0 => gs[p].calls < pl.calls
                         /\ \A h \in 1..Len(fs) : fs[h].parent = p /\ h # c => gs[h].status = "done"
                    ELSE gs[p].status = "handler"
    BY <1>1 DEF ChildOk
<1>2. fs[c].status # "done"
    OBVIOUS
<1>3. p # f /\ p \in 1..Len(fs) /\ gs[p].status = fs[p].status /\ gs[p].calls = fs[p].calls
    BY <1>1, <1>2 DEF Turn!Root
<1>4. IF fs[c].follows
      THEN /\ fs[p].status = "escalating"
           /\ pl.calls > 0 => fs[p].calls < pl.calls
           /\ \A h \in 1..Len(fs) : fs[h].parent = p /\ h # c => fs[h].status = "done"
      ELSE fs[p].status = "handler"
    BY <1>1, <1>2 DEF ChildOk
<1>5. ASSUME fs[c].follows, NEW h \in 1..Len(fs), fs[h].parent = p, h # c PROVE gs[h].status = "done"
    <2>1. fs[h].status = "done"
        BY <1>4, <1>5
    <2> QED
        BY <2>1
<1> QED
    BY <1>3, <1>4, <1>5

(* A frame ends: its parent may be charged or raise in turn, which nothing *)
(* else waits for.                                                         *)
LEMMA FrameMoves ==
    ASSUME NEW fs, NEW gs, NEW pl, Len(gs) = Len(fs), Len(fs) \in Nat, NEW f \in 1..Len(fs),
           \A g \in 1..Len(fs) : gs[g].parent = fs[g].parent /\ gs[g].follows = fs[g].follows,
           \A g \in 1..Len(fs) : g # f /\ ~(g = fs[f].parent /\ fs[f].follows)
                                   => gs[g].status = fs[g].status /\ gs[g].calls = fs[g].calls,
           \A g \in 1..Len(fs) : fs[g].parent \in 0..(g - 1),
           \A g \in 1..Len(fs) : fs[g].parent = f => fs[g].status = "done",
           fs[f].status # "done", gs[f].status = "done",
           \A g \in 1..Len(fs) : ChildOk(fs, pl, g)
    PROVE  \A g \in 1..Len(gs) : ChildOk(gs, pl, g)
<1> SUFFICES ASSUME NEW c \in 1..Len(fs) PROVE ChildOk(gs, pl, c)
    OBVIOUS
<1> DEFINE p == fs[c].parent
           up == fs[f].parent
<1>1. p \in 0..(c - 1) /\ gs[c].parent = p /\ gs[c].follows = fs[c].follows /\ ChildOk(fs, pl, c)
    OBVIOUS
<1>2. ChildOk(fs, pl, f) /\ up \in 0..(f - 1)
    OBVIOUS
<1> SUFFICES ASSUME gs[c].status # "done", p # Turn!Root
             PROVE  IF fs[c].follows
                    THEN /\ gs[p].status = "escalating"
                         /\ pl.calls > 0 => gs[p].calls < pl.calls
                         /\ \A h \in 1..Len(fs) : fs[h].parent = p /\ h # c => gs[h].status = "done"
                    ELSE gs[p].status = "handler"
    BY <1>1 DEF ChildOk
<1>3. c # f
    OBVIOUS
<1>4. p \in 1..Len(fs)
    BY <1>1 DEF Turn!Root
<1>5. fs[f].follows /\ up # Turn!Root =>
         /\ fs[up].status = "escalating"
         /\ \A h \in 1..Len(fs) : fs[h].parent = up /\ h # f => fs[h].status = "done"
    BY <1>2 DEF ChildOk
<1>6. fs[c].status # "done"
    <2>1. CASE c = up /\ fs[f].follows
        <3>1. up # Turn!Root
            BY <2>1 DEF Turn!Root
        <3> QED
            BY <1>5, <2>1, <3>1
    <2>2. CASE ~(c = up /\ fs[f].follows)
        BY <1>3, <2>2
    <2> QED
        BY <2>1, <2>2
<1>7. p # f /\ ~(p = up /\ fs[f].follows)
    <2>1. p # f
        BY <1>6
    <2>2. ASSUME p = up, fs[f].follows PROVE FALSE
        BY <1>3, <1>5, <1>6, <2>2
    <2> QED
        BY <2>1, <2>2
<1>8. gs[p].status = fs[p].status /\ gs[p].calls = fs[p].calls
    BY <1>4, <1>7
<1>9. IF fs[c].follows
      THEN /\ fs[p].status = "escalating"
           /\ pl.calls > 0 => fs[p].calls < pl.calls
           /\ \A h \in 1..Len(fs) : fs[h].parent = p /\ h # c => fs[h].status = "done"
      ELSE fs[p].status = "handler"
    BY <1>1, <1>6 DEF ChildOk
<1>10. ASSUME fs[c].follows, NEW h \in 1..Len(fs), fs[h].parent = p, h # c PROVE gs[h].status = "done"
    <2>1. fs[h].status = "done"
        BY <1>9, <1>10
    <2>2. CASE h = f
        BY <2>2
    <2>3. CASE h # f
        <3>1. ~(h = up /\ fs[f].follows)
            <4>1. ASSUME h = up, fs[f].follows PROVE FALSE
                <5>1. up # Turn!Root
                    BY <4>1 DEF Turn!Root
                <5> QED
                    BY <1>5, <2>1, <4>1, <5>1
            <4> QED
                BY <4>1
        <3> QED
            BY <2>1, <2>3, <3>1
    <2> QED
        BY <2>2, <2>3
<1> QED
    BY <1>8, <1>9, <1>10

(* What a frame hands down to a child it starts.                           *)
LEMMA HandsDown ==
    ASSUME OrchInv, NEW p \in 0..Len(oFrames)
    PROVE  /\ Turn!Depth(p) \in Nat /\ Turn!Calls(p) \in Nat /\ Turn!History(p) \in Seq(Step) /\ Len(Turn!History(p)) = Turn!Depth(p)
           /\ \A i \in 1..Len(Turn!History(p)) : Turn!History(p)[i].depth = i - 1
           /\ \A i, j \in 1..Len(Turn!History(p)) : i # j => Turn!Key(Turn!History(p)[i]) # Turn!Key(Turn!History(p)[j])
<1>1. CASE p = Turn!Root
    <2>1. Turn!Depth(p) = 0 /\ Turn!Calls(p) = 0 /\ Turn!History(p) = <<>>
        BY <1>1 DEF Turn!Depth, Turn!Calls, Turn!History
    <2>2. <<>> \in Seq(Step) /\ Len(<<>>) = 0
        OBVIOUS
    <2> QED
        BY <2>1, <2>2
<1>2. CASE p # Turn!Root
    <2>1. p \in 1..Len(oFrames) /\ oFrames[p] \in FrameT
        BY <1>2 DEF Turn!Root, OrchInv, PlanInv
    <2>2. Turn!Depth(p) = oFrames[p].depth + 1 /\ Turn!Calls(p) = oFrames[p].calls /\ Turn!History(p) = oFrames[p].history
        BY <1>2 DEF Turn!Depth, Turn!Calls, Turn!History
    <2>3. oFrames[p].depth \in Nat /\ oFrames[p].calls \in Nat /\ oFrames[p].history \in Seq(Step)
        BY <2>1, FrameFields
    <2>4. ShapeOk(oFrames, oPlan, p)
        BY <2>1 DEF OrchInv
    <2> QED
        BY <2>2, <2>3, <2>4 DEF ShapeOk
<1> QED
    BY <1>1, <1>2

LEMMA Longer ==
    ASSUME NEW h \in Seq(Step), NEW s \in Step, NEW k, k = Append(h, s)
    PROVE  /\ k \in Seq(Step) /\ Len(k) = Len(h) + 1 /\ Len(h) \in Nat
           /\ k[Len(h) + 1] = s /\ \A i \in 1..Len(h) : k[i] = h[i]
OBVIOUS

LEMMA Admits ==
    ASSUME OrchInv, oPlan.depth > 0, NEW p \in 0..Len(oFrames), NEW pat \in Pattern, NEW t \in Task, NEW b \in BOOLEAN,
           Turn!Admitted(p, pat, t), NEW q, q = Turn!Frame(p, pat, t, b)
    PROVE  /\ q \in FrameT /\ q.parent = p /\ q.follows = b /\ q.status = "handler" /\ q.calls = Turn!Calls(p)
           /\ oPlan.calls > 0 => q.calls < oPlan.calls
           /\ q.depth < oPlan.depth /\ Len(q.history) = q.depth + 1
           /\ \A i \in 1..Len(q.history) : q.history[i].depth = i - 1
           /\ \A i, j \in 1..Len(q.history) : i # j => Turn!Key(q.history[i]) # Turn!Key(q.history[j])
<1> DEFINE d == Turn!Depth(p)
           h == Turn!History(p)
           s == [pattern |-> pat, task |-> t, depth |-> d]
           k == Append(h, s)
           c == Turn!Calls(p)
<1>1. /\ d \in Nat /\ c \in Nat /\ h \in Seq(Step) /\ Len(h) = d
      /\ \A i \in 1..Len(h) : h[i].depth = i - 1
      /\ \A i, j \in 1..Len(h) : i # j => Turn!Key(h[i]) # Turn!Key(h[j])
    BY HandsDown
<1>2. s \in Step /\ s.depth = d /\ Turn!Key(s) = <<pat, t>>
    BY <1>1 DEF Step, Turn!Key
<1>3. d < oPlan.depth /\ (oPlan.calls > 0 => c < oPlan.calls)
    BY DEF Turn!Admitted, Turn!WithinBudget
<1>4. q = [parent |-> p, depth |-> d, pattern |-> pat, task |-> t, calls |-> c,
           history |-> k, status |-> "handler", due |-> <<>>, spawned |-> 0, follows |-> b, charged |-> FALSE]
    BY DEF Turn!Frame
<1>5. ~Turn!Cycle(h, d, <<pat, t>>)
    BY DEF Turn!Admitted
<1>6. ASSUME NEW i \in DOMAIN h, h[i].depth < d PROVE Turn!Key(h[i]) # <<pat, t>>
    BY <1>5, <1>6 DEF Turn!Cycle
<1> HIDE DEF d, h, s, c
<1>7. /\ k \in Seq(Step) /\ Len(k) = Len(h) + 1 /\ Len(h) \in Nat
      /\ k[Len(h) + 1] = s /\ \A i \in 1..Len(h) : k[i] = h[i]
    <2>1. k = Append(h, s)
        OBVIOUS
    <2> HIDE DEF k
    <2> QED
        BY <1>1, <1>2, <2>1, Longer
<1> HIDE DEF k
<1>8. /\ q \in FrameT /\ q.parent = p /\ q.follows = b /\ q.status = "handler" /\ q.calls = c
      /\ q.depth = d /\ q.history = k
    <2>1. <<>> \in Seq(Pattern) /\ "handler" \in Statuses /\ FALSE \in BOOLEAN /\ p \in Nat
        BY DEF Statuses
    <2> QED
        BY <1>1, <1>4, <1>7, <2>1 DEF FrameT
<1>9. ASSUME NEW i \in 1..Len(k) PROVE i \in 1..Len(h) \/ i = Len(h) + 1
    BY <1>7
<1>10. ASSUME NEW i \in 1..Len(k) PROVE k[i].depth = i - 1
    BY <1>1, <1>2, <1>7, <1>9
<1>11. ASSUME NEW i \in 1..Len(h) PROVE Turn!Key(k[i]) # <<pat, t>> /\ k[i] = h[i]
    <2>1. i \in DOMAIN h /\ h[i].depth = i - 1 /\ i - 1 < d
        BY <1>1
    <2> QED
        BY <1>6, <1>7, <2>1
<1>12. ASSUME NEW i \in 1..Len(k), NEW j \in 1..Len(k), i # j PROVE Turn!Key(k[i]) # Turn!Key(k[j])
    <2>1. CASE i \in 1..Len(h) /\ j \in 1..Len(h)
        BY <1>1, <1>7, <1>12, <2>1
    <2>2. CASE i = Len(h) + 1
        <3>1. j \in 1..Len(h)
            BY <1>9, <1>12, <2>2
        <3> QED
            BY <1>2, <1>7, <1>11, <2>2, <3>1
    <2>3. CASE j = Len(h) + 1
        <3>1. i \in 1..Len(h)
            BY <1>9, <1>12, <2>3
        <3> QED
            BY <1>2, <1>7, <1>11, <2>3, <3>1
    <2> QED
        BY <1>9, <2>1, <2>2, <2>3
<1> QED
    BY <1>1, <1>3, <1>7, <1>8, <1>10, <1>12 DEF c

LEMMA LastOr ==
    ASSUME NEW m \in Nat, NEW x \in 1..(m + 1) PROVE x \in 1..m \/ x = m + 1
OBVIOUS

LEMMA Under ==
    ASSUME NEW m \in Nat, NEW x \in 1..m, NEW y \in 0..(x - 1), y # Turn!Root PROVE y \in 1..m
BY DEF Turn!Root

(* A child is admitted: nothing that waits is disturbed.                   *)
LEMMA ChildAdds ==
    ASSUME NEW fs, NEW gs, NEW pl, Len(fs) \in Nat, Len(gs) = Len(fs) + 1,
           \A g \in 1..Len(fs) : /\ gs[g].parent = fs[g].parent /\ gs[g].follows = fs[g].follows
                                 /\ gs[g].status = fs[g].status /\ gs[g].calls = fs[g].calls,
           \A g \in 1..Len(fs) : fs[g].parent \in 0..(g - 1) /\ ChildOk(fs, pl, g),
           NEW p \in 0..Len(fs), gs[Len(fs) + 1].parent = p, gs[Len(fs) + 1].status = "handler",
           IF gs[Len(fs) + 1].follows
           THEN /\ p # Turn!Root /\ fs[p].status = "escalating"
                /\ pl.calls > 0 => fs[p].calls < pl.calls
                /\ \A g \in 1..Len(fs) : fs[g].parent = p => fs[g].status = "done"
           ELSE p = Turn!Root \/ fs[p].status = "handler"
    PROVE  \A g \in 1..Len(gs) : ChildOk(gs, pl, g)
<1> DEFINE n == Len(fs) + 1
<1>1. ASSUME NEW c \in 1..Len(fs) PROVE ChildOk(gs, pl, c)
    <2> DEFINE u == fs[c].parent
    <2>1. u \in 0..(c - 1) /\ gs[c].parent = u /\ gs[c].follows = fs[c].follows /\ ChildOk(fs, pl, c)
          /\ gs[c].status = fs[c].status
        OBVIOUS
    <2> SUFFICES ASSUME fs[c].status # "done", u # Turn!Root
                 PROVE  IF fs[c].follows
                        THEN /\ gs[u].status = "escalating"
                             /\ pl.calls > 0 => gs[u].calls < pl.calls
                             /\ \A h \in 1..Len(gs) : gs[h].parent = u /\ h # c => gs[h].status = "done"
                        ELSE gs[u].status = "handler"
        BY <2>1 DEF ChildOk
    <2>2. u \in 1..Len(fs) /\ gs[u].status = fs[u].status /\ gs[u].calls = fs[u].calls
        <3> HIDE DEF u
        <3>1. u \in 1..Len(fs)
            BY <2>1, Under
        <3> QED
            BY <3>1
    <2>3. IF fs[c].follows
          THEN /\ fs[u].status = "escalating"
               /\ pl.calls > 0 => fs[u].calls < pl.calls
               /\ \A h \in 1..Len(fs) : fs[h].parent = u /\ h # c => fs[h].status = "done"
          ELSE fs[u].status = "handler"
        BY <2>1 DEF ChildOk
    <2>4. ASSUME fs[c].follows, NEW h \in 1..Len(gs), gs[h].parent = u, h # c PROVE gs[h].status = "done"
        <3>1. CASE h \in 1..Len(fs)
            BY <2>3, <2>4, <3>1
        <3>2. CASE h = n
            <4>1. p = u
                BY <2>4, <3>2
            <4>2. fs[c].parent = p /\ fs[c].status # "done" /\ fs[p].status = "escalating"
                BY <2>3, <2>4, <4>1
            <4>3. CASE gs[n].follows
                BY <4>2, <4>3
            <4>4. CASE ~gs[n].follows
                BY <4>1, <4>2, <4>4
            <4> QED
                BY <4>3, <4>4
        <3> QED
            BY <3>1, <3>2, LastOr
    <2> QED
        BY <2>2, <2>3, <2>4
<1>2. ChildOk(gs, pl, n)
    <2> SUFFICES ASSUME p # Turn!Root
                 PROVE  IF gs[n].follows
                        THEN /\ gs[p].status = "escalating"
                             /\ pl.calls > 0 => gs[p].calls < pl.calls
                             /\ \A h \in 1..Len(gs) : gs[h].parent = p /\ h # n => gs[h].status = "done"
                        ELSE gs[p].status = "handler"
        BY DEF ChildOk
    <2>1. p \in 1..Len(fs) /\ gs[p].status = fs[p].status /\ gs[p].calls = fs[p].calls
        BY DEF Turn!Root
    <2>2. ASSUME gs[n].follows, NEW h \in 1..Len(gs), gs[h].parent = p, h # n PROVE gs[h].status = "done"
        <3>1. h \in 1..Len(fs)
            BY <2>2
        <3> QED
            BY <2>2, <3>1
    <2> QED
        BY <2>1, <2>2
<1> QED
    BY <1>1, <1>2


LEMMA Kept ==
    ASSUME OrchInv, UNCHANGED <<oAgent, oPlan>>, oFrames' \in Seq(FrameT),
           \A f \in 1..Len(oFrames') : ShapeOk(oFrames', oPlan, f) /\ CallsOk(oFrames', oPlan, f) /\ ChildOk(oFrames', oPlan, f)
    PROVE  OrchInv'
BY DEF OrchInv, PlanInv, ShapeOk, CallsOk, ChildOk

LEMMA Facts ==
    ASSUME OrchInv, NEW g \in 1..Len(oFrames)
    PROVE  /\ oFrames[g] \in FrameT /\ oFrames[g].calls \in Nat
           /\ ShapeOk(oFrames, oPlan, g) /\ CallsOk(oFrames, oPlan, g) /\ ChildOk(oFrames, oPlan, g)
           /\ oFrames[g].parent \in 0..(g - 1)
           /\ oFrames[g].follows => oFrames[g].parent # Turn!Root
BY FrameFields DEF OrchInv, PlanInv, ShapeOk

(* What the rules of escalation call for is registered.                    *)
LEMMA Followed ==
    ASSUME Turn!LimitAssumption, oAgent \in Agents, NEW pat, NEW e \in Turn!Evaluation
    PROVE  Turn!FollowUps(pat, e) \in Seq(Pattern)
<1>1. {"SWARM", "BLACKBOARD", "REFLECTION", "HYBRID_DAG"} \subseteq Pattern /\ oAgent.patterns \subseteq Pattern
    BY Settings DEF Turn!LimitAssumption
<1>2. e.suggested \in oAgent.patterns \cup {None}
    BY DEF Turn!Evaluation
<1>3. <<>> \in Seq(Pattern) /\ <<"SWARM", "BLACKBOARD">> \in Seq(Pattern) /\ <<"SWARM">> \in Seq(Pattern)
    BY <1>1
<1>4. <<"REFLECTION">> \in Seq(Pattern) /\ <<"HYBRID_DAG">> \in Seq(Pattern) /\ <<"BLACKBOARD">> \in Seq(Pattern)
    BY <1>1
<1>5. e.suggested # None => <<e.suggested>> \in Seq(Pattern)
    BY <1>1, <1>2
<1> DEFINE a == <<"SWARM", "BLACKBOARD">>
           b == <<"SWARM">>
           c == <<"REFLECTION">>
           d == <<"HYBRID_DAG">>
           h == <<"BLACKBOARD">>
           s == <<e.suggested>>
           nil == <<>>
<1>6. \/ Turn!FollowUps(pat, e) \in {a, b, c, d, h, nil}
      \/ Turn!FollowUps(pat, e) = s /\ e.suggested # None
    <2> HIDE DEF a, b, c, d, h, s, nil
    <2>1. Turn!FollowUps(pat, e) =
            CASE e.conflict /\ oAgent.aggressive /\ e.failed -> a
              [] e.conflict /\ ~(oAgent.aggressive /\ e.failed) -> b
              [] ~e.conflict /\ e.unsure -> c
              [] ~e.conflict /\ ~e.unsure /\ e.failed -> IF pat = "SUPERVISOR" THEN d ELSE c
              [] ~e.conflict /\ ~e.unsure /\ ~e.failed /\ e.incomplete -> h
              [] ~e.conflict /\ ~e.unsure /\ ~e.failed /\ ~e.incomplete /\ e.poor -> c
              [] OTHER -> IF e.suggested = None THEN nil ELSE s
        BY DEF Turn!FollowUps, a, b, c, d, h, s, nil
    <2> QED
        BY <2>1
<1> QED
    BY <1>3, <1>4, <1>5, <1>6

LEMMA Called ==
    ASSUME Turn!LimitAssumption, OrchInv, NEW f, NEW due \in Turn!Escalations(f)
    PROVE  due \in Seq(Pattern)
<1>1. oAgent \in Agents
    BY DEF OrchInv, PlanInv
<1>2. CASE due = <<>>
    BY <1>2
<1>3. CASE due # <<>>
    <2>1. PICK e \in Turn!Evaluation : due = Turn!FollowUps(oFrames[f].pattern, e)
        BY <1>3 DEF Turn!Escalations
    <2> QED
        BY <1>1, <2>1, Followed
<1> QED
    BY <1>2, <1>3

LEMMA AllIdle ==
    ASSUME OrchInv, NEW f, Turn!Idle(f), NEW g \in 1..Len(oFrames), oFrames[g].parent = f
    PROVE  oFrames[g].status = "done"
BY DEF Turn!Idle, Turn!Children, OrchInv, PlanInv

(* The handler returns, or raises.                                         *)
LEMMA HandlerKeeps ==
    ASSUME OrchInv, UNCHANGED <<oAgent, oPlan>>, NEW f \in 1..Len(oFrames),
           oFrames[f].status = "handler", Turn!Idle(f), NEW q \in FrameT, oFrames' = [oFrames EXCEPT ![f] = q],
           q.status \in {"escalating", "raising"}, q.calls \in {oFrames[f].calls, oFrames[f].calls + 1},
           q.parent = oFrames[f].parent, q.follows = oFrames[f].follows,
           q.depth = oFrames[f].depth, q.history = oFrames[f].history
    PROVE  OrchInv'
<1> DEFINE gs == oFrames'
<1>1. oFrames \in Seq(FrameT) /\ Len(oFrames) \in Nat
    BY DEF OrchInv, PlanInv
<1>2. /\ gs \in Seq(FrameT) /\ Len(gs) = Len(oFrames)
      /\ \A g \in 1..Len(oFrames) : gs[g] = IF g = f THEN q ELSE oFrames[g]
    <2> HIDE DEF gs
    <2>1. gs = [oFrames EXCEPT ![f] = q]
        BY DEF gs
    <2> QED
        BY <1>1, <2>1, Replaced
<1>3. \A g \in 1..Len(oFrames) :
        /\ gs[g].parent = oFrames[g].parent /\ gs[g].follows = oFrames[g].follows
        /\ gs[g].depth = oFrames[g].depth /\ gs[g].history = oFrames[g].history
    <2> HIDE DEF gs
    <2> QED
        BY <1>2
<1>4. /\ \A g \in 1..Len(oFrames) : g # f => gs[g] = oFrames[g]
      /\ gs[f] = q
    <2> HIDE DEF gs
    <2> QED
        BY <1>2
<1> HIDE DEF gs
<1>5. ASSUME NEW g \in 1..Len(gs) PROVE ShapeOk(gs, oPlan, g)
    BY <1>2, <1>3, Facts, SameShape
<1>6. ASSUME NEW g \in 1..Len(gs) PROVE CallsOk(gs, oPlan, g)
    <2>1. g \in 1..Len(oFrames) /\ CallsOk(oFrames, oPlan, g) /\ oFrames[g].calls \in Nat
        BY <1>2, Facts
    <2>2. oPlan.calls \in Nat
        BY DEF OrchInv, PlanInv, PlanT
    <2>3. CASE g = f
        BY <1>4, <2>1, <2>2, <2>3 DEF CallsOk
    <2>4. CASE g # f
        BY <1>4, <2>1, <2>4 DEF CallsOk
    <2> QED
        BY <2>3, <2>4
<1>7. \A g \in 1..Len(gs) : ChildOk(gs, oPlan, g)
    <2>1. \A g \in 1..Len(oFrames) : oFrames[g].parent \in 0..(g - 1) /\ ChildOk(oFrames, oPlan, g)
        BY Facts
    <2>2. \A g \in 1..Len(oFrames) : oFrames[g].parent = f => oFrames[g].status = "done"
        BY AllIdle
    <2>3. gs[f].status # "done"
        BY <1>4
    <2>4. \A g \in 1..Len(oFrames) : g # f => gs[g].status = oFrames[g].status /\ gs[g].calls = oFrames[g].calls
        BY <1>4
    <2> QED
        BY <1>1, <1>2, <1>3, <2>1, <2>2, <2>3, <2>4, HandlerMoves
<1> QED
    BY <1>2, <1>5, <1>6, <1>7, Kept DEF gs

LEMMA HandlerReturnsKeeps ==
    ASSUME Turn!LimitAssumption, OrchInv, UNCHANGED oAgent, NEW f \in 1..Len(oFrames), NEW used \in BOOLEAN, Turn!HandlerReturns(f, used)
    PROVE  OrchInv'
<1>1. PICK due \in Turn!Escalations(f) :
        oFrames' = [oFrames EXCEPT ![f].status = "escalating", ![f].due = due, ![f].charged = used,
                                 ![f].calls = IF used THEN @ + 1 ELSE @]
    BY DEF Turn!HandlerReturns
<1>2. due \in Seq(Pattern) /\ oFrames[f] \in FrameT /\ oFrames[f].calls \in Nat /\ oFrames \in Seq(FrameT)
    BY Called, Facts DEF OrchInv, PlanInv
<1> DEFINE cost == IF used THEN oFrames[f].calls + 1 ELSE oFrames[f].calls
           next == [oFrames[f] EXCEPT !.status = "escalating", !.due = due, !.charged = used, !.calls = cost]
<1>3. cost \in Nat /\ cost \in {oFrames[f].calls, oFrames[f].calls + 1}
    BY <1>2
<1>4. oFrames' = [oFrames EXCEPT ![f] = next]
    BY <1>1, <1>2
<1> HIDE DEF cost
<1>5. /\ next \in FrameT /\ next.status = "escalating" /\ next.calls = cost
      /\ next.parent = oFrames[f].parent /\ next.follows = oFrames[f].follows
      /\ next.depth = oFrames[f].depth /\ next.history = oFrames[f].history
    <2>1. next = [oFrames[f] EXCEPT !.status = "escalating", !.due = due, !.charged = used, !.calls = cost]
        OBVIOUS
    <2> HIDE DEF next
    <2> QED
        BY <1>2, <1>3, <2>1 DEF FrameT, Statuses
<1> HIDE DEF next
<1> QED
    BY <1>3, <1>4, <1>5, HandlerKeeps DEF Turn!HandlerReturns

LEMMA HandlerRaisesKeeps ==
    ASSUME OrchInv, UNCHANGED oAgent, NEW f \in 1..Len(oFrames), Turn!HandlerRaises(f)
    PROVE  OrchInv'
<1>1. oFrames[f] \in FrameT /\ oFrames \in Seq(FrameT)
    BY Facts DEF OrchInv, PlanInv
<1> DEFINE q == [oFrames[f] EXCEPT !.status = "raising"]
<1>2. oFrames' = [oFrames EXCEPT ![f] = q]
    BY <1>1 DEF Turn!HandlerRaises
<1>3. /\ q \in FrameT /\ q.status = "raising" /\ q.calls = oFrames[f].calls
      /\ q.parent = oFrames[f].parent /\ q.follows = oFrames[f].follows
      /\ q.depth = oFrames[f].depth /\ q.history = oFrames[f].history
    <2>1. q = [oFrames[f] EXCEPT !.status = "raising"] /\ "raising" \in Statuses
        BY DEF Statuses
    <2> HIDE DEF q
    <2> QED
        BY <1>1, <2>1, SetStatus
<1> HIDE DEF q
<1> QED
    BY <1>2, <1>3, HandlerKeeps DEF Turn!HandlerRaises

(* A frame ends, and whoever awaits a follow-up is told.                   *)
LEMMA EndKeeps ==
    ASSUME OrchInv, UNCHANGED <<oAgent, oPlan>>, NEW f \in 1..Len(oFrames), oFrames[f].status # "done",
           oFrames' \in Seq(FrameT), Len(oFrames') = Len(oFrames),
           \A g \in 1..Len(oFrames) :
              /\ oFrames'[g].parent = oFrames[g].parent /\ oFrames'[g].follows = oFrames[g].follows
              /\ oFrames'[g].depth = oFrames[g].depth /\ oFrames'[g].history = oFrames[g].history,
           \A g \in 1..Len(oFrames) : g # f /\ ~(g = oFrames[f].parent /\ oFrames[f].follows)
              => oFrames'[g].status = oFrames[g].status /\ oFrames'[g].calls = oFrames[g].calls,
           \A g \in 1..Len(oFrames) : g # f /\ g = oFrames[f].parent /\ oFrames[f].follows
              => /\ oFrames'[g].status \in {oFrames[g].status, "raising"}
                 /\ oFrames'[g].calls \in {oFrames[g].calls, oFrames[g].calls + 1},
           oFrames'[f].status = "done", oFrames'[f].calls = oFrames[f].calls,
           \A g \in 1..Len(oFrames) : oFrames[g].parent = f => oFrames[g].status = "done"
    PROVE  OrchInv'
<1> DEFINE gs == oFrames'
<1>1. /\ gs \in Seq(FrameT) /\ Len(gs) = Len(oFrames) /\ Len(oFrames) \in Nat
      /\ \A g \in 1..Len(oFrames) :
           /\ gs[g].parent = oFrames[g].parent /\ gs[g].follows = oFrames[g].follows
           /\ gs[g].depth = oFrames[g].depth /\ gs[g].history = oFrames[g].history
    BY DEF OrchInv, PlanInv
<1>2. \A g \in 1..Len(oFrames) : g # f /\ ~(g = oFrames[f].parent /\ oFrames[f].follows)
              => gs[g].status = oFrames[g].status /\ gs[g].calls = oFrames[g].calls
    OBVIOUS
<1>3. \A g \in 1..Len(oFrames) : g # f /\ g = oFrames[f].parent /\ oFrames[f].follows
              => gs[g].status \in {oFrames[g].status, "raising"} /\ gs[g].calls \in {oFrames[g].calls, oFrames[g].calls + 1}
    OBVIOUS
<1>4. gs[f].status = "done" /\ gs[f].calls = oFrames[f].calls
    OBVIOUS
<1> HIDE DEF gs
<1>5. ASSUME NEW g \in 1..Len(gs) PROVE ShapeOk(gs, oPlan, g)
    BY <1>1, Facts, SameShape
<1>6. ASSUME NEW g \in 1..Len(gs) PROVE CallsOk(gs, oPlan, g)
    <2>1. g \in 1..Len(oFrames) /\ CallsOk(oFrames, oPlan, g) /\ oFrames[g].calls \in Nat
        BY <1>1, Facts
    <2>2. oPlan.calls \in Nat
        BY DEF OrchInv, PlanInv, PlanT
    <2>3. CASE g = f
        BY <1>4, <2>1, <2>3 DEF CallsOk
    <2>4. CASE g # f /\ g = oFrames[f].parent /\ oFrames[f].follows
        <3>1. ChildOk(oFrames, oPlan, f) /\ oFrames[f].parent # Turn!Root
            BY Facts, <2>4
        <3>2. oFrames[g].status = "escalating" /\ (oPlan.calls > 0 => oFrames[g].calls < oPlan.calls)
            BY <2>4, <3>1 DEF ChildOk
        <3>3. gs[g].status # "handler" /\ gs[g].calls \in {oFrames[g].calls, oFrames[g].calls + 1}
            BY <1>3, <2>1, <2>4, <3>2
        <3> QED
            BY <2>1, <2>2, <3>2, <3>3 DEF CallsOk
    <2>5. CASE g # f /\ ~(g = oFrames[f].parent /\ oFrames[f].follows)
        BY <1>2, <2>1, <2>5 DEF CallsOk
    <2> QED
        BY <2>3, <2>4, <2>5
<1>7. \A g \in 1..Len(gs) : ChildOk(gs, oPlan, g)
    <2>1. \A g \in 1..Len(oFrames) : oFrames[g].parent \in 0..(g - 1) /\ ChildOk(oFrames, oPlan, g)
        BY Facts
    <2>2. \A g \in 1..Len(oFrames) : gs[g].parent = oFrames[g].parent /\ gs[g].follows = oFrames[g].follows
        BY <1>1
    <2>3. \A g \in 1..Len(oFrames) : oFrames[g].parent \in 0..(g - 1)
        BY <2>1
    <2>4. \A g \in 1..Len(oFrames) : ChildOk(oFrames, oPlan, g)
        BY <2>1
    <2>5. \A g \in 1..Len(oFrames) : oFrames[g].parent = f => oFrames[g].status = "done"
        OBVIOUS
    <2>6. oFrames[f].status # "done" /\ gs[f].status = "done" /\ Len(gs) = Len(oFrames) /\ Len(oFrames) \in Nat
        BY <1>1, <1>4
    <2> QED
        BY <1>2, <2>2, <2>3, <2>4, <2>5, <2>6, FrameMoves
<1> QED
    BY <1>1, <1>5, <1>6, <1>7, Kept DEF gs

LEMMA Mapped ==
    ASSUME NEW fs \in Seq(FrameT), NEW gs, gs = [x \in DOMAIN fs |-> gs[x]],
           \A x \in 1..Len(fs) : gs[x] \in FrameT
    PROVE  gs \in Seq(FrameT) /\ Len(gs) = Len(fs)
<1>1. DOMAIN fs = 1..Len(fs) /\ Len(fs) \in Nat
    OBVIOUS
<1>2. gs \in [1..Len(fs) -> FrameT]
    BY <1>1
<1> QED
    BY <1>1, <1>2

LEMMA CompleteKeeps ==
    ASSUME OrchInv, UNCHANGED oAgent, NEW f \in 1..Len(oFrames), Turn!Complete(f)
    PROVE  OrchInv'
<1> DEFINE gs == oFrames'
<1>1. oFrames \in Seq(FrameT) /\ DOMAIN oFrames = 1..Len(oFrames)
    BY DEF OrchInv, PlanInv
<1>2. gs = [x \in DOMAIN oFrames |-> gs[x]]
    BY DEF Turn!Complete
<1>3. ASSUME NEW g \in 1..Len(oFrames)
      PROVE  gs[g] = IF g = f THEN [oFrames[g] EXCEPT !.status = "done"]
                     ELSE IF g = oFrames[f].parent /\ oFrames[f].follows /\ oFrames[f].charged
                          THEN [oFrames[g] EXCEPT !.calls = @ + 1, !.charged = TRUE]
                          ELSE oFrames[g]
    BY <1>1 DEF Turn!Complete
<1> HIDE DEF gs
<1>4. ASSUME NEW g \in 1..Len(oFrames)
      PROVE  /\ gs[g] \in FrameT
             /\ gs[g].parent = oFrames[g].parent /\ gs[g].follows = oFrames[g].follows
             /\ gs[g].depth = oFrames[g].depth /\ gs[g].history = oFrames[g].history
             /\ g = f => gs[g].status = "done" /\ gs[g].calls = oFrames[g].calls
             /\ g # f => gs[g].status = oFrames[g].status
             /\ g # f /\ ~(g = oFrames[f].parent /\ oFrames[f].follows) => gs[g].calls = oFrames[g].calls
             /\ gs[g].calls \in {oFrames[g].calls, oFrames[g].calls + 1}
    <2>1. oFrames[g] \in FrameT /\ oFrames[g].calls \in Nat /\ "done" \in Statuses
        BY Facts DEF Statuses
    <2>2. CASE g = f
        <3>1. gs[g] = [oFrames[g] EXCEPT !.status = "done"]
            BY <1>3, <2>2
        <3> QED
            BY <2>1, <2>2, <3>1, SetStatus
    <2>3. CASE g # f /\ g = oFrames[f].parent /\ oFrames[f].follows /\ oFrames[f].charged
        <3> DEFINE n == oFrames[g].calls + 1
        <3>1. gs[g] = [oFrames[g] EXCEPT !.calls = n, !.charged = TRUE]
            BY <1>3, <2>3
        <3>2. n \in Nat
            BY <2>1
        <3> HIDE DEF n
        <3>3. /\ gs[g] \in FrameT /\ gs[g].status = oFrames[g].status /\ gs[g].calls = n
              /\ gs[g].parent = oFrames[g].parent /\ gs[g].follows = oFrames[g].follows
              /\ gs[g].depth = oFrames[g].depth /\ gs[g].history = oFrames[g].history
            BY <2>1, <3>1, <3>2 DEF FrameT
        <3> QED
            BY <2>3, <3>3 DEF n
    <2>4. CASE g # f /\ ~(g = oFrames[f].parent /\ oFrames[f].follows /\ oFrames[f].charged)
        <3>1. gs[g] = oFrames[g]
            BY <1>3, <2>4
        <3> QED
            BY <2>1, <2>4, <3>1
    <2> QED
        BY <2>2, <2>3, <2>4
<1>5. gs \in Seq(FrameT) /\ Len(gs) = Len(oFrames)
    BY <1>1, <1>2, <1>4, Mapped
<1>6. oFrames[f].status = "escalating" /\ Turn!Idle(f) /\ UNCHANGED <<oAgent, oPlan>>
    BY DEF Turn!Complete
<1>7. \A g \in 1..Len(oFrames) : oFrames[g].parent = f => oFrames[g].status = "done"
    BY <1>6, AllIdle
<1> QED
    BY <1>4, <1>5, <1>6, <1>7, EndKeeps DEF gs

LEMMA UnwindKeeps ==
    ASSUME OrchInv, UNCHANGED oAgent, NEW f \in 1..Len(oFrames), Turn!Unwind(f)
    PROVE  OrchInv'
<1> DEFINE gs == oFrames'
<1>1. oFrames \in Seq(FrameT) /\ DOMAIN oFrames = 1..Len(oFrames)
    BY DEF OrchInv, PlanInv
<1>2. gs = [x \in DOMAIN oFrames |-> gs[x]]
    BY DEF Turn!Unwind
<1>3. ASSUME NEW g \in 1..Len(oFrames)
      PROVE  gs[g] = IF g = f THEN [oFrames[g] EXCEPT !.status = "done"]
                     ELSE IF g = oFrames[f].parent /\ oFrames[f].follows
                          THEN [oFrames[g] EXCEPT !.status = "raising"]
                          ELSE oFrames[g]
    BY <1>1 DEF Turn!Unwind
<1> HIDE DEF gs
<1>4. ASSUME NEW g \in 1..Len(oFrames)
      PROVE  /\ gs[g] \in FrameT
             /\ gs[g].parent = oFrames[g].parent /\ gs[g].follows = oFrames[g].follows
             /\ gs[g].depth = oFrames[g].depth /\ gs[g].history = oFrames[g].history
             /\ g = f => gs[g].status = "done"
             /\ g # f => gs[g].status \in {oFrames[g].status, "raising"}
             /\ g # f /\ ~(g = oFrames[f].parent /\ oFrames[f].follows) => gs[g].status = oFrames[g].status
             /\ gs[g].calls = oFrames[g].calls
    <2>1. oFrames[g] \in FrameT /\ "done" \in Statuses /\ "raising" \in Statuses
        BY Facts DEF Statuses
    <2>2. CASE g = f
        <3>1. gs[g] = [oFrames[g] EXCEPT !.status = "done"]
            BY <1>3, <2>2
        <3> QED
            BY <2>1, <2>2, <3>1, SetStatus
    <2>3. CASE g # f /\ g = oFrames[f].parent /\ oFrames[f].follows
        <3>1. gs[g] = [oFrames[g] EXCEPT !.status = "raising"]
            BY <1>3, <2>3
        <3> QED
            BY <2>1, <2>3, <3>1, SetStatus
    <2>4. CASE g # f /\ ~(g = oFrames[f].parent /\ oFrames[f].follows)
        <3>1. gs[g] = oFrames[g]
            BY <1>3, <2>4
        <3> QED
            BY <2>1, <2>4, <3>1
    <2> QED
        BY <2>2, <2>3, <2>4
<1>5. gs \in Seq(FrameT) /\ Len(gs) = Len(oFrames)
    BY <1>1, <1>2, <1>4, Mapped
<1>6. oFrames[f].status = "raising" /\ UNCHANGED <<oAgent, oPlan>>
    BY DEF Turn!Unwind
<1>7. ASSUME NEW g \in 1..Len(oFrames), oFrames[g].parent = f PROVE oFrames[g].status = "done"
    <2>1. ChildOk(oFrames, oPlan, g) /\ f # Turn!Root
        BY Facts DEF Turn!Root
    <2> QED
        BY <1>6, <1>7, <2>1 DEF ChildOk
<1> QED
    BY <1>4, <1>5, <1>6, <1>7, EndKeeps DEF gs

LEMMA Appended ==
    ASSUME NEW fs \in Seq(FrameT), NEW q \in FrameT, NEW gs, gs = Append(fs, q)
    PROVE  /\ gs \in Seq(FrameT) /\ Len(gs) = Len(fs) + 1 /\ Len(fs) \in Nat
           /\ gs[Len(fs) + 1] = q /\ \A g \in 1..Len(fs) : gs[g] = fs[g]
OBVIOUS

(* A frame is admitted below p.                                            *)
LEMMA AddKeeps ==
    ASSUME OrchInv, UNCHANGED <<oAgent, oPlan>>, oPlan.depth > 0,
           NEW rest \in Seq(FrameT), Len(rest) = Len(oFrames),
           \A g \in 1..Len(oFrames) :
              /\ rest[g].parent = oFrames[g].parent /\ rest[g].follows = oFrames[g].follows
              /\ rest[g].status = oFrames[g].status /\ rest[g].calls = oFrames[g].calls
              /\ rest[g].depth = oFrames[g].depth /\ rest[g].history = oFrames[g].history,
           NEW p \in 0..Len(oFrames), NEW pat \in Pattern, NEW t \in Task, NEW b \in BOOLEAN,
           Turn!Admitted(p, pat, t), oFrames' = Append(rest, Turn!Frame(p, pat, t, b)),
           IF b THEN /\ p # Turn!Root /\ oFrames[p].status = "escalating"
                     /\ \A g \in 1..Len(oFrames) : oFrames[g].parent = p => oFrames[g].status = "done"
                ELSE p = Turn!Root \/ oFrames[p].status = "handler"
    PROVE  OrchInv'
<1> DEFINE gs == oFrames'
           child == Turn!Frame(p, pat, t, b)
           top == Len(oFrames) + 1
<1>1. /\ child \in FrameT /\ child.parent = p /\ child.follows = b /\ child.status = "handler" /\ child.calls = Turn!Calls(p)
      /\ oPlan.calls > 0 => child.calls < oPlan.calls
      /\ child.depth < oPlan.depth /\ Len(child.history) = child.depth + 1
      /\ \A i \in 1..Len(child.history) : child.history[i].depth = i - 1
      /\ \A i, j \in 1..Len(child.history) : i # j => Turn!Key(child.history[i]) # Turn!Key(child.history[j])
    BY Admits
<1>2. gs = Append(rest, child)
    OBVIOUS
<1> HIDE DEF gs, child
<1>3. /\ gs \in Seq(FrameT) /\ Len(gs) = Len(oFrames) + 1 /\ Len(oFrames) \in Nat
      /\ gs[Len(oFrames) + 1] = child /\ \A g \in 1..Len(oFrames) : gs[g] = rest[g]
    BY <1>1, <1>2, Appended
<1>4. gs[top] = child /\ Len(gs) = top /\ top \in Nat
    BY <1>3
<1>5. ASSUME NEW g \in 1..Len(gs) PROVE g \in 1..Len(oFrames) \/ g = top
    BY <1>3, LastOr
<1>6. \A g \in 1..Len(oFrames) :
        /\ gs[g].parent = oFrames[g].parent /\ gs[g].follows = oFrames[g].follows
        /\ gs[g].status = oFrames[g].status /\ gs[g].calls = oFrames[g].calls
        /\ gs[g].depth = oFrames[g].depth /\ gs[g].history = oFrames[g].history
    BY <1>3
<1>7. p \in 0..(top - 1) /\ (b => p # Turn!Root)
    BY <1>3 DEF top
<1> HIDE DEF top
<1>8. ASSUME NEW g \in 1..Len(gs) PROVE ShapeOk(gs, oPlan, g)
    <2>1. CASE g \in 1..Len(oFrames)
        BY <1>6, <2>1, Facts, SameShape
    <2>2. CASE g = top
        BY <1>1, <1>4, <1>7, <2>2 DEF ShapeOk
    <2> QED
        BY <1>5, <2>1, <2>2
<1>9. ASSUME NEW g \in 1..Len(gs) PROVE CallsOk(gs, oPlan, g)
    <2>1. CASE g \in 1..Len(oFrames)
        BY <1>6, <2>1, Facts DEF CallsOk
    <2>2. CASE g = top
        <3>1. child.calls \in Nat /\ oPlan.calls \in Nat
            BY <1>1, FrameFields DEF OrchInv, PlanInv, PlanT
        <3> QED
            BY <1>1, <1>4, <2>2, <3>1 DEF CallsOk
    <2> QED
        BY <1>5, <2>1, <2>2
<1>10. \A g \in 1..Len(gs) : ChildOk(gs, oPlan, g)
    <2>1. \A g \in 1..Len(oFrames) : oFrames[g].parent \in 0..(g - 1) /\ ChildOk(oFrames, oPlan, g)
        BY Facts
    <2>2. gs[Len(oFrames) + 1].parent = p /\ gs[Len(oFrames) + 1].status = "handler" /\ gs[Len(oFrames) + 1].follows = b
        BY <1>1, <1>3
    <2>3. ASSUME b PROVE oPlan.calls > 0 => oFrames[p].calls < oPlan.calls
        <3>1. Turn!Calls(p) = oFrames[p].calls
            BY <2>3 DEF Turn!Calls
        <3> QED
            BY <1>1, <3>1
    <2>4. IF gs[Len(oFrames) + 1].follows
          THEN /\ p # Turn!Root /\ oFrames[p].status = "escalating"
               /\ oPlan.calls > 0 => oFrames[p].calls < oPlan.calls
               /\ \A g \in 1..Len(oFrames) : oFrames[g].parent = p => oFrames[g].status = "done"
          ELSE p = Turn!Root \/ oFrames[p].status = "handler"
        BY <2>2, <2>3
    <2> QED
        BY <1>3, <1>6, <2>1, <2>2, <2>4, ChildAdds
<1> QED
    BY <1>3, <1>8, <1>9, <1>10, Kept DEF gs

LEMMA Deep ==
    ASSUME OrchInv, NEW f \in 1..Len(oFrames)
    PROVE  oPlan.depth > 0
<1>1. ShapeOk(oFrames, oPlan, f) /\ oFrames[f].depth \in Nat /\ oPlan.depth \in Nat
    BY Facts, FrameFields DEF OrchInv, PlanInv, PlanT
<1> QED
    BY <1>1 DEF ShapeOk

LEMMA FrameStarts ==
    ASSUME Turn!LimitAssumption, OrchInv, UNCHANGED oAgent, NEW pat \in Pattern, NEW t \in Task, Turn!Start(pat, t)
    PROVE  OrchInv'
<1>1. oFrames \in Seq(FrameT) /\ oFrames = <<>> /\ Len(oFrames) = 0
    BY DEF Turn!Start, OrchInv, PlanInv
<1> DEFINE child == Turn!Frame(Turn!Root, pat, t, FALSE)
<1>2. oFrames' = Append(oFrames, child)
    <2>1. oFrames' = <<child>>
        BY DEF Turn!Start
    <2> HIDE DEF child
    <2> QED
        BY <1>1, <2>1
<1>3. Turn!Root \in 0..Len(oFrames) /\ FALSE \in BOOLEAN
    BY <1>1 DEF Turn!Root
<1>4. oPlan.depth > 0 /\ Turn!Admitted(Turn!Root, pat, t) /\ UNCHANGED oPlan
    BY DEF Turn!Start
<1> QED
    BY <1>1, <1>2, <1>3, <1>4, AddKeeps

LEMMA SpawnKeeps ==
    ASSUME OrchInv, UNCHANGED oAgent, NEW f \in 1..Len(oFrames), NEW pat \in Pattern, NEW t \in Task, Turn!Spawn(f, pat, t)
    PROVE  OrchInv'
<1> DEFINE more == oFrames[f].spawned + 1
           q == [oFrames[f] EXCEPT !.spawned = more]
           rest == [oFrames EXCEPT ![f] = q]
<1>1. oFrames \in Seq(FrameT) /\ oFrames[f] \in FrameT /\ more \in Nat
    BY Facts, FrameFields DEF OrchInv, PlanInv
<1>2. oFrames' = Append(rest, Turn!Frame(f, pat, t, FALSE))
    BY <1>1 DEF Turn!Spawn
<1> HIDE DEF more
<1>3. /\ q \in FrameT /\ q.status = oFrames[f].status /\ q.calls = oFrames[f].calls
      /\ q.parent = oFrames[f].parent /\ q.follows = oFrames[f].follows
      /\ q.depth = oFrames[f].depth /\ q.history = oFrames[f].history
    BY <1>1, SetSpawned
<1> HIDE DEF q
<1>4. /\ rest \in Seq(FrameT) /\ Len(rest) = Len(oFrames)
      /\ \A g \in 1..Len(oFrames) : rest[g] = IF g = f THEN q ELSE oFrames[g]
    BY <1>1, <1>3, Replaced
<1> HIDE DEF rest
<1>5. \A g \in 1..Len(oFrames) :
              /\ rest[g].parent = oFrames[g].parent /\ rest[g].follows = oFrames[g].follows
              /\ rest[g].status = oFrames[g].status /\ rest[g].calls = oFrames[g].calls
              /\ rest[g].depth = oFrames[g].depth /\ rest[g].history = oFrames[g].history
    BY <1>3, <1>4
<1>6. f \in 0..Len(oFrames) /\ Turn!Admitted(f, pat, t) /\ oFrames[f].status = "handler" /\ UNCHANGED oPlan
    BY <1>1 DEF Turn!Spawn
<1>7. oPlan.depth > 0 /\ FALSE \in BOOLEAN
    BY Deep
<1> QED
    BY <1>2, <1>4, <1>5, <1>6, <1>7, AddKeeps

LEMMA EscalateKeeps ==
    ASSUME OrchInv, UNCHANGED oAgent, NEW f \in 1..Len(oFrames), Turn!Escalate(f)
    PROVE  OrchInv'
<1> DEFINE later == Tail(oFrames[f].due)
           pat == Head(oFrames[f].due)
           t == oFrames[f].task
           q == [oFrames[f] EXCEPT !.due = later]
           rest == [oFrames EXCEPT ![f] = q]
<1>1. oFrames \in Seq(FrameT) /\ oFrames[f] \in FrameT /\ t \in Task /\ oFrames[f].due \in Seq(Pattern)
    BY Facts, FrameFields DEF OrchInv, PlanInv
<1>2. /\ oFrames[f].due # <<>> /\ oFrames[f].status = "escalating" /\ Turn!Idle(f) /\ UNCHANGED oPlan
      /\ oFrames' = IF Turn!Admitted(f, pat, t) THEN Append(rest, Turn!Frame(f, pat, t, TRUE)) ELSE rest
    BY <1>1 DEF Turn!Escalate
<1>3. later \in Seq(Pattern) /\ pat \in Pattern
    BY <1>1, <1>2
<1> HIDE DEF later, pat, t
<1>4. /\ q \in FrameT /\ q.status = oFrames[f].status /\ q.calls = oFrames[f].calls
      /\ q.parent = oFrames[f].parent /\ q.follows = oFrames[f].follows
      /\ q.depth = oFrames[f].depth /\ q.history = oFrames[f].history
    BY <1>1, <1>3, SetDue
<1> HIDE DEF q
<1>5. /\ rest \in Seq(FrameT) /\ Len(rest) = Len(oFrames)
      /\ \A g \in 1..Len(oFrames) : rest[g] = IF g = f THEN q ELSE oFrames[g]
    BY <1>1, <1>4, Replaced
<1> HIDE DEF rest
<1>6. \A g \in 1..Len(oFrames) :
              /\ rest[g].parent = oFrames[g].parent /\ rest[g].follows = oFrames[g].follows
              /\ rest[g].status = oFrames[g].status /\ rest[g].calls = oFrames[g].calls
              /\ rest[g].depth = oFrames[g].depth /\ rest[g].history = oFrames[g].history
    BY <1>4, <1>5
<1>7. \A g \in 1..Len(oFrames) : oFrames[g].parent = f => oFrames[g].status = "done"
    BY <1>2, AllIdle
<1>8. CASE Turn!Admitted(f, pat, t)
    <2>1. oFrames' = Append(rest, Turn!Frame(f, pat, t, TRUE))
        BY <1>2, <1>8
    <2>2. f \in 0..Len(oFrames) /\ f # Turn!Root /\ oPlan.depth > 0 /\ TRUE \in BOOLEAN
        BY <1>1, Deep DEF Turn!Root
    <2> QED
        BY <1>1, <1>2, <1>3, <1>5, <1>6, <1>7, <1>8, <2>1, <2>2, AddKeeps
<1>9. CASE ~Turn!Admitted(f, pat, t)
    <2>1. oFrames' = rest
        BY <1>2, <1>9
    <2>2. ASSUME NEW g \in 1..Len(rest)
          PROVE  ShapeOk(rest, oPlan, g) /\ CallsOk(rest, oPlan, g) /\ ChildOk(rest, oPlan, g)
        <3>1. ShapeOk(rest, oPlan, g)
            BY <1>5, <1>6, Facts, SameShape
        <3>2. CallsOk(rest, oPlan, g)
            BY <1>5, <1>6, Facts DEF CallsOk
        <3>3. ChildOk(rest, oPlan, g)
            <4>1. ChildOk(oFrames, oPlan, g) /\ oFrames[g].parent \in 0..(g - 1) /\ g \in 1..Len(oFrames)
                BY <1>5, Facts
            <4>2. rest[g].parent = oFrames[g].parent /\ rest[g].follows = oFrames[g].follows /\ rest[g].status = oFrames[g].status
                BY <1>6, <4>1
            <4>3. CASE oFrames[g].parent = Turn!Root
                BY <4>2, <4>3 DEF ChildOk
            <4>4. CASE oFrames[g].parent # Turn!Root
                <5>1. oFrames[g].parent \in 1..Len(oFrames)
                    BY <1>1, <4>1, <4>4 DEF Turn!Root
                <5>2. rest[oFrames[g].parent].status = oFrames[oFrames[g].parent].status
                      /\ rest[oFrames[g].parent].calls = oFrames[oFrames[g].parent].calls
                    BY <1>6, <5>1
                <5> QED
                    BY <1>5, <1>6, <4>1, <4>2, <5>2 DEF ChildOk
            <4> QED
                BY <4>3, <4>4
        <3> QED
            BY <3>1, <3>2, <3>3
    <2> QED
        BY <1>2, <1>5, <2>1, <2>2, Kept
<1> QED
    BY <1>8, <1>9

LEMMA OrchStarts ==
    ASSUME Turn!LimitAssumption, Turn!Init PROVE OrchInv
<1>1. oAgent \in Agents /\ oPlan \in Turn!TurnPlans /\ oFrames = <<>>
    BY DEF Turn!Init
<1>2. oFrames \in Seq(FrameT) /\ Len(oFrames) = 0
    BY <1>1
<1>3. oPlan \in PlanT /\ oPlan.depth <= oAgent.depth
    BY <1>1, Planned
<1> QED
    BY <1>1, <1>2, <1>3 DEF OrchInv, PlanInv

LEMMA OrchStays ==
    ASSUME Turn!LimitAssumption, OrchInv, [Turn!Next]_Turn!vars PROVE OrchInv'
<1>1. CASE UNCHANGED Turn!vars
    <2>1. UNCHANGED <<oAgent, oPlan, oFrames>>
        BY <1>1 DEF Turn!vars
    <2>2. oFrames' \in Seq(FrameT)
        BY <2>1 DEF OrchInv, PlanInv
    <2>3. \A f \in 1..Len(oFrames') : ShapeOk(oFrames', oPlan, f) /\ CallsOk(oFrames', oPlan, f) /\ ChildOk(oFrames', oPlan, f)
        BY <2>1, Facts
    <2> QED
        BY <2>1, <2>2, <2>3, Kept
<1>2. CASE Turn!Next
    <2>1. oAgent' = oAgent /\ oAgent.patterns \subseteq Pattern /\ DOMAIN oFrames = 1..Len(oFrames)
        BY <1>2, Settings DEF Turn!Next, OrchInv, PlanInv
    <2>2. ASSUME NEW p \in oAgent.patterns, NEW t \in Task, Turn!Start(p, t) PROVE OrchInv'
        BY <2>1, <2>2, FrameStarts
    <2>3. ASSUME NEW p \in oAgent.patterns, NEW t \in Task, NEW f \in DOMAIN oFrames, Turn!Spawn(f, p, t) PROVE OrchInv'
        BY <2>1, <2>3, SpawnKeeps
    <2>4. ASSUME NEW f \in DOMAIN oFrames, Turn!FrameStep(f) PROVE OrchInv'
        <3>1. f \in 1..Len(oFrames)
            BY <2>1
        <3>2. ASSUME NEW used \in BOOLEAN, Turn!HandlerReturns(f, used) PROVE OrchInv'
            BY <2>1, <3>1, <3>2, HandlerReturnsKeeps
        <3>3. CASE Turn!HandlerRaises(f)
            BY <2>1, <3>1, <3>3, HandlerRaisesKeeps
        <3>4. CASE Turn!Unwind(f)
            BY <2>1, <3>1, <3>4, UnwindKeeps
        <3>5. CASE Turn!Escalate(f)
            BY <2>1, <3>1, <3>5, EscalateKeeps
        <3>6. CASE Turn!Complete(f)
            BY <2>1, <3>1, <3>6, CompleteKeeps
        <3> QED
            BY <2>4, <3>2, <3>3, <3>4, <3>5, <3>6 DEF Turn!FrameStep
    <2> QED
        BY <1>2, <2>2, <2>3, <2>4 DEF Turn!Next
<1> QED
    BY <1>1, <1>2

LEMMA OrchLimits ==
    ASSUME Turn!LimitAssumption, OrchInv
    PROVE  Turn!ChainsAreShort /\ Turn!ChainsDoNotRepeat /\ Turn!OwnBudgetHolds
<1>1. DOMAIN oFrames = 1..Len(oFrames) /\ oAgent \in Agents /\ oPlan.depth <= oAgent.depth /\ oPlan.depth \in Nat
    BY DEF OrchInv, PlanInv, PlanT
<1>2. oAgent.depth \in Nat
    BY <1>1, Settings
<1>3. ASSUME NEW f \in 1..Len(oFrames)
      PROVE  /\ Len(oFrames[f].history) <= oAgent.depth
             /\ \A i, j \in DOMAIN oFrames[f].history : i # j => Turn!Key(oFrames[f].history[i]) # Turn!Key(oFrames[f].history[j])
             /\ oPlan.calls > 0 => oFrames[f].calls <= oPlan.calls
    <2>1. ShapeOk(oFrames, oPlan, f) /\ CallsOk(oFrames, oPlan, f) /\ oFrames[f].history \in Seq(Step) /\ oFrames[f].depth \in Nat
        BY Facts, FrameFields
    <2>2. DOMAIN oFrames[f].history = 1..Len(oFrames[f].history)
        BY <2>1
    <2>3. Len(oFrames[f].history) <= oAgent.depth
        BY <1>1, <1>2, <2>1 DEF ShapeOk
    <2> QED
        BY <2>1, <2>2, <2>3 DEF ShapeOk, CallsOk
<1> QED
    BY <1>1, <1>3 DEF Turn!ChainsAreShort, Turn!ChainsDoNotRepeat, Turn!OwnBudgetHolds

\* Frames are well formed; a chain of frames is no longer than the agent allows, no pair
\* of pattern and task comes twice on it, and no frame is charged beyond the limit
\* (dispatch_pattern, spawn_pattern, escalation_spawns).
THEOREM OrchHolds ==
    Turn!LimitAssumption /\ Turn!Spec => [](Turn!TypeOK /\ Turn!ChainsAreShort /\ Turn!ChainsDoNotRepeat /\ Turn!OwnBudgetHolds)
<1> SUFFICES ASSUME Turn!LimitAssumption PROVE Turn!Spec => [](Turn!TypeOK /\ Turn!ChainsAreShort /\ Turn!ChainsDoNotRepeat /\ Turn!OwnBudgetHolds)
    OBVIOUS
<1>1. Turn!Init => OrchInv
    BY OrchStarts
<1>2. OrchInv /\ [Turn!Next]_Turn!vars => OrchInv'
    BY OrchStays
<1>3. OrchInv => Turn!TypeOK
    BY DEF OrchInv, PlanInv, Turn!TypeOK, PlanT, FrameT, Step, Statuses
<1>4. OrchInv => Turn!ChainsAreShort /\ Turn!ChainsDoNotRepeat /\ Turn!OwnBudgetHolds
    BY OrchLimits
<1> QED
    BY <1>1, <1>2, <1>3, <1>4, PTL DEF Turn!Spec

-------------------------------------------------------------------------------
(* Workers in parallel: supervisor and swarm.                                *)

Signals == {"none", "ok", "failed", "halted"}
Errors == {"none", "planning", "AllPatternWorkersFailed", "SynthesisTimeout", "SynthesisFailed"}
Outcome == [success : BOOLEAN, usage : SUBSET Fan!Runs, error : Errors]

FanState == Fan!TypeOK /\ fSetup \in FanSetups

(* What the engine knows in which phase.                                   *)
PhasesInv ==
    /\ fPc # "run" => fLive = {}
    /\ fPc \notin {"plan", "done"} => fPlans # {}
    /\ fPc \in {"plan", "announce", "gate"} => fSpent = {} /\ fUsage = {} /\ fSkipped = {}
    /\ fPc = "recover" => fSetup.mode = "supervisor"
    /\ fPc = "resolve" => fSetup.mode = "swarm"
    /\ fPc = "synthesize" => Fan!Rows # {}

(* Where a worker's row is: none before it ran, one for each that ran, and *)
(* "halted" for the workers a swarm skipped.                               *)
RowInv(w) ==
    /\ fRow[w] # "none" => w \in fPlans
    /\ w \in fLive => fRow[w] = "none" /\ w \notin fSkipped
    /\ fPc \in {"plan", "announce", "gate"} => fRow[w] = "none"
    /\ fPc \notin {"plan", "announce", "gate"} /\ w \in fPlans /\ w \notin fSkipped
         => w \in fLive \/ fRow[w] # "none"
    /\ w \in fSkipped => fRow[w] \in {"none", "halted"}
    /\ w \in fSkipped /\ (fSetup.mode = "supervisor" \/ fPc = "run") => fRow[w] = "none"
    /\ w \in fSkipped /\ fSetup.mode = "swarm" /\ fPc \notin {"gate", "run"} => fRow[w] = "halted"

(* What the event stream says of a worker.                                 *)
WireInv(w) ==
    /\ fPc \in {"plan", "announce"} => fWire[w] = "none"
    /\ fPc \in {"gate", "run"} => fWire[w] = IF w \in fPlans THEN "started" ELSE "none"
    /\ fPc \in {"recover", "resolve", "synthesize", "done"} =>
         /\ fWire[w] = "started" => w \in fPlans /\ (Fan!NoRecovery => fRow[w] = "none")
         /\ Fan!NoRecovery => fWire[w] \in {"none", "started", fRow[w]}

(* Which runs were paid for, and which the result counts.                  *)
SpentInv ==
    /\ fPc \in {"gate", "run", "recover", "resolve"} => \A u \in fSpent : u[1] \in Fan!Rows
    /\ fPc \in {"recover", "resolve"} => fUsage = fSpent
    /\ fPc = "synthesize" /\ Fan!NoRecovery => fUsage = fSpent
    /\ fPc = "done" /\ Fan!NoRecovery => fResult.usage = fSpent

OutcomeInv ==
    /\ Fan!SuccessIsEarned
    /\ Fan!DeclineIsSuccess
    /\ fPc = "done" /\ fPlans = {} => \A w \in FanWorkers : fRow[w] = "none" /\ fWire[w] = "none"

FanInv ==
    /\ FanState /\ PhasesInv /\ SpentInv /\ OutcomeInv
    /\ \A w \in FanWorkers : RowInv(w) /\ WireInv(w)

(* Rows and results.                                                       *)
LEMMA WithAt ==
    ASSUME NEW ws, NEW r \in Signals, fRow \in [FanWorkers -> Signals]
    PROVE  /\ Fan!With(ws, r) \in [FanWorkers -> Signals]
           /\ \A w \in FanWorkers : Fan!With(ws, r)[w] = IF w \in ws THEN r ELSE fRow[w]
BY DEF Fan!With, Signals

LEMMA Returned ==
    ASSUME NEW s \in BOOLEAN, NEW e \in Errors, NEW u \in SUBSET Fan!Runs, Fan!Return(s, e, u)
    PROVE  fPc' = "done" /\ fResult' \in Outcome /\ fResult'.success = s /\ fResult'.usage = u
<1> DEFINE r == [success |-> s, error |-> e, usage |-> u]
<1>1. r \in Outcome /\ r.success = s /\ r.usage = u
    BY DEF Outcome
<1>2. fResult' = r /\ fPc' = "done"
    BY DEF Fan!Return
<1> QED
    BY <1>1, <1>2

LEMMA FanFacts ==
    ASSUME FanInv
    PROVE  /\ fPlans \subseteq FanWorkers /\ fLive \subseteq fPlans /\ fSkipped \subseteq fPlans
           /\ fSkipped \subseteq fSetup.gated
           /\ fRow \in [FanWorkers -> Signals] /\ fWire \in [FanWorkers -> {"none", "started", "ok", "failed", "halted"}]
           /\ fUsage \subseteq fSpent /\ fSpent \subseteq Fan!Runs /\ fResult \in Outcome
           /\ fPc \in {"plan", "announce", "gate", "run", "recover", "resolve", "synthesize", "done"}
           /\ fQueued \in BOOLEAN /\ fSent \in BOOLEAN /\ fSetup \in FanSetups
BY DEF FanInv, FanState, Fan!TypeOK, Outcome, Signals, Errors

LEMMA FanTyped ==
    ASSUME fPlans \subseteq FanWorkers, fLive \subseteq fPlans, fSkipped \subseteq fPlans, fSkipped \subseteq fSetup.gated,
           fRow \in [FanWorkers -> Signals], fWire \in [FanWorkers -> {"none", "started", "ok", "failed", "halted"}],
           fUsage \subseteq fSpent, fSpent \subseteq Fan!Runs, fResult \in Outcome,
           fPc \in {"plan", "announce", "gate", "run", "recover", "resolve", "synthesize", "done"},
           fQueued \in BOOLEAN, fSent \in BOOLEAN, fSetup \in FanSetups
    PROVE  FanState
BY DEF FanState, Fan!TypeOK, Outcome, Signals, Errors

(* The set-up decides what can happen, and stays.                          *)
LEMMA SameSetup ==
    ASSUME fSetup' = fSetup
    PROVE  Fan!NoRecovery' = Fan!NoRecovery /\ Fan!Dispatching' = Fan!Dispatching
BY DEF Fan!NoRecovery, Fan!Dispatching

LEMMA KeepsPlan ==
    ASSUME FanInv, Fan!FanOutAssumption, fSetup' = fSetup, Fan!Plan
    PROVE  FanInv'
<1>1. /\ fPc = "plan" /\ fLive' = fLive /\ fRow' = fRow /\ fSkipped' = fSkipped /\ fWire' = fWire
      /\ fQueued' = fQueued /\ fUsage' = fUsage /\ fSpent' = fSpent /\ fSent' = fSent
      /\ fLive = {} /\ fSpent = {} /\ fUsage = {} /\ fSkipped = {}
    BY DEF Fan!Plan, FanInv, PhasesInv
<1>2. fPlans' \subseteq FanWorkers
    BY DEF Fan!Plan, Fan!FanOutAssumption
<1>3. \/ fPlans' = {} /\ Fan!Return(FALSE, "planning", {})
      \/ fPlans' # {} /\ fPc' = "announce" /\ fResult' = fResult
    BY DEF Fan!Plan
<1>4. \A w \in FanWorkers : fRow[w] = "none" /\ fWire[w] = "none"
    BY <1>1 DEF FanInv, RowInv, WireInv
<1>5. CASE fPlans' = {} /\ Fan!Return(FALSE, "planning", {})
    <2>1. "planning" \in Errors /\ {} \in SUBSET Fan!Runs
        BY DEF Errors
    <2>2. fPc' = "done" /\ fResult' \in Outcome /\ fResult'.success = FALSE /\ fResult'.usage = {}
        BY <1>5, <2>1, Returned
    <2>3. FanState'
        BY <1>1, <1>2, <2>2, FanFacts, FanTyped DEF FanState, Fan!TypeOK, Outcome, Signals, Errors
    <2>4. PhasesInv' /\ SpentInv'
        BY <1>1, <2>2 DEF PhasesInv, SpentInv
    <2>5. OutcomeInv'
        BY <1>1, <1>4, <1>5, <2>2 DEF OutcomeInv, Fan!SuccessIsEarned, Fan!DeclineIsSuccess
    <2>6. \A w \in FanWorkers : RowInv(w)' /\ WireInv(w)'
        BY <1>1, <1>4, <1>5, <2>2 DEF RowInv, WireInv
    <2> QED
        BY <2>3, <2>4, <2>5, <2>6 DEF FanInv
<1>6. CASE fPlans' # {} /\ fPc' = "announce" /\ fResult' = fResult
    <2>3. FanState'
        BY <1>1, <1>2, <1>6, FanFacts DEF FanState, Fan!TypeOK, Outcome, Signals, Errors
    <2>4. PhasesInv' /\ SpentInv' /\ OutcomeInv'
        BY <1>1, <1>6 DEF PhasesInv, SpentInv, OutcomeInv, Fan!SuccessIsEarned, Fan!DeclineIsSuccess
    <2>6. \A w \in FanWorkers : RowInv(w)' /\ WireInv(w)'
        BY <1>1, <1>4, <1>6 DEF RowInv, WireInv
    <2> QED
        BY <2>3, <2>4, <2>6 DEF FanInv
<1> QED
    BY <1>3, <1>5, <1>6

LEMMA KeepsAnnounce ==
    ASSUME FanInv, fSetup' = fSetup, Fan!Announce
    PROVE  FanInv'
<1>1. /\ fPc = "announce" /\ fPc' = "gate" /\ fPlans' = fPlans /\ fLive' = fLive /\ fRow' = fRow /\ fSkipped' = fSkipped
      /\ fQueued' = fQueued /\ fUsage' = fUsage /\ fResult' = fResult /\ fSpent' = fSpent /\ fSent' = fSent
      /\ fLive = {} /\ fSpent = {} /\ fUsage = {} /\ fSkipped = {} /\ fPlans # {}
    BY DEF Fan!Announce, FanInv, PhasesInv
<1>2. /\ fWire' \in [FanWorkers -> {"none", "started", "ok", "failed", "halted"}]
      /\ \A w \in FanWorkers : fWire'[w] = IF w \in fPlans THEN "started" ELSE fWire[w]
    BY FanFacts DEF Fan!Announce
<1>3. \A w \in FanWorkers : fRow[w] = "none" /\ fWire[w] = "none"
    BY <1>1 DEF FanInv, RowInv, WireInv
<1>4. FanState'
    BY <1>1, <1>2, FanFacts DEF FanState, Fan!TypeOK, Outcome, Signals, Errors
<1>5. PhasesInv' /\ SpentInv' /\ OutcomeInv'
    BY <1>1 DEF PhasesInv, SpentInv, OutcomeInv, Fan!SuccessIsEarned, Fan!DeclineIsSuccess
<1>6. \A w \in FanWorkers : RowInv(w)' /\ WireInv(w)'
    BY <1>1, <1>2, <1>3 DEF RowInv, WireInv
<1> QED
    BY <1>4, <1>5, <1>6 DEF FanInv

LEMMA KeepsGate ==
    ASSUME FanInv, fSetup' = fSetup, Fan!Gate
    PROVE  FanInv'
<1>1. /\ fPc = "gate" /\ fPc' = "run" /\ fPlans' = fPlans /\ fRow' = fRow /\ fWire' = fWire
      /\ fQueued' = fQueued /\ fUsage' = fUsage /\ fResult' = fResult /\ fSpent' = fSpent /\ fSent' = fSent
      /\ fSpent = {} /\ fUsage = {} /\ fPlans # {}
    BY DEF Fan!Gate, FanInv, PhasesInv
<1>2. fSkipped' \subseteq fPlans /\ fSkipped' \subseteq fSetup.gated /\ fLive' = fPlans \ fSkipped'
    BY DEF Fan!Gate
<1>3. \A w \in FanWorkers : fRow[w] = "none" /\ fWire[w] = IF w \in fPlans THEN "started" ELSE "none"
    BY <1>1 DEF FanInv, RowInv, WireInv
<1>4. FanState'
    BY <1>1, <1>2, FanFacts DEF FanState, Fan!TypeOK, Outcome, Signals, Errors
<1>5. PhasesInv' /\ SpentInv' /\ OutcomeInv'
    BY <1>1 DEF PhasesInv, SpentInv, OutcomeInv, Fan!SuccessIsEarned, Fan!DeclineIsSuccess
<1>6. \A w \in FanWorkers : RowInv(w)' /\ WireInv(w)'
    BY <1>1, <1>2, <1>3 DEF RowInv, WireInv
<1> QED
    BY <1>4, <1>5, <1>6 DEF FanInv

(* Workers leave the batch, by themselves or with a halt.                  *)
LEMMA KeepsLeaving ==
    ASSUME FanInv, fSetup' = fSetup, NEW ws \in SUBSET fLive, ws # {}, NEW r \in {"ok", "failed", "halted"},
           fLive' = fLive \ ws, fRow' = Fan!With(ws, r), NEW x \in SUBSET (ws \X {"run"}), fSpent' = fSpent \cup x,
           fPc' = fPc, fPlans' = fPlans, fSkipped' = fSkipped, fWire' = fWire, fUsage' = fUsage, fResult' = fResult,
           fQueued' \in BOOLEAN, fSent' = fSent
    PROVE  FanInv'
<1>1. fPc = "run" /\ fPc' = "run" /\ fPlans # {}
    BY DEF FanInv, PhasesInv
<1>2. r \in Signals
    BY DEF Signals
<1>3. /\ fRow' \in [FanWorkers -> Signals]
      /\ \A w \in FanWorkers : fRow'[w] = IF w \in ws THEN r ELSE fRow[w]
    BY <1>2, FanFacts, WithAt
<1>4. fLive \subseteq fPlans /\ fPlans \subseteq FanWorkers /\ fUsage \subseteq fSpent
    BY FanFacts
<1>5. x \subseteq Fan!Runs /\ \A u \in x : u[1] \in ws
    BY <1>4 DEF Fan!Runs
<1>6. FanState'
    BY <1>1, <1>3, <1>4, <1>5, FanFacts DEF FanState, Fan!TypeOK, Outcome, Signals, Errors
<1>7. Fan!Rows' = Fan!Rows \cup ws
    BY <1>3, <1>4 DEF Fan!Rows
<1>8. SpentInv'
    <2>1. \A u \in fSpent : u[1] \in Fan!Rows
        BY <1>1 DEF FanInv, SpentInv
    <2> QED
        BY <1>1, <1>5, <1>7, <2>1 DEF SpentInv
<1>9. PhasesInv' /\ OutcomeInv'
    BY <1>1 DEF PhasesInv, OutcomeInv, Fan!SuccessIsEarned, Fan!DeclineIsSuccess
<1>10. ASSUME NEW w \in FanWorkers PROVE RowInv(w)'
    <2>1. RowInv(w)
        BY DEF FanInv
    <2>2. CASE w \in ws
        BY <1>1, <1>3, <1>4, <2>1, <2>2 DEF RowInv
    <2>3. CASE w \notin ws
        BY <1>1, <1>3, <1>4, <2>1, <2>3 DEF RowInv
    <2> QED
        BY <2>2, <2>3
<1>11. ASSUME NEW w \in FanWorkers PROVE WireInv(w)'
    BY <1>1 DEF FanInv, WireInv
<1> QED
    BY <1>6, <1>8, <1>9, <1>10, <1>11 DEF FanInv

LEMMA KeepsEnd ==
    ASSUME FanInv, fSetup' = fSetup, NEW w \in FanWorkers, NEW r \in {"ok", "failed"}, Fan!End(w, r)
    PROVE  FanInv'
<1>1. {w} \in SUBSET fLive /\ {w} # {} /\ {<<w, "run">>} \in SUBSET ({w} \X {"run"}) /\ fQueued' \in BOOLEAN
    BY FanFacts DEF Fan!End
<1> QED
    BY <1>1, KeepsLeaving DEF Fan!End

LEMMA KeepsHaltBatch ==
    ASSUME FanInv, fSetup' = fSetup, Fan!HaltBatch
    PROVE  FanInv'
<1>1. PICK ws \in SUBSET fLive : ws # {} /\ fLive' = fLive \ ws /\ fRow' = Fan!With(ws, "halted")
    BY DEF Fan!HaltBatch
<1>2. fSpent' = fSpent \cup {} /\ {} \in SUBSET (ws \X {"run"}) /\ fQueued' \in BOOLEAN
    BY DEF Fan!HaltBatch
<1> QED
    BY <1>1, <1>2, KeepsLeaving DEF Fan!HaltBatch

LEMMA KeepsCollect ==
    ASSUME FanInv, Fan!FanOutAssumption, fSetup' = fSetup, Fan!Collect
    PROVE  FanInv'
<1>1. /\ fPc = "run" /\ fLive = {} /\ fLive' = {} /\ fPlans' = fPlans /\ fSkipped' = fSkipped /\ fQueued' = fQueued
      /\ fResult' = fResult /\ fSpent' = fSpent /\ fSent' = fSent /\ fPlans # {}
    BY DEF Fan!Collect, FanInv, PhasesInv
<1>2. fSetup.mode \in {"supervisor", "swarm"}
    BY FanFacts DEF Fan!FanOutAssumption
<1>3. fUsage' = fSpent
    <2>1. \A u \in fSpent : u[1] \in Fan!Rows
        BY <1>1 DEF FanInv, SpentInv
    <2> QED
        BY <2>1 DEF Fan!Collect
<1>4. /\ fRow' \in [FanWorkers -> Signals]
      /\ \A w \in FanWorkers : fRow'[w] = IF fSetup.mode = "swarm" /\ w \in fSkipped THEN "halted" ELSE fRow[w]
    <2>1. "halted" \in Signals /\ fRow \in [FanWorkers -> Signals]
        BY FanFacts DEF Signals
    <2>2. CASE fSetup.mode = "swarm"
        <3>1. fRow' = Fan!With(fSkipped, "halted")
            BY <2>2 DEF Fan!Collect
        <3> QED
            BY <2>1, <2>2, <3>1, WithAt
    <2>3. CASE fSetup.mode # "swarm"
        BY <2>1, <2>3 DEF Fan!Collect
    <2> QED
        BY <2>2, <2>3
<1>5. /\ fWire' \in [FanWorkers -> {"none", "started", "ok", "failed", "halted"}]
      /\ \A w \in FanWorkers : fWire'[w] = IF fRow'[w] # "none" THEN fRow'[w] ELSE fWire[w]
    <2>1. fWire' = [w \in FanWorkers |-> IF fRow'[w] # "none" THEN fRow'[w] ELSE fWire[w]]
        BY DEF Fan!Collect
    <2>2. fWire \in [FanWorkers -> {"none", "started", "ok", "failed", "halted"}]
        BY FanFacts
    <2> QED
        BY <1>4, <2>1, <2>2 DEF Signals
<1>6. fPc' = (IF fSetup.mode = "swarm" THEN "resolve" ELSE "recover")
    BY DEF Fan!Collect
<1>7. FanState'
    BY <1>1, <1>3, <1>4, <1>5, <1>6, FanFacts DEF FanState, Fan!TypeOK, Outcome, Signals, Errors
<1>8. PhasesInv' /\ OutcomeInv'
    BY <1>1, <1>2, <1>6 DEF PhasesInv, OutcomeInv, Fan!SuccessIsEarned, Fan!DeclineIsSuccess
<1>9. Fan!Rows \subseteq Fan!Rows'
    BY <1>4 DEF Fan!Rows
<1>10. SpentInv'
    <2>1. \A u \in fSpent : u[1] \in Fan!Rows
        BY <1>1 DEF FanInv, SpentInv
    <2> QED
        BY <1>1, <1>3, <1>6, <1>9, <2>1 DEF SpentInv
<1>11. ASSUME NEW w \in FanWorkers PROVE RowInv(w)' /\ WireInv(w)'
    <2>1. RowInv(w) /\ WireInv(w) /\ fRow[w] \in Signals
        BY FanFacts DEF FanInv
    <2>2. fSkipped \subseteq fPlans
        BY FanFacts
    <2>3. fRow'[w] = IF fSetup.mode = "swarm" /\ w \in fSkipped THEN "halted" ELSE fRow[w]
        BY <1>4
    <2>4. fWire'[w] = IF fRow'[w] # "none" THEN fRow'[w] ELSE fWire[w]
        BY <1>5
    <2>5. RowInv(w)'
        BY <1>1, <1>2, <1>6, <2>1, <2>2, <2>3 DEF RowInv
    <2>6. WireInv(w)'
        BY <1>1, <1>2, <1>6, <2>1, <2>2, <2>3, <2>4 DEF WireInv, RowInv, Signals
    <2> QED
        BY <2>5, <2>6
<1> QED
    BY <1>7, <1>8, <1>10, <1>11 DEF FanInv

LEMMA KeepsRecover ==
    ASSUME FanInv, fSetup' = fSetup, Fan!Recover
    PROVE  FanInv'
<1>1. /\ fPc = "recover" /\ fSetup.mode = "supervisor" /\ fLive = {} /\ fLive' = {} /\ fPlans' = fPlans
      /\ fSkipped' = fSkipped /\ fWire' = fWire /\ fQueued' = fQueued /\ fUsage' = fUsage /\ fSent' = fSent
      /\ fPlans # {} /\ fUsage = fSpent
    BY DEF Fan!Recover, FanInv, PhasesInv, SpentInv
<1>2. PICK tried \in SUBSET Fan!Rows, saved \in SUBSET Fan!Rows :
         /\ saved \subseteq tried /\ (~fSetup.spawns => tried = {})
         /\ fRow' = Fan!With(saved, "ok") /\ fSpent' = fSpent \cup (tried \X {"recovery"})
    BY DEF Fan!Recover
<1>3. /\ fRow' \in [FanWorkers -> Signals]
      /\ \A w \in FanWorkers : fRow'[w] = IF w \in saved THEN "ok" ELSE fRow[w]
    <2>1. "ok" \in Signals /\ fRow \in [FanWorkers -> Signals]
        BY FanFacts DEF Signals
    <2> QED
        BY <1>2, <2>1, WithAt
<1>4. tried \subseteq FanWorkers /\ tried \X {"recovery"} \subseteq Fan!Runs
    BY <1>2 DEF Fan!Rows, Fan!Runs
<1>5. Fan!NoRecovery => fSpent' = fSpent
    BY <1>1, <1>2 DEF Fan!NoRecovery
<1>6. ASSUME NEW w \in FanWorkers PROVE w \in fSkipped => fRow[w] = "none" /\ fRow'[w] = "none"
    <2>1. w \in fSkipped => fRow[w] = "none"
        BY <1>1 DEF FanInv, RowInv
    <2> QED
        BY <1>2, <1>3, <2>1 DEF Fan!Rows
<1>7. ASSUME NEW w \in FanWorkers, fPc' \in {"synthesize", "done"} PROVE RowInv(w)' /\ WireInv(w)'
    <2>1. RowInv(w) /\ WireInv(w)
        BY DEF FanInv
    <2>2. fRow'[w] # "none" <=> fRow[w] # "none"
        BY <1>2, <1>3 DEF Fan!Rows
    <2>3. Fan!NoRecovery => fRow'[w] = fRow[w]
        BY <1>1, <1>2, <1>3 DEF Fan!NoRecovery
    <2>4. RowInv(w)'
        BY <1>1, <1>6, <1>7, <2>1, <2>2 DEF RowInv
    <2>5. WireInv(w)'
        <3>1. Fan!NoRecovery' = Fan!NoRecovery
            BY SameSetup
        <3> QED
            BY <1>1, <1>7, <2>1, <2>2, <2>3, <3>1 DEF WireInv
    <2> QED
        BY <2>4, <2>5
<1>8. CASE Fan!Rows = {} /\ Fan!Return(TRUE, "none", {})
    <2>1. "none" \in Errors /\ {} \in SUBSET Fan!Runs
        BY DEF Errors
    <2>2. fPc' = "done" /\ fResult' \in Outcome /\ fResult'.success = TRUE /\ fResult'.usage = {}
        BY <1>8, <2>1, Returned
    <2>3. tried = {} /\ fSpent' = fSpent /\ fSpent = {}
        <3>1. \A u \in fSpent : u[1] \in Fan!Rows
            BY <1>1 DEF FanInv, SpentInv
        <3> QED
            BY <1>2, <1>8, <3>1
    <2>4. FanState'
        BY <1>1, <1>3, <2>2, <2>3, FanFacts DEF FanState, Fan!TypeOK, Outcome, Signals, Errors
    <2>5. PhasesInv' /\ SpentInv'
        BY <1>1, <2>2, <2>3 DEF PhasesInv, SpentInv
    <2>6. fSkipped = fPlans
        <3>1. ASSUME NEW w \in fPlans PROVE w \in fSkipped
            <4>1. w \in FanWorkers /\ RowInv(w) /\ fRow[w] = "none"
                BY <1>8, FanFacts DEF FanInv, Fan!Rows
            <4> QED
                BY <1>1, <4>1 DEF RowInv
        <3> QED
            BY <3>1, FanFacts
    <2>7. OutcomeInv'
        BY <1>1, <2>2, <2>6 DEF OutcomeInv, Fan!SuccessIsEarned, Fan!DeclineIsSuccess
    <2>8. \A w \in FanWorkers : RowInv(w)' /\ WireInv(w)'
        BY <1>7, <2>2
    <2> QED
        BY <2>4, <2>5, <2>7, <2>8 DEF FanInv
<1>9. CASE Fan!Rows # {} /\ fPc' = "synthesize" /\ fResult' = fResult
    <2>4. FanState'
        BY <1>1, <1>2, <1>3, <1>4, <1>9, FanFacts DEF FanState, Fan!TypeOK, Outcome, Signals, Errors
    <2>5. Fan!Rows' = Fan!Rows
        BY <1>2, <1>3 DEF Fan!Rows
    <2>6. PhasesInv'
        BY <1>1, <1>9, <2>5 DEF PhasesInv
    <2>7. SpentInv'
        <3>1. Fan!NoRecovery' = Fan!NoRecovery
            BY SameSetup
        <3> QED
            BY <1>1, <1>5, <1>9, <3>1 DEF SpentInv
    <2>8. OutcomeInv'
        BY <1>9 DEF OutcomeInv, Fan!SuccessIsEarned, Fan!DeclineIsSuccess
    <2>9. \A w \in FanWorkers : RowInv(w)' /\ WireInv(w)'
        BY <1>7, <1>9
    <2> QED
        BY <2>4, <2>6, <2>7, <2>8, <2>9 DEF FanInv
<1> QED
    BY <1>8, <1>9 DEF Fan!Recover

(* The engine ends with its workers as they are.                           *)
LEMMA KeepsReturn ==
    ASSUME FanInv, fSetup' = fSetup, fPc \in {"resolve", "synthesize"}, NEW ok \in BOOLEAN, NEW e \in Errors,
           NEW u \in SUBSET Fan!Runs, Fan!Return(ok, e, u), u \subseteq fSpent', fSpent' \subseteq Fan!Runs, fSpent \subseteq fSpent',
           fLive' = fLive, fPlans' = fPlans, fSkipped' = fSkipped, fWire' = fWire, fRow' = fRow, fQueued' = fQueued,
           fUsage' = fUsage, fSent' = fSent,
           ok => Fan!Ok # {} \/ fSkipped = fPlans,
           fSetup.mode = "supervisor" /\ fSkipped = fPlans => ok,
           Fan!NoRecovery => u = fSpent'
    PROVE  FanInv'
<1>1. fPc' = "done" /\ fResult' \in Outcome /\ fResult'.success = ok /\ fResult'.usage = u
    BY Returned
<1>2. fPlans # {} /\ fLive = {}
    BY DEF FanInv, PhasesInv
<1>3. FanState'
    BY <1>1, FanFacts DEF FanState, Fan!TypeOK, Outcome, Signals, Errors
<1>4. Fan!NoRecovery' = Fan!NoRecovery /\ Fan!Ok' = Fan!Ok /\ Fan!Rows' = Fan!Rows
    BY SameSetup DEF Fan!Ok, Fan!Rows
<1>5. PhasesInv'
    BY <1>1, <1>2 DEF PhasesInv
<1>6. SpentInv'
    BY <1>1, <1>4 DEF SpentInv
<1>7. OutcomeInv'
    BY <1>1, <1>2, <1>4 DEF OutcomeInv, Fan!SuccessIsEarned, Fan!DeclineIsSuccess
<1>8. ASSUME NEW w \in FanWorkers PROVE RowInv(w)' /\ WireInv(w)'
    <2>1. RowInv(w) /\ WireInv(w)
        BY DEF FanInv
    <2>2. RowInv(w)'
        BY <1>1, <1>2, <2>1 DEF RowInv
    <2> QED
        BY <1>1, <1>4, <2>1, <2>2 DEF WireInv
<1> QED
    BY <1>3, <1>5, <1>6, <1>7, <1>8 DEF FanInv

(* The engine goes on to the synthesis.                                    *)
LEMMA KeepsResolve ==
    ASSUME FanInv, fSetup' = fSetup, Fan!Resolve
    PROVE  FanInv'
<1>1. /\ fPc = "resolve" /\ fSetup.mode = "swarm" /\ Fan!NoRecovery /\ fLive' = fLive /\ fPlans' = fPlans /\ fSkipped' = fSkipped
      /\ fWire' = fWire /\ fRow' = fRow /\ fQueued' = fQueued /\ fUsage' = fUsage /\ fSent' = fSent
      /\ fPlans # {} /\ fUsage = fSpent /\ fLive = {}
    BY DEF Fan!Resolve, FanInv, PhasesInv, SpentInv, Fan!NoRecovery
<1>2. "none" \in Errors /\ "AllPatternWorkersFailed" \in Errors /\ TRUE \in BOOLEAN /\ FALSE \in BOOLEAN
    BY DEF Errors
<1>3. fSpent \subseteq Fan!Runs /\ fUsage \in SUBSET Fan!Runs /\ fPlans \subseteq FanWorkers
    BY <1>1, FanFacts
<1>4. fSetup.mode # "supervisor"
    BY <1>1
<1>5. CASE /\ Fan!Cardinality(Fan!Ok) >= 2 /\ fSpent' = fSpent \cup {<<"resolution">>}
           /\ Fan!Return(TRUE, "none", fUsage \cup {<<"resolution">>})
    <2>1. Fan!Ok # {}
        BY <1>5, SameCount, FS_EmptySet
    <2>2. /\ fUsage \cup {<<"resolution">>} \in SUBSET Fan!Runs /\ fUsage \cup {<<"resolution">>} = fSpent'
          /\ fSpent' \subseteq Fan!Runs
        BY <1>1, <1>3, <1>5 DEF Fan!Runs
    <2> QED
        BY <1>1, <1>2, <1>4, <1>5, <2>1, <2>2, KeepsReturn
<1>6. CASE fSpent' = fSpent /\ Fan!Ok # {} /\ fPc' = "synthesize" /\ fResult' = fResult
    <2>1. FanState'
        BY <1>1, <1>6, FanFacts DEF FanState, Fan!TypeOK, Outcome, Signals, Errors
    <2>2. Fan!Rows' = Fan!Rows /\ Fan!Rows # {}
        BY <1>1, <1>6 DEF Fan!Rows, Fan!Ok
    <2>3. PhasesInv' /\ SpentInv'
        BY <1>1, <1>6, <2>2 DEF PhasesInv, SpentInv
    <2>4. OutcomeInv'
        BY <1>6 DEF OutcomeInv, Fan!SuccessIsEarned, Fan!DeclineIsSuccess
    <2>5. ASSUME NEW w \in FanWorkers PROVE RowInv(w)' /\ WireInv(w)'
        <3>1. RowInv(w) /\ WireInv(w) /\ Fan!NoRecovery' = Fan!NoRecovery
            BY SameSetup DEF FanInv
        <3>2. RowInv(w)'
            BY <1>1, <1>6, <3>1 DEF RowInv
        <3> QED
            BY <1>1, <1>6, <3>1, <3>2 DEF WireInv
    <2> QED
        BY <2>1, <2>3, <2>4, <2>5 DEF FanInv
<1>7. CASE fSpent' = fSpent /\ Fan!Rows = {} /\ Fan!Return(TRUE, "none", fUsage)
    <2>1. PICK w \in fPlans : TRUE
        BY <1>1
    <2>2. w \in FanWorkers /\ RowInv(w) /\ fRow[w] = "none"
        BY <1>3, <1>7, <2>1 DEF FanInv, Fan!Rows
    <2> QED
        BY <1>1, <2>1, <2>2 DEF RowInv
<1>8. CASE fSpent' = fSpent /\ Fan!Return(FALSE, "AllPatternWorkersFailed", fUsage)
    BY <1>1, <1>2, <1>3, <1>4, <1>8, KeepsReturn
<1>9. \/ /\ Fan!Cardinality(Fan!Ok) >= 2 /\ fSpent' = fSpent \cup {<<"resolution">>}
         /\ Fan!Return(TRUE, "none", fUsage \cup {<<"resolution">>})
      \/ /\ fSpent' = fSpent
         /\ \/ Fan!Ok # {} /\ fPc' = "synthesize" /\ fResult' = fResult
            \/ Fan!Rows = {} /\ Fan!Return(TRUE, "none", fUsage)
            \/ Fan!Return(FALSE, "AllPatternWorkersFailed", fUsage)
    BY DEF Fan!Resolve
<1> QED
    BY <1>5, <1>6, <1>7, <1>8, <1>9

LEMMA KeepsSynthesize ==
    ASSUME FanInv, Fan!FanOutAssumption, fSetup' = fSetup, Fan!Synthesize
    PROVE  FanInv'
<1>1. /\ fPc = "synthesize" /\ fLive' = fLive /\ fPlans' = fPlans /\ fSkipped' = fSkipped
      /\ fWire' = fWire /\ fRow' = fRow /\ fQueued' = fQueued /\ fUsage' = fUsage /\ fSent' = fSent
      /\ Fan!Rows # {} /\ (Fan!NoRecovery => fUsage = fSpent) /\ fLive = {}
    BY DEF Fan!Synthesize, FanInv, PhasesInv, SpentInv
<1>2. fUsage \subseteq fSpent /\ fSpent \subseteq Fan!Runs /\ fPlans \subseteq FanWorkers
    BY FanFacts
<1>3. PICK error \in {"none", "SynthesisTimeout", "SynthesisFailed"}, used \in SUBSET {<<"synthesis">>} :
         /\ fSpent' = fSpent \cup used
         /\ Fan!Return(Fan!Ok # {} /\ error = "none", IF Fan!Ok = {} THEN "AllPatternWorkersFailed" ELSE error, fUsage \cup used)
    BY DEF Fan!Synthesize
<1>4. ~(fSetup.mode = "supervisor" /\ fSkipped = fPlans)
    <2> SUFFICES ASSUME fSetup.mode = "supervisor", fSkipped = fPlans PROVE FALSE
        OBVIOUS
    <2>1. PICK w \in Fan!Rows : TRUE
        BY <1>1
    <2>2. w \in FanWorkers /\ RowInv(w) /\ fRow[w] # "none"
        BY <2>1 DEF FanInv, Fan!Rows
    <2> QED
        BY <2>2 DEF RowInv
<1> DEFINE ok == Fan!Ok # {} /\ error = "none"
           e == IF Fan!Ok = {} THEN "AllPatternWorkersFailed" ELSE error
           u == fUsage \cup used
<1>5. ok \in BOOLEAN /\ e \in Errors /\ u \in SUBSET Fan!Runs /\ u \subseteq fSpent' /\ fSpent' \subseteq Fan!Runs
      /\ fSpent \subseteq fSpent' /\ (Fan!NoRecovery => u = fSpent') /\ (ok => Fan!Ok # {})
    BY <1>1, <1>2, <1>3 DEF Fan!Runs, Errors
<1>6. Fan!Return(ok, e, u)
    BY <1>3
<1> HIDE DEF ok, e, u
<1> QED
    BY <1>1, <1>4, <1>5, <1>6, KeepsReturn

LEMMA KeepsSendHalt ==
    ASSUME FanInv, fSetup' = fSetup, Fan!SendHalt
    PROVE  FanInv'
<1>1. /\ fPc' = fPc /\ fPlans' = fPlans /\ fLive' = fLive /\ fRow' = fRow /\ fSkipped' = fSkipped /\ fWire' = fWire
      /\ fUsage' = fUsage /\ fResult' = fResult /\ fSpent' = fSpent /\ fSent' \in BOOLEAN /\ fQueued' \in BOOLEAN
    BY DEF Fan!SendHalt
<1>2. FanState'
    BY <1>1 DEF FanInv, FanState, Fan!TypeOK
<1>3. Fan!Rows' = Fan!Rows /\ Fan!Ok' = Fan!Ok /\ Fan!NoRecovery' = Fan!NoRecovery
    BY <1>1, SameSetup DEF Fan!Rows, Fan!Ok
<1>4. PhasesInv' /\ SpentInv'
    BY <1>1, <1>3 DEF FanInv, PhasesInv, SpentInv
<1>5. OutcomeInv'
    BY <1>1, <1>3 DEF FanInv, OutcomeInv, Fan!SuccessIsEarned, Fan!DeclineIsSuccess
<1>6. ASSUME NEW w \in FanWorkers PROVE RowInv(w)' /\ WireInv(w)'
    BY <1>1, <1>3 DEF FanInv, RowInv, WireInv
<1> QED
    BY <1>2, <1>4, <1>5, <1>6 DEF FanInv

\* The engine of supervisor and swarm keeps its invariant (handle_supervisor, handle_swarm).
THEOREM FanHolds ==
    ASSUME Fan!FanOutAssumption
    PROVE  Fan!Spec => []FanInv
<1>1. Fan!Init => FanInv
    <2> SUFFICES ASSUME Fan!Init PROVE FanInv
        OBVIOUS
    <2>1. fRow \in [FanWorkers -> Signals] /\ fWire \in [FanWorkers -> {"none", "started", "ok", "failed", "halted"}]
          /\ \A w \in FanWorkers : fRow[w] = "none" /\ fWire[w] = "none"
        BY DEF Fan!Init, Signals
    <2>2. fResult \in Outcome /\ fResult.success = FALSE
        <3>1. fResult = [success |-> FALSE, error |-> "none", usage |-> {}] /\ "none" \in Errors /\ {} \in SUBSET Fan!Runs
            BY DEF Fan!Init, Errors
        <3> QED
            BY <3>1 DEF Outcome
    <2>3. FanState
        BY <2>1, <2>2 DEF Fan!Init, FanState, Fan!TypeOK, Outcome, Signals, Errors
    <2>4. PhasesInv /\ SpentInv /\ OutcomeInv
        BY <2>2 DEF Fan!Init, PhasesInv, SpentInv, OutcomeInv, Fan!SuccessIsEarned, Fan!DeclineIsSuccess
    <2>5. \A w \in FanWorkers : RowInv(w) /\ WireInv(w)
        BY <2>1 DEF Fan!Init, RowInv, WireInv
    <2> QED
        BY <2>3, <2>4, <2>5 DEF FanInv
<1>2. FanInv /\ [Fan!Next]_Fan!vars => FanInv'
    <2> SUFFICES ASSUME FanInv, [Fan!Next]_Fan!vars PROVE FanInv'
        OBVIOUS
    <2>1. CASE UNCHANGED Fan!vars
        <3>1. /\ fPc' = fPc /\ fPlans' = fPlans /\ fLive' = fLive /\ fRow' = fRow /\ fSkipped' = fSkipped /\ fWire' = fWire
              /\ fUsage' = fUsage /\ fResult' = fResult /\ fSpent' = fSpent /\ fSent' = fSent /\ fQueued' = fQueued
              /\ fSetup' = fSetup
            BY <2>1 DEF Fan!vars
        <3>2. FanState'
            BY <3>1 DEF FanInv, FanState, Fan!TypeOK
        <3>3. Fan!Rows' = Fan!Rows /\ Fan!Ok' = Fan!Ok /\ Fan!NoRecovery' = Fan!NoRecovery
            BY <3>1, SameSetup DEF Fan!Rows, Fan!Ok
        <3>4. PhasesInv' /\ SpentInv'
            BY <3>1, <3>3 DEF FanInv, PhasesInv, SpentInv
        <3>5. OutcomeInv'
            BY <3>1, <3>3 DEF FanInv, OutcomeInv, Fan!SuccessIsEarned, Fan!DeclineIsSuccess
        <3>6. ASSUME NEW w \in FanWorkers PROVE RowInv(w)' /\ WireInv(w)'
            BY <3>1, <3>3 DEF FanInv, RowInv, WireInv
        <3> QED
            BY <3>2, <3>4, <3>5, <3>6 DEF FanInv
    <2>2. CASE Fan!Next
        <3>1. fSetup' = fSetup
            BY <2>2 DEF Fan!Next
        <3>2. CASE Fan!Engine
            BY <3>1, <3>2, KeepsPlan, KeepsAnnounce, KeepsGate, KeepsCollect, KeepsRecover, KeepsResolve,
               KeepsSynthesize DEF Fan!Engine
        <3>3. CASE \E w \in FanWorkers : Fan!Run(w)
            BY <3>1, <3>3, KeepsEnd DEF Fan!Run
        <3> QED
            BY <2>2, <3>1, <3>2, <3>3, KeepsHaltBatch, KeepsSendHalt DEF Fan!Next
    <2> QED
        BY <2>1, <2>2
<1> QED
    BY <1>1, <1>2, PTL DEF Fan!Spec

LEMMA ShownFan ==
    ASSUME FanInv
    PROVE  /\ Fan!SuccessIsEarned /\ Fan!DeclinedDoesNotRun /\ Fan!DeclineIsSuccess
           /\ Fan!UsageIsWhole /\ Fan!EventsAgree /\ Fan!EventsBracket
<1>1. Fan!SuccessIsEarned /\ Fan!DeclineIsSuccess
    BY DEF FanInv, OutcomeInv
<1>2. Fan!DeclinedDoesNotRun
    BY FanFacts DEF FanInv, RowInv, Fan!DeclinedDoesNotRun
<1>3. Fan!UsageIsWhole
    BY DEF FanInv, SpentInv, Fan!UsageIsWhole
<1>4. Fan!EventsAgree
    BY DEF FanInv, WireInv, Fan!EventsAgree
<1>5. Fan!EventsBracket
    <2> SUFFICES ASSUME fPc = "done", fSetup.mode = "swarm", NEW w \in FanWorkers, fWire[w] = "started" PROVE FALSE
        BY DEF Fan!EventsBracket
    <2>1. w \in fPlans /\ fRow[w] = "none"
        BY DEF FanInv, WireInv, Fan!NoRecovery
    <2>2. fLive = {}
        BY DEF FanInv, PhasesInv
    <2> QED
        BY <2>1, <2>2 DEF FanInv, RowInv
<1> QED
    BY <1>1, <1>2, <1>3, <1>4, <1>5

\* The result of a fan-out is what its workers and its user did, and its events are those
\* of its rows (handle_supervisor, handle_swarm, run_workers_with_hitl).
THEOREM FanOutTells ==
    ASSUME Fan!FanOutAssumption
    PROVE  Fan!Spec => [](Fan!SuccessIsEarned /\ Fan!DeclinedDoesNotRun /\ Fan!DeclineIsSuccess
                      /\ Fan!UsageIsWhole /\ Fan!EventsAgree /\ Fan!EventsBracket)
<1>1. FanInv => /\ Fan!SuccessIsEarned /\ Fan!DeclinedDoesNotRun /\ Fan!DeclineIsSuccess
                /\ Fan!UsageIsWhole /\ Fan!EventsAgree /\ Fan!EventsBracket
    BY ShownFan
<1> QED
    BY <1>1, FanHolds, PTL

\* A HALT_ALL leaves no worker of the batch under way (the signal listener).
THEOREM FanHaltReaches ==
    ASSUME Fan!FanOutAssumption
    PROVE  Fan!Spec => Fan!HaltEndsAll
<1>1. FanInv /\ [Fan!Next]_Fan!vars => [fQueued /\ ~fQueued' /\ ~Fan!Dispatching => fLive' = {}]_Fan!vars
    <2> SUFFICES ASSUME FanInv, Fan!Next, fQueued, ~fQueued', ~Fan!Dispatching PROVE fLive' = {}
        OBVIOUS
    <2>1. CASE Fan!HaltBatch
        BY <2>1 DEF Fan!HaltBatch
    <2>2. ASSUME Fan!Engine \/ Fan!SendHalt \/ \E w \in FanWorkers : Fan!Run(w) PROVE FALSE
        BY <2>2 DEF Fan!Engine, Fan!Plan, Fan!Announce, Fan!Gate, Fan!Collect, Fan!Recover, Fan!Resolve, Fan!Synthesize, Fan!SendHalt, Fan!Run, Fan!End
    <2> QED
        BY <2>1, <2>2 DEF Fan!Next
<1> QED
    BY <1>1, FanHolds, PTL DEF Fan!Spec, Fan!HaltEndsAll

-------------------------------------------------------------------------------
(* Reflection.                                                               *)

Workers == {"generator", "critic"}
Critic == [score : 0..10, trusted : BOOLEAN, passed : BOOLEAN]
Told == [success : BOOLEAN, output : 0..MaxIterations, usage : SUBSET (Workers \X Reflect!Draft)]

ReflState ==
    /\ eGated \in Gates /\ ePc \in {"iterate", "generate", "critique", "done"}
    /\ eIteration \in 0..MaxIterations /\ eBest \in 0..MaxIterations /\ eBestScore \in 0..10
    /\ eQueued \in BOOLEAN /\ eSent \in BOOLEAN /\ eStopped \in BOOLEAN
    /\ eResult \in Told /\ eVerdict \in [Reflect!Draft -> Reflect!Critiques \cup {None}]
    /\ eUsage \subseteq eSpent /\ eSpent \subseteq Workers \X Reflect!Draft

(* The draft that is being written or judged has no verdict yet.           *)
ReflInv ==
    /\ ReflState
    /\ ePc \in {"generate", "critique"} => eIteration < MaxIterations
    /\ ePc # "done" => \A d \in Reflect!Draft : eVerdict[d] # None => d <= eIteration
    /\ Reflect!BestIsBest
    /\ Reflect!SuccessIsJudged

LEMMA Parsed ==
    ASSUME Reflect!ReflectionAssumption
    PROVE  /\ Reflect!Critiques \subseteq Critic /\ None \notin Reflect!Critiques
           /\ Reflect!Parse(None, None) \in Reflect!Critiques
<1>1. ASSUME NEW s \in Scores \cup {None}, NEW p \in {"yes", "no", None} PROVE Reflect!Parse(s, p) \in Critic
    <2> DEFINE value == IF s = None THEN 0 ELSE s
               pass == CASE p = None -> value >= Threshold
                         [] p = "yes" -> s = None \/ value >= Threshold
                         [] p = "no" -> FALSE
    <2>1. value \in 0..10 /\ Threshold \in 1..10
        BY DEF Reflect!ReflectionAssumption
    <2>2. pass \in BOOLEAN
        <3> DEFINE high == value >= Threshold
        <3>1. high \in BOOLEAN /\ (s = None \/ high) \in BOOLEAN
            OBVIOUS
        <3> HIDE DEF value, high
        <3>2. pass = CASE p = None -> high [] p = "yes" -> s = None \/ high [] p = "no" -> FALSE
            BY DEF high
        <3> HIDE DEF pass
        <3>3. None # "yes" /\ None # "no"
            BY DEF Reflect!ReflectionAssumption
        <3>4. CASE p = None
            <4>1. pass = high
                BY <3>2, <3>3, <3>4
            <4> QED
                BY <3>1, <4>1
        <3>5. CASE p = "yes"
            <4>1. pass = (s = None \/ high)
                BY <3>2, <3>3, <3>5
            <4> QED
                BY <3>1, <4>1
        <3>6. CASE p = "no"
            <4>1. pass = FALSE
                BY <3>2, <3>3, <3>6
            <4> QED
                BY <4>1
        <3> QED
            BY <3>4, <3>5, <3>6
    <2>3. Reflect!Parse(s, p) = [score |-> value, trusted |-> s # None, passed |-> pass]
        BY DEF Reflect!Parse
    <2> HIDE DEF value, pass
    <2> QED
        BY <2>1, <2>2, <2>3 DEF Critic
<1>2. Reflect!Critiques \subseteq Critic
    BY <1>1 DEF Reflect!Critiques
<1>3. None \notin Critic
    BY DEF Reflect!ReflectionAssumption, Critic
<1>4. Reflect!Parse(None, None) \in Reflect!Critiques
    BY DEF Reflect!Critiques
<1> QED
    BY <1>2, <1>3, <1>4

LEMMA VerdictFields ==
    ASSUME Reflect!ReflectionAssumption, NEW v \in Reflect!Critiques
    PROVE  v.score \in 0..10 /\ v.trusted \in BOOLEAN /\ v.passed \in BOOLEAN /\ v # None
BY Parsed DEF Critic

LEMMA Bounds ==
    ASSUME Reflect!ReflectionAssumption
    PROVE  MaxIterations \in Nat /\ Reflect!Draft = 1..MaxIterations /\ Reflect!NoDraft = 0
BY DEF Reflect!ReflectionAssumption, Reflect!Draft, Reflect!NoDraft

LEMMA ReflStarts ==
    ASSUME Reflect!ReflectionAssumption, Reflect!Init PROVE ReflInv
<1>1. MaxIterations \in Nat /\ Reflect!NoDraft = 0
    BY Bounds
<1>2. ReflState
    <2>1. eResult \in Told
        BY <1>1 DEF Reflect!Init, Told
    <2>2. eVerdict \in [Reflect!Draft -> Reflect!Critiques \cup {None}]
        BY DEF Reflect!Init
    <2>3. eQueued \in BOOLEAN /\ eSent \in BOOLEAN /\ eStopped \in BOOLEAN
        BY DEF Reflect!Init
    <2>4. eIteration \in 0..MaxIterations /\ eBest \in 0..MaxIterations /\ eBestScore \in 0..10
        BY <1>1 DEF Reflect!Init
    <2> QED
        BY <2>1, <2>2, <2>3, <2>4 DEF Reflect!Init, ReflState
<1>3. \A d \in Reflect!Draft : eVerdict[d] = None
    BY DEF Reflect!Init
<1>4. Reflect!BestIsBest
    BY <1>3 DEF Reflect!Init, Reflect!BestIsBest
<1> QED
    BY <1>2, <1>3, <1>4 DEF Reflect!Init, ReflInv, Reflect!SuccessIsJudged

(* The engine returns without a new verdict.                               *)
LEMMA ReturnKeeps ==
    ASSUME Reflect!ReflectionAssumption, ReflInv, UNCHANGED <<eGated, eIteration, eBest, eBestScore, eVerdict, eSent>>,
           NEW ok \in BOOLEAN, NEW out \in 0..MaxIterations, NEW used \in SUBSET (Workers \X Reflect!Draft),
           Reflect!Return(ok, out, used), eQueued' \in BOOLEAN, eStopped' \in BOOLEAN,
           eUsage' \subseteq eSpent', eSpent' \subseteq Workers \X Reflect!Draft,
           ok => eStopped' \/ eGated # {}
    PROVE  ReflInv'
<1>1. eResult' \in Told /\ eResult'.success = ok /\ ePc' = "done"
    BY DEF Reflect!Return, Told
<1>2. ReflState'
    BY <1>1 DEF ReflInv, ReflState
<1>3. Reflect!BestIsBest'
    BY DEF ReflInv, Reflect!BestIsBest
<1>4. Reflect!SuccessIsJudged'
    BY <1>1 DEF Reflect!SuccessIsJudged
<1> QED
    BY <1>1, <1>2, <1>3, <1>4 DEF ReflInv

(* The engine goes on without a new verdict.                               *)
LEMMA GoesOn ==
    ASSUME Reflect!ReflectionAssumption, ReflInv, UNCHANGED <<eGated, eIteration, eBest, eBestScore, eVerdict, eSent, eResult>>,
           ePc # "done", ePc' \in {"generate", "critique"}, eQueued' \in BOOLEAN, eStopped' \in BOOLEAN,
           eUsage' \subseteq eSpent', eSpent' \subseteq Workers \X Reflect!Draft,
           eIteration < MaxIterations
    PROVE  ReflInv'
<1>1. ReflState'
    BY DEF ReflInv, ReflState
<1>2. Reflect!BestIsBest'
    BY DEF ReflInv, Reflect!BestIsBest
<1>3. Reflect!SuccessIsJudged'
    BY DEF Reflect!SuccessIsJudged
<1> QED
    BY <1>1, <1>2, <1>3 DEF ReflInv

LEMMA Written ==
    ASSUME Reflect!ReflectionAssumption, ReflInv, ePc \in {"generate", "critique"}, NEW x \in Workers
    PROVE  Reflect!Current \in Reflect!Draft /\ <<x, Reflect!Current>> \in Workers \X Reflect!Draft
BY Bounds DEF ReflInv, ReflState, Reflect!Current

(* A draft is judged.                                                      *)
LEMMA JudgeKeeps ==
    ASSUME Reflect!ReflectionAssumption, ReflInv, UNCHANGED <<eGated, eSent>>, ePc = "critique",
           NEW v \in Reflect!Critiques, Reflect!Judge(v), eQueued' \in BOOLEAN, eStopped' \in BOOLEAN,
           eUsage' \subseteq eSpent', eSpent' \subseteq Workers \X Reflect!Draft
    PROVE  ReflInv'
<1>1. MaxIterations \in Nat /\ Reflect!Draft = 1..MaxIterations /\ Reflect!NoDraft = 0
    BY Bounds
<1>2. v.score \in 0..10 /\ v.trusted \in BOOLEAN /\ v.passed \in BOOLEAN /\ v # None
    BY VerdictFields
<1>3. /\ eIteration \in 0..MaxIterations /\ eBest \in 0..MaxIterations /\ eBestScore \in 0..10
      /\ eVerdict \in [Reflect!Draft -> Reflect!Critiques \cup {None}] /\ eIteration < MaxIterations
      /\ \A d \in Reflect!Draft : eVerdict[d] # None => d <= eIteration
    BY DEF ReflInv, ReflState
<1>4. Reflect!Current \in Reflect!Draft /\ Reflect!Current = eIteration + 1 /\ Reflect!Current \in 1..MaxIterations
    BY <1>1, <1>3 DEF Reflect!Current
<1>5. /\ eVerdict' = [eVerdict EXCEPT ![Reflect!Current] = v]
      /\ IF v.trusted /\ v.score > eBestScore
         THEN eBest' = Reflect!Current /\ eBestScore' = v.score
         ELSE UNCHANGED <<eBest, eBestScore>>
      /\ IF Reflect!Accepted(v)
         THEN Reflect!Return(TRUE, eBest', eUsage') /\ UNCHANGED eIteration
         ELSE ePc' = "iterate" /\ eIteration' = eIteration + 1 /\ UNCHANGED eResult
    BY DEF Reflect!Judge
<1>6. /\ eVerdict' \in [Reflect!Draft -> Reflect!Critiques \cup {None}] /\ eVerdict'[Reflect!Current] = v
      /\ \A d \in Reflect!Draft : d # Reflect!Current => eVerdict'[d] = eVerdict[d]
    BY <1>3, <1>4, <1>5
<1>7. eBest' \in 0..MaxIterations /\ eBestScore' \in 0..10
    BY <1>2, <1>3, <1>4, <1>5
<1>8. /\ eResult' \in Told /\ eIteration' \in 0..MaxIterations /\ ePc' \in {"iterate", "done"}
      /\ ePc' = "done" => UNCHANGED eIteration /\ Reflect!Accepted(v)
      /\ ePc' = "iterate" => eIteration' = eIteration + 1
    <2>0. /\ Reflect!Accepted(v) => Reflect!Return(TRUE, eBest', eUsage') /\ eIteration' = eIteration
          /\ ~Reflect!Accepted(v) => ePc' = "iterate" /\ eIteration' = eIteration + 1 /\ eResult' = eResult
        BY <1>5
    <2>1. CASE Reflect!Accepted(v)
        <3>1. eUsage' \in SUBSET (Workers \X Reflect!Draft)
            OBVIOUS
        <3>2. eResult' = [success |-> TRUE, output |-> eBest', usage |-> eUsage'] /\ ePc' = "done" /\ eIteration' = eIteration
            BY <2>0, <2>1 DEF Reflect!Return
        <3>3. eResult' \in Told
            BY <1>7, <3>1, <3>2 DEF Told
        <3> QED
            BY <1>3, <2>1, <3>2, <3>3
    <2>2. CASE ~Reflect!Accepted(v)
        BY <1>1, <1>3, <2>0, <2>2 DEF ReflInv, ReflState
    <2> QED
        BY <2>1, <2>2
<1>9. ReflState'
    BY <1>6, <1>7, <1>8 DEF ReflInv, ReflState
<1>10. ASSUME NEW d \in Reflect!Draft, eVerdict'[d] # None PROVE d <= eIteration + 1
    <2>1. CASE d = Reflect!Current
        BY <1>3, <1>4, <2>1
    <2>2. CASE d # Reflect!Current
        BY <1>1, <1>3, <1>6, <1>10, <2>2
    <2> QED
        BY <2>1, <2>2
<1>11. ePc' # "done" => \A d \in Reflect!Draft : eVerdict'[d] # None => d <= eIteration'
    BY <1>8, <1>10
<1>12. Reflect!BestIsBest'
    <2>1. Reflect!BestIsBest
        BY DEF ReflInv
    <2>2. /\ \A d \in Reflect!Draft : eVerdict[d] # None /\ eVerdict[d].trusted => eVerdict[d].score <= eBestScore
          /\ eBest # Reflect!NoDraft =>
               /\ eBest \in Reflect!Draft /\ eVerdict[eBest] # None /\ eVerdict[eBest].trusted /\ eVerdict[eBest].score = eBestScore
               /\ \A d \in Reflect!Draft : eVerdict[d] # None /\ eVerdict[d].trusted /\ eVerdict[d].score = eBestScore => eBest <= d
        BY <2>1 DEF Reflect!BestIsBest
    <2>3. \A d \in Reflect!Draft : eVerdict[d] # None => eVerdict[d].score \in 0..10
        BY <1>3, VerdictFields
    <2>4. eVerdict[Reflect!Current] = None
        BY <1>3, <1>4
    <2>5. CASE v.trusted /\ v.score > eBestScore
        <3>1. eBest' = Reflect!Current /\ eBestScore' = v.score
            BY <1>5, <2>5
        <3>2. ASSUME NEW d \in Reflect!Draft, d # Reflect!Current, eVerdict'[d] # None, eVerdict'[d].trusted PROVE eVerdict'[d].score < v.score
            <4>1. eVerdict'[d] = eVerdict[d]
                BY <1>6, <3>2
            <4> QED
                BY <1>2, <1>3, <2>2, <2>3, <2>5, <3>2, <4>1
        <3>3. ASSUME NEW d \in Reflect!Draft, eVerdict'[d] # None, eVerdict'[d].trusted
              PROVE  eVerdict'[d].score <= v.score /\ (eVerdict'[d].score = v.score => d = Reflect!Current)
            <4>1. CASE d = Reflect!Current
                BY <1>2, <1>6, <4>1
            <4>2. CASE d # Reflect!Current
                <5>1. eVerdict'[d].score < v.score /\ eVerdict'[d].score \in 0..10
                    BY <1>6, <2>3, <3>2, <3>3, <4>2
                <5> QED
                    BY <1>2, <5>1
            <4> QED
                BY <4>1, <4>2
        <3>4. eVerdict'[Reflect!Current] # None /\ eVerdict'[Reflect!Current].trusted /\ eVerdict'[Reflect!Current].score = v.score
            BY <1>2, <1>6, <2>5
        <3> QED
            BY <1>1, <1>4, <3>1, <3>3, <3>4 DEF Reflect!BestIsBest
    <2>6. CASE ~(v.trusted /\ v.score > eBestScore)
        <3>1. eBest' = eBest /\ eBestScore' = eBestScore
            BY <1>5, <2>6
        <3>2. ASSUME NEW d \in Reflect!Draft, eVerdict'[d] # None, eVerdict'[d].trusted
              PROVE  /\ eVerdict'[d].score <= eBestScore
                     /\ eBest # Reflect!NoDraft /\ eVerdict'[d].score = eBestScore => eBest <= d
            <4>1. CASE d = Reflect!Current
                <5>1. eVerdict'[d] = v
                    BY <1>6, <4>1
                <5>2. v.score <= eBestScore
                    BY <1>2, <1>3, <2>6, <3>2, <5>1
                <5>3. eBest # Reflect!NoDraft => eBest <= eIteration
                    BY <1>3, <2>2
                <5> QED
                    BY <1>1, <1>3, <1>4, <4>1, <5>1, <5>2, <5>3
            <4>2. CASE d # Reflect!Current
                <5>1. eVerdict'[d] = eVerdict[d]
                    BY <1>6, <4>2
                <5> QED
                    BY <2>2, <3>2, <5>1
            <4> QED
                BY <4>1, <4>2
        <3>3. eBest # Reflect!NoDraft =>
                /\ eBest \in Reflect!Draft /\ eVerdict'[eBest] # None /\ eVerdict'[eBest].trusted /\ eVerdict'[eBest].score = eBestScore
            <4>1. ASSUME eBest # Reflect!NoDraft PROVE eBest # Reflect!Current
                BY <2>2, <2>4, <4>1
            <4> QED
                BY <1>6, <2>2, <4>1
        <3> QED
            BY <3>1, <3>2, <3>3 DEF Reflect!BestIsBest
    <2> QED
        BY <2>5, <2>6
<1>13. Reflect!SuccessIsJudged'
    <2>1. CASE ePc' = "done"
        <3>1. Reflect!Current' = Reflect!Current /\ Reflect!Accepted(v) /\ eVerdict'[Reflect!Current] = v
            BY <1>6, <1>8, <2>1 DEF Reflect!Current
        <3>2. Reflect!Accepted(v)'  = Reflect!Accepted(v)
            BY DEF Reflect!Accepted
        <3> QED
            BY <1>2, <3>1 DEF Reflect!SuccessIsJudged, Reflect!Accepted
    <2>2. CASE ePc' # "done"
        BY <2>2 DEF Reflect!SuccessIsJudged
    <2> QED
        BY <2>1, <2>2
<1> QED
    BY <1>8, <1>9, <1>11, <1>12, <1>13 DEF ReflInv

LEMMA IterateKeeps ==
    ASSUME Reflect!ReflectionAssumption, ReflInv, UNCHANGED eGated, Reflect!Iterate PROVE ReflInv'
<1>1. /\ MaxIterations \in Nat /\ eBest \in 0..MaxIterations /\ eQueued \in BOOLEAN /\ eStopped \in BOOLEAN
      /\ eUsage \subseteq eSpent /\ eSpent \subseteq Workers \X Reflect!Draft /\ eIteration \in 0..MaxIterations
    BY Bounds DEF ReflInv, ReflState
<1>2. UNCHANGED <<eIteration, eBest, eBestScore, eUsage, eVerdict, eSpent, eSent>> /\ ePc = "iterate"
    BY DEF Reflect!Iterate
<1>3. CASE Reflect!Return(FALSE, eBest, eUsage) /\ UNCHANGED <<eQueued, eStopped>>
    BY <1>1, <1>2, <1>3, ReturnKeeps
<1>4. CASE eQueued' = FALSE /\ eStopped' = TRUE /\ Reflect!Return(TRUE, eBest, {})
    BY <1>1, <1>2, <1>4, ReturnKeeps
<1>5. CASE eIteration < MaxIterations /\ ePc' = "generate" /\ UNCHANGED <<eQueued, eStopped, eResult>>
    BY <1>1, <1>2, <1>5, GoesOn
<1> QED
    BY <1>3, <1>4, <1>5 DEF Reflect!Iterate

LEMMA GenerateKeeps ==
    ASSUME Reflect!ReflectionAssumption, ReflInv, UNCHANGED eGated, Reflect!Generate PROVE ReflInv'
<1>1. /\ MaxIterations \in Nat /\ eBest \in 0..MaxIterations /\ eQueued \in BOOLEAN /\ eStopped \in BOOLEAN
      /\ eUsage \subseteq eSpent /\ eSpent \subseteq Workers \X Reflect!Draft /\ eIteration < MaxIterations
    BY Bounds DEF ReflInv, ReflState, Reflect!Generate
<1>2. UNCHANGED <<eIteration, eBest, eBestScore, eVerdict, eSent>> /\ ePc = "generate"
    BY DEF Reflect!Generate
<1>3. <<"generator", Reflect!Current>> \in Workers \X Reflect!Draft
    BY <1>2, Written DEF Workers
<1>4. CASE Reflect!Return(FALSE, eBest, eUsage) /\ UNCHANGED <<eQueued, eUsage, eSpent, eStopped>>
    BY <1>1, <1>2, <1>4, ReturnKeeps
<1>5. CASE /\ eUsage' = eUsage \cup {<<"generator", Reflect!Current>>} /\ eSpent' = eSpent \cup {<<"generator", Reflect!Current>>}
           /\ Reflect!Return(FALSE, eBest, eUsage') /\ UNCHANGED <<eQueued, eStopped>>
    <2>1. eUsage' \in SUBSET (Workers \X Reflect!Draft) /\ eUsage' \subseteq eSpent' /\ eSpent' \subseteq Workers \X Reflect!Draft
        BY <1>1, <1>3, <1>5
    <2> QED
        BY <1>1, <1>2, <1>5, <2>1, ReturnKeeps
<1>6. CASE /\ ePc' = "critique"
           /\ eUsage' = eUsage \cup {<<"generator", Reflect!Current>>} /\ eSpent' = eSpent \cup {<<"generator", Reflect!Current>>}
           /\ UNCHANGED <<eQueued, eResult, eStopped>>
    <2>1. eUsage' \subseteq eSpent' /\ eSpent' \subseteq Workers \X Reflect!Draft
        BY <1>1, <1>3, <1>6
    <2> QED
        BY <1>1, <1>2, <1>6, <2>1, GoesOn
<1>7. CASE /\ eQueued' = FALSE /\ eStopped' = TRUE /\ ePc' = "critique" /\ UNCHANGED <<eUsage, eResult, eSpent>>
    BY <1>1, <1>2, <1>7, GoesOn
<1> QED
    BY <1>4, <1>5, <1>6, <1>7 DEF Reflect!Generate

LEMMA CritiqueKeeps ==
    ASSUME Reflect!ReflectionAssumption, ReflInv, UNCHANGED eGated, Reflect!Critique PROVE ReflInv'
<1>1. /\ MaxIterations \in Nat /\ eBest \in 0..MaxIterations /\ eQueued \in BOOLEAN /\ eStopped \in BOOLEAN
      /\ eUsage \subseteq eSpent /\ eSpent \subseteq Workers \X Reflect!Draft /\ eIteration < MaxIterations
    BY Bounds DEF ReflInv, ReflState, Reflect!Critique
<1>2. eSent' = eSent /\ ePc = "critique"
    BY DEF Reflect!Critique
<1>3. Reflect!Current \in Reflect!Draft /\ <<"critic", Reflect!Current>> \in Workers \X Reflect!Draft
    BY <1>2, Written DEF Workers
<1>4. CASE /\ "critic" \in eGated
           /\ Reflect!Return(TRUE, IF eBest = Reflect!NoDraft THEN Reflect!Current ELSE eBest, eUsage)
           /\ UNCHANGED <<eIteration, eBest, eBestScore, eQueued, eUsage, eVerdict, eSpent, eStopped>>
    <2> DEFINE out == IF eBest = Reflect!NoDraft THEN Reflect!Current ELSE eBest
    <2>1. out \in 0..MaxIterations
        BY <1>1, <1>3, Bounds
    <2>2. Reflect!Return(TRUE, out, eUsage) /\ eGated # {} /\ eUsage \in SUBSET (Workers \X Reflect!Draft)
        BY <1>1, <1>4
    <2> HIDE DEF out
    <2> QED
        BY <1>1, <1>2, <1>4, <2>1, <2>2, ReturnKeeps
<1>5. CASE /\ eUsage' = eUsage \cup {<<"critic", Reflect!Current>>} /\ eSpent' = eSpent \cup {<<"critic", Reflect!Current>>}
           /\ \E v \in Reflect!Critiques : Reflect!Judge(v)
           /\ UNCHANGED <<eQueued, eStopped>>
    <2>1. eUsage' \subseteq eSpent' /\ eSpent' \subseteq Workers \X Reflect!Draft
        BY <1>1, <1>3, <1>5
    <2>2. PICK v \in Reflect!Critiques : Reflect!Judge(v)
        BY <1>5
    <2> QED
        BY <1>1, <1>2, <1>5, <2>1, <2>2, JudgeKeeps
<1>6. CASE /\ eQueued' = FALSE /\ eStopped' = TRUE /\ UNCHANGED <<eUsage, eSpent>> /\ Reflect!Judge(Reflect!Parse(None, None))
    <2>1. Reflect!Parse(None, None) \in Reflect!Critiques
        BY Parsed
    <2> QED
        BY <1>1, <1>2, <1>6, <2>1, JudgeKeeps
<1> QED
    BY <1>4, <1>5, <1>6 DEF Reflect!Critique

LEMMA ReflStays ==
    ASSUME Reflect!ReflectionAssumption, ReflInv, [Reflect!Next]_Reflect!vars PROVE ReflInv'
<1>1. CASE UNCHANGED Reflect!vars
    BY <1>1 DEF Reflect!vars, Reflect!history, ReflInv, ReflState, Reflect!BestIsBest, Reflect!SuccessIsJudged, Reflect!Accepted, Reflect!Current
<1>2. CASE UNCHANGED eGated /\ Reflect!SendHalt
    BY <1>2 DEF Reflect!SendHalt, ReflInv, ReflState, Reflect!BestIsBest, Reflect!SuccessIsJudged, Reflect!Accepted, Reflect!Current
<1> QED
    BY <1>1, <1>2, IterateKeeps, GenerateKeeps, CritiqueKeeps DEF Reflect!Next, Reflect!Engine

LEMMA ReflBounded ==
    ASSUME Reflect!ReflectionAssumption, ReflInv PROVE Reflect!LoopIsBounded
<1>1. MaxIterations \in Nat /\ Reflect!Draft = 1..MaxIterations /\ eSpent \subseteq Workers \X Reflect!Draft
    BY Bounds DEF ReflInv, ReflState
<1>2. IsFiniteSet(Reflect!Draft) /\ Cardinality(Reflect!Draft) = MaxIterations
    BY <1>1, FS_Interval
<1>3. IsFiniteSet(Workers) /\ Cardinality(Workers) = 2
    <2>1. IsFiniteSet({"generator"}) /\ Cardinality({"generator"}) = 1
        BY FS_Singleton
    <2>2. Workers = {"generator"} \cup {"critic"} /\ "critic" \notin {"generator"}
        BY DEF Workers
    <2> QED
        BY <2>1, <2>2, FS_AddElement
<1>4. IsFiniteSet(Workers \X Reflect!Draft) /\ Cardinality(Workers \X Reflect!Draft) = 2 * MaxIterations
    BY <1>2, <1>3, FS_Product
<1>5. Cardinality(eSpent) <= Cardinality(Workers \X Reflect!Draft)
    BY <1>1, <1>4, FS_Subset
<1> QED
    BY <1>4, <1>5, SameCount DEF Reflect!LoopIsBounded

\* The best draft is the first with the highest score that was trusted, a success was
\* judged one, and the loop ends within its iterations (handle_reflection).
THEOREM ReflHolds ==
    Reflect!ReflectionAssumption /\ Reflect!Spec => [](Reflect!BestIsBest /\ Reflect!SuccessIsJudged /\ Reflect!LoopIsBounded)
<1> SUFFICES ASSUME Reflect!ReflectionAssumption PROVE Reflect!Spec => [](Reflect!BestIsBest /\ Reflect!SuccessIsJudged /\ Reflect!LoopIsBounded)
    OBVIOUS
<1>1. Reflect!Init => ReflInv
    BY ReflStarts
<1>2. ReflInv /\ [Reflect!Next]_Reflect!vars => ReflInv'
    BY ReflStays
<1>3. ReflInv => Reflect!BestIsBest /\ Reflect!SuccessIsJudged /\ Reflect!LoopIsBounded
    BY ReflBounded DEF ReflInv
<1> QED
    BY <1>1, <1>2, <1>3, PTL DEF Reflect!Spec

-------------------------------------------------------------------------------
(* ReAct.                                                                    *)

Ways == {"stream", "hitl", "ainvoke", "direct"}
Phases == {"next", "graph", "approval", "tool", "stray", "done", "raised"}
TurnOver == rPc \in {"done", "raised"}

Allowed(p, r) == Asking!Limit(p) * (1 + UserRounds - r)
Paid(k) == k * Asking!Batch
Coming == IF rPc = "next" THEN 1 ELSE 0
Waiting == IF TurnOver THEN 0 ELSE rSilent
Streamed == IF rSetup.start = "stream" THEN 2 + StrayRetries ELSE 0

LoopTypes ==
    /\ rSetup \in ReactSetups /\ rPc \in Phases /\ rPath \in Ways
    /\ rAttempt \in Nat /\ rLimit \in Nat /\ rStray \in 0..StrayRetries /\ rRounds \in 0..UserRounds
    /\ rSilent \in Nat /\ rAgain \in 0..1 /\ rTurns \in Nat /\ rAsked \in Nat
AttemptsInv == rAttempt <= rLimit /\ rLimit <= Cap /\ rLimit <= Allowed(rPath, rRounds)
StreamInv ==
    rPath = "stream" =>
      rSetup.start = "stream" /\ rAttempt = 0 /\ rTurns + Coming <= (2 - rAgain) + (StrayRetries - rStray)
TurnsInv == rPath # "stream" => rTurns <= Streamed + rAttempt
AskedInv == rPath = "hitl" => Paid(rAsked) + Waiting <= rAttempt
LoopInv == LoopTypes /\ AttemptsInv /\ StreamInv /\ TurnsInv /\ AskedInv

Balanced(S, w) == \A n \in 1..MaxTools : <<"result", n>> \in S => <<"call", n>> \in S \/ w[<<"call", n>>] > 0

MessagesInv ==
    /\ rState \subseteq Asking!Message /\ rSeen \subseteq Asking!Message /\ rFinal \in {None} \cup SUBSET Asking!Message
    /\ rWire \in [Asking!Message -> Nat] /\ rTools \in 0..MaxTools
    /\ rPc \in {"approval", "tool"} => rTools > 0 /\ <<"call", rTools>> \in rSeen
    /\ Balanced(rState, rWire) /\ Balanced(rSeen, rWire) /\ (rFinal # None => Balanced(rFinal, rWire))
    /\ Asking!ResultsFollowCalls


LEMMA Numbers ==
    ASSUME Asking!ReactAssumption
    PROVE  /\ Retries \in Nat /\ Retries > 0 /\ Cap \in Nat /\ Retries < Cap
           /\ StrayRetries \in Nat /\ TransportRetries \in Nat /\ TransportRetries > 0 /\ TransportRetries < Cap
           /\ UserRounds \in Nat /\ AutoRetries \in 0..Retries /\ MaxSize \in Nat /\ MaxTools \in Nat
           /\ Asking!Batch \in Nat /\ Asking!Batch > 0 /\ Asking!Batch = AutoRetries + 1 /\ Asking!Batch <= Cap
BY DEF Asking!ReactAssumption, Asking!Batch

LEMMA Limits ==
    ASSUME Asking!ReactAssumption, NEW p \in Ways
    PROVE  /\ Asking!Limit(p) \in Nat /\ Asking!Limit(p) > 0 /\ Asking!Limit(p) <= Cap
           /\ p = "hitl" => Asking!Limit(p) = Asking!Batch
           /\ p = "ainvoke" => Asking!Limit(p) = Retries
BY Numbers DEF Asking!Limit, Ways

LEMMA Times ==
    ASSUME NEW b \in Nat, NEW k \in Nat
    PROVE  b * (k + 1) = b * k + b /\ b * k \in Nat /\ b * 1 = b
OBVIOUS

LEMMA Grows ==
    ASSUME NEW b \in Nat, NEW j \in Nat, NEW k \in Nat, j <= k
    PROVE  b * j <= b * k
<1>1. b * k = b * j + b * (k - j) /\ b * (k - j) \in Nat /\ b * j \in Nat
    OBVIOUS
<1> QED
    BY <1>1

LEMMA Products ==
    ASSUME Asking!ReactAssumption, LoopTypes
    PROVE  Allowed(rPath, rRounds) \in Nat /\ Paid(rAsked) \in Nat /\ Streamed \in Nat /\ Asking!Limit(rPath) \in Nat
<1>1. Asking!Limit(rPath) \in Nat /\ 1 + UserRounds - rRounds \in Nat /\ Asking!Batch \in Nat /\ rAsked \in Nat
    BY Limits, Numbers DEF LoopTypes
<1>2. Streamed \in Nat
    BY Numbers DEF Streamed
<1> DEFINE l == Asking!Limit(rPath)
           r == 1 + UserRounds - rRounds
<1>3. l * r \in Nat /\ rAsked * Asking!Batch \in Nat
    <2> HIDE DEF l, r
    <2>1. l \in Nat /\ r \in Nat
        BY <1>1 DEF l, r
    <2> QED
        BY <1>1, <2>1
<1> QED
    BY <1>1, <1>2, <1>3 DEF Allowed, Paid

(* Nothing is asked for, started or left to the user: the budgets stay.    *)
LEMMA BudgetsStay ==
    ASSUME Asking!ReactAssumption, LoopInv, UNCHANGED <<rSetup, rPath, rAttempt, rLimit, rRounds, rTurns, rAsked, rSilent>>,
           ~TurnOver, rPc' \in Phases, rStray' \in 0..StrayRetries, rAgain' \in 0..1,
           rPath = "stream" => rStray' = rStray /\ rAgain' = rAgain /\ (rPc' = "next" => rPc = "next")
    PROVE  LoopInv'
<1>1. LoopTypes'
    BY DEF LoopInv, LoopTypes
<1>2. AttemptsInv'
    BY DEF LoopInv, AttemptsInv, Allowed, Asking!Limit, Asking!Batch
<1>3. StreamInv'
    <2>1. Coming \in 0..1 /\ Coming' \in 0..1 /\ (rPath = "stream" => Coming' <= Coming)
        BY DEF Coming
    <2> QED
        BY <2>1, Numbers DEF LoopInv, StreamInv, LoopTypes
<1>4. TurnsInv'
    BY DEF LoopInv, TurnsInv, Streamed
<1>5. AskedInv'
    <2>1. Waiting = rSilent /\ Waiting' \in {0, rSilent} /\ rSilent \in Nat
        BY DEF Waiting, LoopInv, LoopTypes
    <2>2. Paid(rAsked)' = Paid(rAsked) /\ Paid(rAsked) \in Nat
        BY Products DEF Paid, Asking!Batch, LoopInv
    <2> QED
        BY <2>1, <2>2 DEF LoopInv, AskedInv, LoopTypes
<1> QED
    BY <1>1, <1>2, <1>3, <1>4, <1>5 DEF LoopInv

(* The loop starts once more.                                              *)
LEMMA StartsMore ==
    ASSUME Asking!ReactAssumption, LoopInv, UNCHANGED rSetup, Asking!Start PROVE LoopInv'
<1>1. /\ rPc = "next" /\ rPc' = "graph" /\ rTurns' = rTurns + 1 /\ (rPath = "stream" \/ rAttempt < rLimit)
      /\ rAttempt' = IF rPath = "stream" THEN rAttempt ELSE rAttempt + 1
      /\ rSilent' = IF rPath = "hitl" THEN rSilent + 1 ELSE rSilent
      /\ UNCHANGED <<rPath, rLimit, rStray, rRounds, rAgain, rAsked>>
    BY DEF Asking!Start, Asking!budgets
<1>2. LoopTypes /\ AttemptsInv /\ StreamInv /\ TurnsInv /\ AskedInv
    BY DEF LoopInv
<1>3. rAttempt \in Nat /\ rLimit \in Nat /\ rSilent \in Nat /\ rTurns \in Nat
    BY <1>2 DEF LoopTypes
<1>4. LoopTypes'
    BY <1>1, <1>2, <1>3 DEF LoopTypes, Phases
<1>5. AttemptsInv'
    BY <1>1, <1>2, <1>3 DEF AttemptsInv, Allowed, Asking!Limit, Asking!Batch
<1>6. StreamInv'
    <2>1. Coming = 1 /\ Coming' = 0
        BY <1>1 DEF Coming
    <2> QED
        BY <1>1, <1>2, <1>3, <2>1 DEF StreamInv
<1>7. TurnsInv'
    <2>1. Streamed' = Streamed /\ Streamed \in Nat
        BY <1>2, Products DEF Streamed
    <2> QED
        BY <1>1, <1>2, <1>3, <2>1 DEF TurnsInv
<1>8. AskedInv'
    <2>1. Paid(rAsked)' = Paid(rAsked) /\ Paid(rAsked) \in Nat
        BY <1>1, <1>2, Products DEF Paid, Asking!Batch
    <2>2. Waiting = rSilent /\ Waiting' = rSilent'
        BY <1>1 DEF Waiting, TurnOver
    <2> QED
        BY <1>1, <1>2, <1>3, <2>1, <2>2 DEF AskedInv
<1> QED
    BY <1>4, <1>5, <1>6, <1>7, <1>8 DEF LoopInv

(* A stray answer of the stream is tried again.                            *)
LEMMA StrayAgain ==
    ASSUME Asking!ReactAssumption, LoopInv, rPath = "stream", rPc # "next", rPc' = "stray", rStray > 0, rStray' = rStray - 1,
           rTurns' = rTurns + 1, UNCHANGED <<rSetup, rPath, rAttempt, rLimit, rRounds, rSilent, rAgain, rAsked>>
    PROVE  LoopInv'
<1>1. LoopTypes /\ AttemptsInv /\ StreamInv
    BY DEF LoopInv
<1>2. LoopTypes'
    BY <1>1, Numbers DEF LoopTypes, Phases
<1>3. AttemptsInv'
    BY <1>1 DEF AttemptsInv, Allowed, Asking!Limit, Asking!Batch
<1>4. StreamInv'
    <2>1. Coming = 0 /\ Coming' = 0
        BY DEF Coming
    <2> QED
        BY <1>1, <2>1, Numbers DEF StreamInv, LoopTypes
<1> QED
    BY <1>2, <1>3, <1>4 DEF LoopInv, TurnsInv, AskedInv

(* The stream is started once more.                                        *)
LEMMA StreamAgain ==
    ASSUME Asking!ReactAssumption, LoopInv, rPath = "stream", rPc # "next", rPc' = "next", rAgain > 0, rAgain' = rAgain - 1,
           UNCHANGED <<rSetup, rPath, rAttempt, rLimit, rStray, rRounds, rSilent, rTurns, rAsked>>
    PROVE  LoopInv'
<1>1. LoopTypes /\ AttemptsInv /\ StreamInv
    BY DEF LoopInv
<1>2. LoopTypes'
    BY <1>1 DEF LoopTypes, Phases
<1>3. AttemptsInv'
    BY <1>1 DEF AttemptsInv, Allowed, Asking!Limit, Asking!Batch
<1>4. StreamInv'
    <2>1. Coming = 0 /\ Coming' = 1
        BY DEF Coming
    <2> QED
        BY <1>1, <2>1, Numbers DEF StreamInv, LoopTypes
<1> QED
    BY <1>2, <1>3, <1>4 DEF LoopInv, TurnsInv, AskedInv

(* A failed stream goes on as a loop of ainvoke.                           *)
LEMMA FallsBack ==
    ASSUME Asking!ReactAssumption, LoopInv, rPath = "stream", NEW n, Asking!Fallback(n), UNCHANGED <<rSetup, rTurns, rAsked>>
    PROVE  LoopInv'
<1>1. LoopTypes /\ StreamInv
    BY DEF LoopInv
<1>2. /\ rPc' = "next" /\ rPath' = "ainvoke" /\ rAttempt' = 0 /\ rLimit' = Retries
      /\ rStray' = StrayRetries /\ rRounds' = UserRounds /\ rSilent' = 0 /\ rAgain' = rAgain
    BY DEF Asking!Fallback
<1>3. LoopTypes'
    BY <1>1, <1>2, Numbers DEF LoopTypes, Phases, Ways
<1>4. AttemptsInv'
    <2>1. Allowed(rPath, rRounds)' = Retries * (1 + UserRounds - UserRounds)
        BY <1>2 DEF Allowed, Asking!Limit
    <2>2. 1 + UserRounds - UserRounds = 1
        BY Numbers
    <2>3. Allowed(rPath, rRounds)' = Retries
        BY <2>1, <2>2, Numbers
    <2> QED
        BY <1>2, <2>3, Numbers DEF AttemptsInv
<1>5. TurnsInv'
    <2>1. Coming \in 0..1
        BY DEF Coming
    <2>2. rTurns <= 2 + StrayRetries
        BY <1>1, <2>1, Numbers DEF StreamInv, LoopTypes
    <2>3. Streamed' = 2 + StrayRetries
        BY <1>1 DEF StreamInv, Streamed
    <2> QED
        BY <1>2, <2>2, <2>3, Numbers DEF TurnsInv
<1> QED
    BY <1>2, <1>3, <1>4, <1>5 DEF LoopInv, StreamInv, AskedInv

(* The user is asked, and may allow more attempts.                         *)
LEMMA AsksUser ==
    ASSUME Asking!ReactAssumption, LoopInv, rPc = "graph", rPath \in {"ainvoke", "hitl"}, Asking!AskUser(Asking!Limit(rPath)),
           rPath = "hitl" => rSilent > AutoRetries, UNCHANGED <<rSetup, rTurns>>
    PROVE  LoopInv'
<1>1. LoopTypes /\ AttemptsInv /\ TurnsInv /\ AskedInv
    BY DEF LoopInv
<1> DEFINE more == Asking!Limit(rPath)
<1>2. /\ rRounds > 0 /\ rRounds' = rRounds - 1 /\ rAsked' = rAsked + 1 /\ rPath' = rPath /\ rAttempt' = rAttempt
      /\ rStray' = rStray /\ rAgain' = rAgain
      /\ \/ rPc' = "done" /\ rLimit' = rLimit /\ rSilent' = rSilent
         \/ rPc' = "done" /\ rLimit' = Asking!Least(rLimit + more, Cap) /\ rSilent' = rSilent
         \/ rPc' = "next" /\ rLimit' = Asking!Least(rLimit + more, Cap) /\ rSilent' = IF rPath = "hitl" THEN 0 ELSE rSilent
    BY DEF Asking!AskUser, Asking!Again
<1>3. more \in Nat /\ rAttempt \in Nat /\ rLimit \in Nat /\ rLimit <= Cap /\ Cap \in Nat /\ rAttempt <= rLimit
    BY <1>1, Limits, Numbers DEF LoopTypes, AttemptsInv
<1> HIDE DEF more
<1>4. rLimit' \in Nat /\ rLimit <= rLimit' /\ rLimit' <= Cap /\ rLimit' <= rLimit + more
    BY <1>2, <1>3 DEF Asking!Least
<1>5. LoopTypes'
    <2>1. rSilent' \in Nat /\ rPc' \in Phases
        BY <1>1, <1>2 DEF LoopTypes, Phases
    <2> QED
        BY <1>1, <1>2, <1>3, <1>4, <2>1, Numbers DEF LoopTypes
<1>6. AttemptsInv'
    <2> DEFINE r == 1 + UserRounds - rRounds
    <2>1. r \in Nat /\ 1 + UserRounds - rRounds' = r + 1
        BY <1>1, <1>2, Numbers DEF LoopTypes
    <2>2. Allowed(rPath, rRounds) = more * r /\ Allowed(rPath, rRounds)' = more * (1 + UserRounds - rRounds')
        BY <1>2 DEF Allowed, more, Asking!Limit, Asking!Batch
    <2> HIDE DEF r
    <2>3. more * (r + 1) = more * r + more /\ more * r \in Nat
        BY <1>3, <2>1, Times
    <2>4. Allowed(rPath, rRounds)' = Allowed(rPath, rRounds) + more /\ Allowed(rPath, rRounds) \in Nat
        BY <2>1, <2>2, <2>3
    <2>5. rLimit <= Allowed(rPath, rRounds)
        BY <1>1 DEF AttemptsInv
    <2>6. rLimit' <= Allowed(rPath, rRounds)'
        BY <1>3, <1>4, <2>4, <2>5
    <2> QED
        BY <1>2, <1>3, <1>4, <2>6 DEF AttemptsInv
<1>7. TurnsInv'
    BY <1>1, <1>2 DEF TurnsInv, Streamed
<1>8. AskedInv'
    <2>1. CASE rPath = "hitl"
        <3>1. Paid(rAsked)' = Paid(rAsked) + Asking!Batch /\ Paid(rAsked) \in Nat /\ Asking!Batch \in Nat
            <4>1. Paid(rAsked) = rAsked * Asking!Batch /\ Paid(rAsked)' = (rAsked + 1) * Asking!Batch /\ Asking!Batch \in Nat /\ rAsked \in Nat
                BY <1>1, <1>2, Numbers DEF Paid, LoopTypes, Asking!Batch
            <4>2. (rAsked + 1) * Asking!Batch = rAsked * Asking!Batch + Asking!Batch /\ rAsked * Asking!Batch \in Nat
                BY <4>1
            <4> QED
                BY <4>1, <4>2
        <3>2. Waiting = rSilent /\ rSilent >= Asking!Batch /\ rSilent \in Nat
            BY <1>1, <2>1, Numbers DEF Waiting, TurnOver, LoopTypes
        <3>3. Waiting' = 0
            BY <1>2, <2>1 DEF Waiting, TurnOver
        <3>4. Paid(rAsked) + Waiting <= rAttempt
            BY <1>1, <2>1 DEF AskedInv
        <3>5. Paid(rAsked)' + Waiting' <= rAttempt'
            BY <1>2, <1>3, <3>1, <3>2, <3>3, <3>4
        <3> QED
            BY <3>5 DEF AskedInv
    <2>2. CASE rPath # "hitl"
        BY <1>2, <2>2 DEF AskedInv
    <2> QED
        BY <2>1, <2>2
<1> QED
    BY <1>2, <1>5, <1>6, <1>7, <1>8 DEF LoopInv, StreamInv

LEMMA Calls ==
    ASSUME Asking!ReactAssumption, NEW n \in 1..MaxTools
    PROVE  <<"call", n>> \in Asking!Message /\ <<"result", n>> \in Asking!Message
BY DEF Asking!Message

LEMMA CallIsNotResult ==
    \A m, n : <<"call", m>> # <<"result", n>>
OBVIOUS

LEMMA SamePair ==
    \A x, m, n : <<x, m>> = <<x, n>> => m = n
OBVIOUS

(* The messages that a set or the queue has grown by keep it balanced.     *)
LEMMA StaysBalanced ==
    ASSUME Asking!ReactAssumption, NEW S, NEW w \in [Asking!Message -> Nat], NEW u \in [Asking!Message -> Nat],
           \A m \in Asking!Message : w[m] <= u[m], Balanced(S, w)
    PROVE  Balanced(S, u)
<1> SUFFICES ASSUME NEW n \in 1..MaxTools, <<"result", n>> \in S
             PROVE  <<"call", n>> \in S \/ u[<<"call", n>>] > 0
    BY DEF Balanced
<1>1. <<"call", n>> \in S \/ w[<<"call", n>>] > 0
    BY DEF Balanced
<1>2. <<"call", n>> \in Asking!Message
    BY Calls
<1>3. w[<<"call", n>>] \in Nat /\ u[<<"call", n>>] \in Nat /\ w[<<"call", n>>] <= u[<<"call", n>>]
    BY <1>2
<1> QED
    BY <1>1, <1>3

LEMMA MessagesStay ==
    ASSUME MessagesInv, UNCHANGED <<rWire, rTools>>, rPc' \notin {"approval", "tool"},
           rState' \in {rState, rSeen, {}} \/ (rFinal # None /\ rState' = rFinal),
           rSeen' \in {rSeen, rState}, rFinal' \in {rFinal, rSeen, None}
    PROVE  MessagesInv'
<1>1. Balanced({}, rWire)
    BY DEF Balanced
<1>2. /\ rState' \subseteq Asking!Message /\ rSeen' \subseteq Asking!Message /\ rFinal' \in {None} \cup SUBSET Asking!Message
      /\ rWire' \in [Asking!Message -> Nat] /\ rTools' \in 0..MaxTools
    BY DEF MessagesInv
<1>3. Balanced(rState', rWire) /\ Balanced(rSeen', rWire) /\ (rFinal' # None => Balanced(rFinal', rWire))
    <2>1. Balanced(rState, rWire) /\ Balanced(rSeen, rWire) /\ (rFinal # None => Balanced(rFinal, rWire))
        BY DEF MessagesInv
    <2>2. Balanced(rState', rWire)
        BY <1>1, <2>1
    <2>3. Balanced(rSeen', rWire)
        BY <2>1
    <2>4. rFinal' # None => Balanced(rFinal', rWire)
        BY <2>1
    <2> QED
        BY <2>2, <2>3, <2>4
<1>4. Asking!ResultsFollowCalls'
    BY DEF MessagesInv, Asking!ResultsFollowCalls
<1> QED
    BY <1>2, <1>3, <1>4 DEF MessagesInv, Balanced

LEMMA CallAdds ==
    ASSUME Asking!ReactAssumption, MessagesInv, Asking!CallTool PROVE MessagesInv'
<1> DEFINE c == <<"call", rTools + 1>>
<1>1. /\ rTools < MaxTools /\ rTools' = rTools + 1 /\ rSeen' = rSeen \cup {c} /\ rFinal' \in {rFinal, {c}}
      /\ UNCHANGED <<rState, rWire>>
    BY DEF Asking!CallTool
<1>2. MaxTools \in Nat /\ rTools \in 0..MaxTools /\ rTools' \in 1..MaxTools /\ rTools' > 0
    BY <1>1, Numbers DEF MessagesInv
<1>3. c \in Asking!Message /\ c = <<"call", rTools'>>
    BY <1>1, <1>2, Calls
<1>4. \A n : c # <<"result", n>>
    BY CallIsNotResult
<1> HIDE DEF c
<1>5. Balanced(rSeen', rWire)
    <2>1. Balanced(rSeen, rWire)
        BY DEF MessagesInv
    <2> QED
        BY <1>1, <1>4, <2>1 DEF Balanced
<1>6. Balanced({c}, rWire)
    BY <1>4 DEF Balanced
<1>7. rFinal' # None => Balanced(rFinal', rWire)
    <2>1. rFinal # None => Balanced(rFinal, rWire)
        BY DEF MessagesInv
    <2> QED
        BY <1>1, <1>6, <2>1
<1>8. Balanced(rState', rWire) /\ Asking!ResultsFollowCalls'
    BY <1>1 DEF MessagesInv, Asking!ResultsFollowCalls
<1>9. /\ rState' \subseteq Asking!Message /\ rSeen' \subseteq Asking!Message /\ rFinal' \in {None} \cup SUBSET Asking!Message
      /\ rWire' \in [Asking!Message -> Nat] /\ rTools' \in 0..MaxTools
    BY <1>1, <1>2, <1>3 DEF MessagesInv
<1>10. c \in rSeen'
    BY <1>1
<1> QED
    BY <1>1, <1>2, <1>3, <1>5, <1>7, <1>8, <1>9, <1>10 DEF MessagesInv, Balanced

LEMMA ToolAdds ==
    ASSUME Asking!ReactAssumption, MessagesInv, Asking!RunTool PROVE MessagesInv'
<1> DEFINE c == <<"call", rTools>>
           r == <<"result", rTools>>
           u == rWire'
<1>1. /\ rPc = "tool" /\ rPc' = "graph" /\ rSeen' = rSeen \cup {r} /\ UNCHANGED <<rState, rTools>>
      /\ IF rPath = "stream"
         THEN /\ u = [rWire EXCEPT ![c] = @ + 1, ![r] = @ + 1]
              /\ rFinal' \in {rFinal, {r}}
         ELSE UNCHANGED <<rWire, rFinal>>
    BY DEF Asking!RunTool
<1>2. MaxTools \in Nat /\ rTools \in 1..MaxTools /\ c \in rSeen
    BY <1>1, Numbers DEF MessagesInv
<1>3. c \in Asking!Message /\ r \in Asking!Message /\ c # r /\ rWire \in [Asking!Message -> Nat]
    BY <1>2, Calls, CallIsNotResult DEF MessagesInv
<1>4. ASSUME NEW n \in 1..MaxTools, <<"result", n>> = r PROVE <<"call", n>> = c
    BY <1>4, SamePair
<1>5. ASSUME NEW n \in 1..MaxTools PROVE <<"call", n>> \in Asking!Message /\ <<"result", n>> \in Asking!Message
    BY Calls
<1> HIDE DEF c, r, u
<1>6. /\ u \in [Asking!Message -> Nat] /\ \A m \in Asking!Message : rWire[m] <= u[m]
      /\ rPath = "stream" => u[c] > 0
      /\ \A m \in Asking!Message : u[m] > 0 => rWire[m] > 0 \/ (rPath = "stream" /\ m \in {c, r})
    <2>1. CASE rPath = "stream"
        <3>1. u = [rWire EXCEPT ![c] = @ + 1, ![r] = @ + 1]
            BY <1>1, <2>1
        <3>2. \A m \in Asking!Message : rWire[m] \in Nat /\ u[m] = IF m \in {c, r} THEN rWire[m] + 1 ELSE rWire[m]
            BY <1>3, <3>1
        <3>3. u \in [Asking!Message -> Nat]
            BY <1>3, <3>1
        <3> QED
            BY <1>3, <2>1, <3>2, <3>3
    <2>2. CASE rPath # "stream"
        <3>1. u = rWire
            BY <1>1, <2>2 DEF u
        <3>2. \A m \in Asking!Message : rWire[m] \in Nat
            BY <1>3
        <3> QED
            BY <1>3, <2>2, <3>1, <3>2
    <2> QED
        BY <2>1, <2>2
<1>7. Balanced(rState, u) /\ Balanced(rSeen, u) /\ (rFinal # None => Balanced(rFinal, u))
    BY <1>3, <1>6, StaysBalanced DEF MessagesInv
<1>8. Balanced(rSeen', u)
    <2> SUFFICES ASSUME NEW n \in 1..MaxTools, <<"result", n>> \in rSeen'
                 PROVE  <<"call", n>> \in rSeen' \/ u[<<"call", n>>] > 0
        BY DEF Balanced
    <2>1. CASE <<"result", n>> = r
        <3>1. <<"call", n>> = c
            BY <1>4, <2>1
        <3> QED
            BY <1>1, <1>2, <3>1
    <2>2. CASE <<"result", n>> # r
        <3>1. <<"result", n>> \in rSeen
            BY <1>1, <2>2
        <3> QED
            BY <1>1, <1>7, <3>1 DEF Balanced
    <2> QED
        BY <2>1, <2>2
<1>9. rFinal' # None => Balanced(rFinal', u)
    <2>1. CASE rFinal' = rFinal
        BY <1>7, <2>1
    <2>2. CASE rPath = "stream" /\ rFinal' = {r}
        <3>1. ASSUME NEW n \in 1..MaxTools, <<"result", n>> \in {r} PROVE u[<<"call", n>>] > 0
            <4>1. <<"call", n>> = c
                BY <1>4, <3>1
            <4> QED
                BY <1>6, <2>2, <4>1
        <3>2. Balanced({r}, u)
            BY <3>1 DEF Balanced
        <3> QED
            BY <2>2, <3>2
    <2> QED
        BY <1>1, <2>1, <2>2
<1>10. \A n \in 1..MaxTools : u[<<"result", n>>] > 0 => u[<<"call", n>>] > 0
    <2> SUFFICES ASSUME NEW n \in 1..MaxTools, u[<<"result", n>>] > 0 PROVE u[<<"call", n>>] > 0
        OBVIOUS
    <2>1. <<"call", n>> \in Asking!Message /\ <<"result", n>> \in Asking!Message
        BY <1>5
    <2>2. CASE <<"result", n>> = r /\ rPath = "stream"
        <3>1. <<"call", n>> = c
            BY <1>4, <2>2
        <3> QED
            BY <1>6, <2>2, <3>1
    <2>3. CASE ~(<<"result", n>> = r /\ rPath = "stream")
        <3>1. <<"result", n>> # c
            BY CallIsNotResult DEF c
        <3>2. rWire[<<"result", n>>] > 0
            BY <1>6, <2>1, <2>3, <3>1
        <3>3. rWire[<<"call", n>>] > 0
            BY <3>2 DEF MessagesInv, Asking!ResultsFollowCalls
        <3>4. rWire[<<"call", n>>] \in Nat /\ u[<<"call", n>>] \in Nat /\ rWire[<<"call", n>>] <= u[<<"call", n>>]
            BY <1>3, <1>6, <2>1
        <3> QED
            BY <3>3, <3>4
    <2> QED
        BY <2>2, <2>3
<1>11. Asking!ResultsFollowCalls'
    BY <1>10 DEF Asking!ResultsFollowCalls, u
<1>12. /\ rState' \subseteq Asking!Message /\ rSeen' \subseteq Asking!Message /\ rFinal' \in {None} \cup SUBSET Asking!Message
       /\ rTools' \in 0..MaxTools
    BY <1>1, <1>3 DEF MessagesInv
<1>13. Balanced(rState', rWire') /\ Balanced(rSeen', rWire') /\ (rFinal' # None => Balanced(rFinal', rWire')) /\ rWire' \in [Asking!Message -> Nat]
    BY <1>1, <1>6, <1>7, <1>8, <1>9 DEF u
<1> QED
    BY <1>1, <1>11, <1>12, <1>13 DEF MessagesInv, Balanced

LEMMA AnswerAdds ==
    ASSUME Asking!ReactAssumption, MessagesInv, NEW kind, Asking!Answer(kind) PROVE MessagesInv'
<1> DEFINE u == rWire'
<1>1. Asking!EmitSteps(rSeen) /\ UNCHANGED <<rState, rSeen, rFinal, rTools>> /\ rPc' = "done"
    BY DEF Asking!Answer, Asking!data
<1>2. CASE u = rWire
    BY <1>1, <1>2, MessagesStay
<1>3. CASE u = [m \in Asking!Message |-> IF m \in rSeen THEN rWire[m] + 1 ELSE rWire[m]]
    <2>1. rWire \in [Asking!Message -> Nat]
        BY DEF MessagesInv
    <2> HIDE DEF u
    <2>2. \A m \in Asking!Message : rWire[m] \in Nat /\ u[m] = IF m \in rSeen THEN rWire[m] + 1 ELSE rWire[m]
        BY <1>3, <2>1
    <2>3. u \in [Asking!Message -> Nat]
        BY <1>3, <2>1
    <2>4. \A m \in Asking!Message : rWire[m] <= u[m]
        BY <2>2
    <2>5. Balanced(rState, u) /\ Balanced(rSeen, u) /\ (rFinal # None => Balanced(rFinal, u))
        BY <2>1, <2>3, <2>4, StaysBalanced DEF MessagesInv
    <2>6. ASSUME NEW n \in 1..MaxTools, u[<<"result", n>>] > 0 PROVE u[<<"call", n>>] > 0
        <3>1. <<"call", n>> \in Asking!Message /\ <<"result", n>> \in Asking!Message
            BY Calls
        <3>2. CASE <<"result", n>> \in rSeen
            <4>1. <<"call", n>> \in rSeen \/ u[<<"call", n>>] > 0
                BY <2>5, <3>2 DEF Balanced
            <4> QED
                BY <2>2, <3>1, <4>1
        <3>3. CASE <<"result", n>> \notin rSeen
            <4>1. rWire[<<"result", n>>] > 0
                BY <2>2, <2>6, <3>1, <3>3
            <4>2. rWire[<<"call", n>>] > 0
                BY <4>1 DEF MessagesInv, Asking!ResultsFollowCalls
            <4> QED
                BY <2>2, <3>1, <4>2
        <3> QED
            BY <3>2, <3>3
    <2>7. Asking!ResultsFollowCalls'
        BY <2>6 DEF Asking!ResultsFollowCalls, u
    <2>8. /\ rState' \subseteq Asking!Message /\ rSeen' \subseteq Asking!Message /\ rFinal' \in {None} \cup SUBSET Asking!Message
          /\ rTools' \in 0..MaxTools /\ rWire' \in [Asking!Message -> Nat]
        BY <1>1, <2>3 DEF MessagesInv, u
    <2>9. Balanced(rState', rWire') /\ Balanced(rSeen', rWire') /\ (rFinal' # None => Balanced(rFinal', rWire'))
        BY <1>1, <2>5 DEF u
    <2> QED
        BY <1>1, <2>7, <2>8, <2>9 DEF MessagesInv, Balanced
<1> QED
    BY <1>1, <1>2, <1>3 DEF Asking!EmitSteps

ReactInv == LoopInv /\ MessagesInv /\ Asking!SuccessIsAnswered /\ rSize \in Nat

(* A retry of the step does not grow the request.                          *)
Shrinks == rPc = "graph" /\ rPc' = "next" /\ rCause' # "stray" => rSize' <= rSize
Answered == {"text", "empty", "stray", "abort"}

(* The turn is over.                                                       *)
LEMMA Ends ==
    ASSUME Asking!ReactAssumption, ReactInv, ~TurnOver, UNCHANGED <<rSetup, rPath, rAttempt, Asking!budgets, Asking!data, rWire, rTools, rTurns, rAsked>>,
           rPc' \in {"done", "raised"}, rPc' = "done" => (rResult'.success => rCause' \in Answered)
    PROVE  ReactInv' /\ Shrinks
<1>1. LoopInv'
    <2>1. rStray' \in 0..StrayRetries /\ rAgain' \in 0..1
        BY DEF ReactInv, LoopInv, LoopTypes, Asking!budgets
    <2> QED
        BY <2>1, BudgetsStay DEF ReactInv, Phases, Asking!budgets
<1>2. MessagesInv'
    BY MessagesStay DEF ReactInv, Asking!data
<1>3. Asking!SuccessIsAnswered'
    BY DEF Asking!SuccessIsAnswered, Answered
<1> QED
    BY <1>1, <1>2, <1>3 DEF ReactInv, Shrinks, Asking!data

(* The loop comes round again, with no budget touched but transport.       *)
LEMMA ComesAgain ==
    ASSUME Asking!ReactAssumption, ReactInv, ~TurnOver, rPath # "stream",
           UNCHANGED <<rSetup, rPath, rAttempt, rLimit, rRounds, rSilent, rAgain, rTurns, rAsked, rWire, rTools, rSeen, rFinal>>,
           rPc' = "next", rStray' \in 0..StrayRetries, rState' \in {rState, rSeen}, rSize' \in Nat,
           rCause' # "stray" => rSize' <= rSize
    PROVE  ReactInv' /\ Shrinks
<1>1. LoopInv'
    <2>1. rAgain' \in 0..1
        BY DEF ReactInv, LoopInv, LoopTypes
    <2> QED
        BY <2>1, BudgetsStay DEF ReactInv, Phases
<1>2. MessagesInv'
    BY MessagesStay DEF ReactInv
<1>3. Asking!SuccessIsAnswered'
    BY DEF Asking!SuccessIsAnswered
<1> QED
    BY <1>1, <1>2, <1>3 DEF ReactInv, Shrinks

(* The running graph goes on.                                              *)
LEMMA GraphGoesOn ==
    ASSUME Asking!ReactAssumption, ReactInv, ~TurnOver, UNCHANGED <<rSetup, rPath, rAttempt, Asking!budgets, rSize, rTurns, rAsked>>,
           rPc' \in {"graph", "approval", "tool"}, MessagesInv'
    PROVE  ReactInv' /\ Shrinks
<1>1. LoopInv'
    <2>1. rStray' \in 0..StrayRetries /\ rAgain' \in 0..1
        BY DEF ReactInv, LoopInv, LoopTypes, Asking!budgets
    <2> QED
        BY <2>1, BudgetsStay DEF ReactInv, Phases, Asking!budgets
<1>2. Asking!SuccessIsAnswered'
    BY DEF Asking!SuccessIsAnswered
<1> QED
    BY <1>1, <1>2 DEF ReactInv, Shrinks

LEMMA StartKeeps ==
    ASSUME Asking!ReactAssumption, ReactInv, UNCHANGED rSetup, Asking!Start PROVE ReactInv' /\ Shrinks
<1>1. LoopInv'
    BY StartsMore DEF ReactInv
<1>2. MessagesInv'
    BY MessagesStay DEF ReactInv, Asking!Start
<1> QED
    BY <1>1, <1>2 DEF ReactInv, Asking!Start, Asking!SuccessIsAnswered, Shrinks

LEMMA FailEnds ==
    ASSUME Asking!ReactAssumption, ReactInv, ~TurnOver, NEW class, Asking!Fail(class) \/ Asking!Return(FALSE, class, FALSE),
           UNCHANGED <<rSetup, rTools, rTurns, rAsked>>
    PROVE  ReactInv' /\ Shrinks
<1>1. rPc' = "done" /\ rResult'.success = FALSE /\ UNCHANGED <<rPath, rAttempt, Asking!budgets, Asking!data, rWire>>
    BY DEF Asking!Fail, Asking!Return
<1> QED
    BY <1>1, Ends

LEMMA ExhaustedKeeps ==
    ASSUME Asking!ReactAssumption, ReactInv, UNCHANGED rSetup, Asking!Exhausted PROVE ReactInv' /\ Shrinks
BY FailEnds DEF Asking!Exhausted, TurnOver

LEMMA CallToolKeeps ==
    ASSUME Asking!ReactAssumption, ReactInv, UNCHANGED rSetup, Asking!CallTool PROVE ReactInv' /\ Shrinks
<1>1. MessagesInv'
    BY CallAdds DEF ReactInv
<1>2. rPc = "graph" /\ rPc' \in {"graph", "approval", "tool"} /\ UNCHANGED <<rPath, rAttempt, Asking!budgets, rSize, rTurns, rAsked>>
    BY DEF Asking!CallTool
<1> QED
    BY <1>1, <1>2, GraphGoesOn DEF TurnOver

LEMMA ApproveKeeps ==
    ASSUME Asking!ReactAssumption, ReactInv, UNCHANGED rSetup, Asking!Approve PROVE ReactInv' /\ Shrinks
<1>1. /\ rPc = "approval" /\ rPc' = "tool"
      /\ UNCHANGED <<rPath, rAttempt, Asking!budgets, rSize, rTurns, rAsked, rState, rSeen, rFinal, rWire, rTools>>
    BY DEF Asking!Approve, Asking!data
<1>2. MessagesInv'
    BY <1>1 DEF ReactInv, MessagesInv, Balanced, Asking!ResultsFollowCalls
<1> QED
    BY <1>1, <1>2, GraphGoesOn DEF TurnOver

LEMMA RunToolKeeps ==
    ASSUME Asking!ReactAssumption, ReactInv, UNCHANGED rSetup, Asking!RunTool PROVE ReactInv' /\ Shrinks
<1>1. MessagesInv'
    BY ToolAdds DEF ReactInv
<1>2. rPc = "tool" /\ rPc' \in {"graph", "approval", "tool"} /\ UNCHANGED <<rPath, rAttempt, Asking!budgets, rSize, rTurns, rAsked>>
    BY DEF Asking!RunTool
<1> QED
    BY <1>1, <1>2, GraphGoesOn DEF TurnOver

LEMMA AnswerKeeps ==
    ASSUME Asking!ReactAssumption, ReactInv, UNCHANGED rSetup, NEW kind \in {"text", "empty", "stray"}, Asking!Answer(kind)
    PROVE  ReactInv' /\ Shrinks
<1>1. rPc = "graph" /\ rPc' = "done" /\ rCause' = kind /\ UNCHANGED <<rPath, rAttempt, Asking!budgets, Asking!data, rTools, rTurns, rAsked>>
    BY DEF Asking!Answer
<1>2. LoopInv'
    <2>1. rStray' \in 0..StrayRetries /\ rAgain' \in 0..1
        BY <1>1 DEF ReactInv, LoopInv, LoopTypes, Asking!budgets
    <2> QED
        BY <1>1, <2>1, BudgetsStay DEF ReactInv, Phases, Asking!budgets, TurnOver
<1>3. MessagesInv'
    BY AnswerAdds DEF ReactInv
<1> QED
    BY <1>1, <1>2, <1>3 DEF ReactInv, Asking!SuccessIsAnswered, Shrinks, Asking!data

LEMMA NudgeKeeps ==
    ASSUME Asking!ReactAssumption, ReactInv, UNCHANGED rSetup, Asking!NudgeStray PROVE ReactInv' /\ Shrinks
<1>1. /\ rPc = "graph" /\ rPath # "stream" /\ rCause' = "stray" /\ rPc' = "next" /\ rStray > 0 /\ rStray' = rStray - 1
      /\ rState' = rSeen /\ rSize' \in {rSize, Asking!Least(rSize + 1, MaxSize)}
      /\ UNCHANGED <<rPath, rAttempt, rLimit, rRounds, rSilent, rAgain, rTurns, rAsked, rWire, rTools, rSeen, rFinal>>
    BY DEF Asking!NudgeStray
<1>2. rSize' \in Nat
    BY <1>1, Numbers DEF ReactInv, Asking!Least
<1>3. rStray' \in 0..StrayRetries
    BY <1>1, Numbers DEF ReactInv, LoopInv, LoopTypes
<1> QED
    BY <1>1, <1>2, <1>3, ComesAgain DEF TurnOver

LEMMA StreamAnswerKeeps ==
    ASSUME Asking!ReactAssumption, ReactInv, UNCHANGED rSetup, NEW kind \in {"text", "empty", "stray"}, Asking!StreamAnswer(kind)
    PROVE  ReactInv' /\ Shrinks
<1>1. rPc \in {"graph", "stray"} /\ rPath = "stream" /\ rCause' = kind
    BY DEF Asking!StreamAnswer
<1>2. CASE kind = "stray" /\ rStray > 0
    <2>1. /\ rPc' = "stray" /\ rStray' = rStray - 1 /\ rTurns' = rTurns + 1 /\ rFinal' = rSeen
          /\ UNCHANGED <<rPath, rAttempt, rLimit, rRounds, rSilent, rAgain, rSize, rState, rSeen, rWire, rTools, rAsked>>
        BY <1>2 DEF Asking!StreamAnswer
    <2>2. LoopInv'
        BY <1>1, <1>2, <2>1, StrayAgain DEF ReactInv
    <2>3. MessagesInv'
        BY <2>1, MessagesStay DEF ReactInv
    <2> QED
        BY <2>1, <2>2, <2>3 DEF ReactInv, Asking!SuccessIsAnswered, Shrinks
<1>3. CASE ~(kind = "stray" /\ rStray > 0)
    <2>1. Asking!Return(kind = "text", IF kind = "text" THEN kind ELSE "tool_error", FALSE) /\ UNCHANGED <<rTools, rTurns, rAsked>>
        BY <1>3 DEF Asking!StreamAnswer
    <2>2. rPc' = "done" /\ UNCHANGED <<rPath, rAttempt, Asking!budgets, Asking!data, rWire>>
        BY <2>1 DEF Asking!Return
    <2> QED
        BY <1>1, <2>1, <2>2, Ends DEF TurnOver, Answered
<1> QED
    BY <1>2, <1>3

LEMMA AbortKeeps ==
    ASSUME Asking!ReactAssumption, ReactInv, UNCHANGED rSetup, Asking!Abort PROVE ReactInv' /\ Shrinks
<1>1. /\ rPc \in {"approval", "stray"} /\ rCause' = "abort" /\ UNCHANGED <<rTools, rTurns, rAsked>>
      /\ Asking!Fail("execution") \/ Asking!Return(TRUE, "aborted", FALSE)
    BY DEF Asking!Abort
<1>2. rPc' = "done" /\ UNCHANGED <<rPath, rAttempt, Asking!budgets, Asking!data, rWire>>
    BY <1>1 DEF Asking!Fail, Asking!Return
<1> QED
    BY <1>1, <1>2, Ends DEF TurnOver, Answered

LEMMA TimeoutKeeps ==
    ASSUME Asking!ReactAssumption, ReactInv, UNCHANGED rSetup, Asking!Timeout PROVE ReactInv' /\ Shrinks
<1>1. rPc \in {"graph", "approval", "tool", "stray"} /\ UNCHANGED <<rTools, rTurns, rAsked>>
    BY DEF Asking!Timeout
<1>2. CASE rPath = "direct"
    <2>1. rPc' = "raised" /\ UNCHANGED <<rPath, rAttempt, Asking!budgets, Asking!data, rWire, rResult>>
        BY <1>2 DEF Asking!Timeout
    <2> QED
        BY <1>1, <2>1, Ends DEF TurnOver
<1>3. CASE rPath # "direct"
    <2>1. Asking!Fail("timeout")
        BY <1>3 DEF Asking!Timeout
    <2> QED
        BY <1>1, <2>1, FailEnds DEF TurnOver
<1> QED
    BY <1>2, <1>3

LEMMA AskUserKeeps ==
    ASSUME Asking!ReactAssumption, ReactInv, rPc = "graph", rPath \in {"ainvoke", "hitl"}, Asking!AskUser(Asking!Limit(rPath)),
           rPath = "hitl" => rSilent > AutoRetries, UNCHANGED <<rSetup, rTurns, rTools>>
    PROVE  ReactInv' /\ Shrinks
<1>1. LoopInv'
    BY AsksUser DEF ReactInv
<1>2. /\ UNCHANGED <<rSize, rState, rSeen, rFinal, rWire>>
      /\ rPc' = "next" \/ (rPc' = "done" /\ rResult'.success = FALSE)
    BY DEF Asking!AskUser, Asking!Again, Asking!data
<1>3. MessagesInv'
    BY <1>2, MessagesStay DEF ReactInv
<1> QED
    BY <1>1, <1>2, <1>3 DEF ReactInv, Asking!SuccessIsAnswered, Shrinks

(* The same request is sent again, or a smaller one.                       *)
LEMMA AgainKeeps ==
    ASSUME Asking!ReactAssumption, ReactInv, rPc = "graph", rPath # "stream", NEW n \in {rSize} \cup Asking!Smaller, Asking!Again(rState, n),
           UNCHANGED <<rSetup, rLimit, rStray, rRounds, rSilent, rAgain, rTurns, rTools, rAsked>>
    PROVE  ReactInv' /\ Shrinks
<1>1. rSize \in Nat /\ n \in Nat /\ n <= rSize
    BY DEF ReactInv, Asking!Smaller
<1>2. rPc' = "next" /\ rState' = rState /\ rSize' = n /\ UNCHANGED <<rPath, rSeen, rFinal, rWire, rAttempt>>
    BY DEF Asking!Again
<1>3. rStray' \in 0..StrayRetries
    BY DEF ReactInv, LoopInv, LoopTypes
<1> QED
    BY <1>1, <1>2, <1>3, ComesAgain DEF TurnOver

LEMMA FailHitlKeeps ==
    ASSUME Asking!ReactAssumption, ReactInv, UNCHANGED rSetup, NEW e \in Asking!Errors, Asking!FailHitl(e) PROVE ReactInv' /\ Shrinks
<1>1. rPath = "hitl" /\ rPc = "graph" /\ rCause' = e /\ UNCHANGED <<rTools, rTurns>> /\ rPath \in Ways
    BY DEF Asking!FailHitl, Asking!Raised, Ways
<1>2. AutoRetries \in Nat /\ rSilent \in Nat /\ (rSilent <= AutoRetries \/ rSilent > AutoRetries)
    BY Numbers DEF ReactInv, LoopInv, LoopTypes
<1>3. Asking!Limit(rPath) = Asking!Batch
    BY <1>1, Limits
<1> DEFINE retry == e = "tool_use_failed" /\ rSilent <= AutoRetries
           ask == e = "tool_use_failed" /\ rSilent > AutoRetries /\ rSetup.user /\ rRounds > 0
<1>4. ~(retry /\ ask)
    BY <1>2
<1>5. CASE retry
    <2>1. Asking!Again(rState, rSize) /\ UNCHANGED <<Asking!budgets, rAsked>>
        BY <1>4, <1>5 DEF Asking!FailHitl
    <2>2. UNCHANGED <<rLimit, rStray, rRounds, rSilent, rAgain>>
        BY <2>1 DEF Asking!budgets
    <2> QED
        BY <1>1, <2>1, <2>2, AgainKeeps
<1>6. CASE ask
    <2>1. Asking!AskUser(Asking!Batch)
        BY <1>4, <1>6 DEF Asking!FailHitl
    <2> QED
        BY <1>1, <1>3, <1>6, <2>1, AskUserKeeps
<1>7. CASE ~retry /\ ~ask
    <2>1. Asking!Fail(IF e = "recursion" THEN e ELSE "execution") /\ UNCHANGED rAsked
        BY <1>7 DEF Asking!FailHitl
    <2> QED
        BY <1>1, <2>1, FailEnds DEF TurnOver
<1> QED
    BY <1>5, <1>6, <1>7

LEMMA FailAinvokeKeeps ==
    ASSUME Asking!ReactAssumption, ReactInv, UNCHANGED rSetup, NEW e \in Asking!Errors, Asking!FailAinvoke(e) PROVE ReactInv' /\ Shrinks
<1>1. rPath = "ainvoke" /\ rPc = "graph" /\ rCause' = e /\ UNCHANGED <<rTools, rTurns>> /\ rPath \in Ways
    BY DEF Asking!FailAinvoke, Asking!Raised, Ways
<1>2. Asking!Limit(rPath) = Retries
    BY <1>1, Limits
<1>3. CASE Asking!Again(rState, rSize) /\ UNCHANGED <<Asking!budgets, rAsked>>
    <2>1. UNCHANGED <<rLimit, rStray, rRounds, rSilent, rAgain>>
        BY <1>3 DEF Asking!budgets
    <2> QED
        BY <1>1, <1>3, <2>1, AgainKeeps
<1>4. CASE (\E n \in Asking!Smaller : Asking!Again(rState, n)) /\ UNCHANGED <<Asking!budgets, rAsked>>
    <2>1. UNCHANGED <<rLimit, rStray, rRounds, rSilent, rAgain>>
        BY <1>4 DEF Asking!budgets
    <2>2. PICK n \in Asking!Smaller : Asking!Again(rState, n)
        BY <1>4
    <2> QED
        BY <1>1, <1>4, <2>1, <2>2, AgainKeeps
<1>5. CASE Asking!AskUser(Retries)
    BY <1>1, <1>2, <1>5, AskUserKeeps
<1>6. CASE /\ rTransport' = rTransport + 1
           /\ \E n \in {rSize} \cup (IF Asking!Oversized THEN Asking!Smaller ELSE {}) : Asking!Again(rState, n)
           /\ UNCHANGED <<rLimit, rStray, rRounds, rSilent, rAgain, rAsked>>
    <2>1. PICK n \in {rSize} \cup (IF Asking!Oversized THEN Asking!Smaller ELSE {}) : Asking!Again(rState, n)
        BY <1>6
    <2>2. n \in {rSize} \cup Asking!Smaller
        OBVIOUS
    <2> QED
        BY <1>1, <1>6, <2>1, <2>2, AgainKeeps
<1>7. CASE Asking!Fail(IF e \in {"recursion", "transport"} THEN e ELSE "execution") /\ UNCHANGED rAsked
    BY <1>1, <1>7, FailEnds DEF TurnOver
<1>8. CASE Asking!Return(FALSE, "context", FALSE) /\ UNCHANGED rAsked
    BY <1>1, <1>8, FailEnds DEF TurnOver
<1> QED
    BY <1>3, <1>4, <1>5, <1>6, <1>7, <1>8 DEF Asking!FailAinvoke

LEMMA FailDirectKeeps ==
    ASSUME Asking!ReactAssumption, ReactInv, UNCHANGED rSetup, NEW e \in Asking!Errors, Asking!FailDirect(e) PROVE ReactInv' /\ Shrinks
<1>1. rPath = "direct" /\ rPc = "graph" /\ rCause' = e /\ UNCHANGED <<rTools, rTurns, rAsked>>
    BY DEF Asking!FailDirect, Asking!Raised
<1>2. CASE /\ rTransport' = rTransport + 1
           /\ \E n \in {rSize} \cup (IF Asking!Oversized THEN Asking!Smaller ELSE {}) : Asking!Again(rState, n)
           /\ UNCHANGED <<rLimit, rStray, rRounds, rSilent, rAgain>>
    <2>1. PICK n \in {rSize} \cup (IF Asking!Oversized THEN Asking!Smaller ELSE {}) : Asking!Again(rState, n)
        BY <1>2
    <2>2. n \in {rSize} \cup Asking!Smaller
        OBVIOUS
    <2> QED
        BY <1>1, <1>2, <2>1, <2>2, AgainKeeps
<1>3. CASE Asking!Fail("transport")
    BY <1>1, <1>3, FailEnds DEF TurnOver
<1>4. CASE rPc' = "raised" /\ UNCHANGED <<rPath, rAttempt, Asking!budgets, Asking!data, rWire, rResult>>
    BY <1>1, <1>4, Ends DEF TurnOver
<1> QED
    BY <1>2, <1>3, <1>4 DEF Asking!FailDirect

LEMMA FailStreamKeeps ==
    ASSUME Asking!ReactAssumption, ReactInv, UNCHANGED rSetup, NEW e \in Asking!Errors, Asking!FailStream(e) PROVE ReactInv' /\ Shrinks
<1>1. rPath = "stream" /\ rPc \in {"graph", "stray"} /\ rCause' = e /\ UNCHANGED <<rTools, rTurns, rAsked>>
    BY DEF Asking!FailStream
<1>2. CASE Asking!Fail("recursion") \/ Asking!Return(FALSE, "context", FALSE) \/ Asking!Return(FALSE, "transport", FALSE)
    BY <1>1, <1>2, FailEnds DEF TurnOver
<1>3. CASE /\ rAgain > 0 /\ rAgain' = rAgain - 1
           /\ \E n \in IF Asking!Oversized THEN Asking!Smaller ELSE {rSize} : Asking!Again(IF rFinal # None THEN rFinal ELSE rState, n)
           /\ UNCHANGED <<rLimit, rStray, rTransport, rRounds, rSilent>>
    <2>1. PICK n \in IF Asking!Oversized THEN Asking!Smaller ELSE {rSize} : Asking!Again(IF rFinal # None THEN rFinal ELSE rState, n)
        BY <1>3
    <2>2. n \in Nat /\ n <= rSize
        BY DEF ReactInv, Asking!Smaller
    <2>3. /\ rPc' = "next" /\ rSize' = n /\ UNCHANGED <<rPath, rSeen, rFinal, rWire, rAttempt>>
          /\ rState' = IF rFinal # None THEN rFinal ELSE rState
        BY <2>1 DEF Asking!Again
    <2>4. LoopInv'
        BY <1>1, <1>3, <2>3, StreamAgain DEF ReactInv
    <2>5. MessagesInv'
        BY <1>1, <2>3, MessagesStay DEF ReactInv
    <2> QED
        BY <2>2, <2>3, <2>4, <2>5 DEF ReactInv, Asking!SuccessIsAnswered, Shrinks
<1>4. CASE \E n \in {rSize} \cup (IF e = "context_window" THEN Asking!Smaller ELSE {}) : Asking!Fallback(n)
    <2>1. PICK n \in {rSize} \cup (IF e = "context_window" THEN Asking!Smaller ELSE {}) : Asking!Fallback(n)
        BY <1>4
    <2>2. n \in Nat /\ n <= rSize
        BY DEF ReactInv, Asking!Smaller
    <2>3. /\ rPc' = "next" /\ rSize' = n /\ UNCHANGED <<rSeen, rFinal, rWire>>
          /\ rState' = IF rFinal = None THEN {} ELSE rFinal
        BY <2>1 DEF Asking!Fallback
    <2>4. LoopInv'
        BY <1>1, <2>1, FallsBack DEF ReactInv
    <2>5. MessagesInv'
        BY <1>1, <2>3, MessagesStay DEF ReactInv
    <2> QED
        BY <2>2, <2>3, <2>4, <2>5 DEF ReactInv, Asking!SuccessIsAnswered, Shrinks
<1> QED
    BY <1>2, <1>3, <1>4 DEF Asking!FailStream

LEMMA ReactStarts ==
    ASSUME Asking!ReactAssumption, Asking!Init PROVE ReactInv
<1>1. rSetup \in ReactSetups /\ rPath = rSetup.start /\ rPath \in Ways
    BY DEF Asking!Init, Asking!ReactAssumption, Ways
<1>2. LoopTypes
    BY <1>1, Numbers, Limits DEF Asking!Init, LoopTypes, Phases
<1>3. AttemptsInv
    <2>1. Asking!Limit(rPath) \in Nat /\ Asking!Limit(rPath) <= Cap /\ 1 + UserRounds - rRounds = 1
        BY <1>1, Numbers, Limits DEF Asking!Init
    <2>2. Allowed(rPath, rRounds) = Asking!Limit(rPath) * 1
        BY <2>1 DEF Allowed
    <2>3. Allowed(rPath, rRounds) = Asking!Limit(rPath)
        BY <2>1, <2>2, Times
    <2> QED
        BY <2>1, <2>3 DEF Asking!Init, AttemptsInv
<1>4. StreamInv /\ TurnsInv
    BY <1>1, <1>2, Numbers, Products DEF Asking!Init, StreamInv, TurnsInv, Coming
<1>5. AskedInv
    <2>1. Paid(rAsked) = 0
        <3>1. Asking!Batch \in Nat
            BY Numbers
        <3> QED
            BY <3>1 DEF Asking!Init, Paid
    <2> QED
        BY <2>1 DEF Asking!Init, AskedInv, Waiting, TurnOver
<1>6. MessagesInv
    BY Numbers, Calls DEF Asking!Init, MessagesInv, Balanced, Asking!ResultsFollowCalls
<1>7. rSize \in Nat /\ Asking!SuccessIsAnswered
    BY Numbers DEF Asking!Init, Asking!SuccessIsAnswered
<1> QED
    BY <1>2, <1>3, <1>4, <1>5, <1>6, <1>7 DEF ReactInv, LoopInv

LEMMA ReactMoves ==
    ASSUME Asking!ReactAssumption, ReactInv, Asking!Next PROVE ReactInv' /\ Shrinks
<1>1. rSetup' = rSetup
    BY DEF Asking!Next
<1>2. CASE \E kind \in {"text", "empty", "stray"} : Asking!Answer(kind) \/ Asking!StreamAnswer(kind)
    BY <1>1, <1>2, AnswerKeeps, StreamAnswerKeeps
<1>3. CASE \E e \in Asking!Errors : Asking!FailHitl(e) \/ Asking!FailAinvoke(e) \/ Asking!FailDirect(e) \/ Asking!FailStream(e)
    BY <1>1, <1>3, FailHitlKeeps, FailAinvokeKeeps, FailDirectKeeps, FailStreamKeeps
<1>4. CASE Asking!Start \/ Asking!Exhausted \/ Asking!CallTool \/ Asking!Approve \/ Asking!RunTool \/ Asking!NudgeStray \/ Asking!Abort \/ Asking!Timeout
    BY <1>1, <1>4, StartKeeps, ExhaustedKeeps, CallToolKeeps, ApproveKeeps, RunToolKeeps, NudgeKeeps,
       AbortKeeps, TimeoutKeeps
<1> QED
    BY <1>2, <1>3, <1>4 DEF Asking!Next, Asking!Loop

LEMMA ReactStays ==
    ASSUME Asking!ReactAssumption, ReactInv, [Asking!Next]_Asking!vars PROVE ReactInv' /\ (Asking!Next => Shrinks)
<1>1. CASE UNCHANGED Asking!vars
    <2>1. UNCHANGED <<rSetup, rPc, rPath, rAttempt, rLimit, rStray, rRounds, rSilent, rAgain, rSize, rState, rSeen, rFinal, rWire,
                      rResult, rTools, rTurns, rAsked, rCause>>
        BY <1>1 DEF Asking!vars, Asking!budgets, Asking!data
    <2>2. LoopInv'
        BY <2>1 DEF ReactInv, LoopInv, LoopTypes, AttemptsInv, StreamInv, TurnsInv, AskedInv, Allowed, Asking!Limit, Asking!Batch,
                    Paid, Coming, Waiting, TurnOver, Streamed
    <2>3. MessagesInv'
        BY <2>1 DEF ReactInv, MessagesInv, Balanced, Asking!ResultsFollowCalls
    <2>4. rSize' \in Nat /\ Asking!SuccessIsAnswered'
        BY <2>1 DEF ReactInv, Asking!SuccessIsAnswered
    <2>5. Shrinks
        BY <2>1 DEF Shrinks
    <2> QED
        BY <2>2, <2>3, <2>4, <2>5 DEF ReactInv
<1> QED
    BY <1>1, ReactMoves

LEMMA ReactTells ==
    ASSUME Asking!ReactAssumption, ReactInv
    PROVE  Asking!LoopIsBounded /\ Asking!ResultsFollowCalls /\ Asking!AskedLast /\ Asking!SuccessIsAnswered
<1>1. LoopTypes /\ AttemptsInv /\ StreamInv /\ TurnsInv /\ AskedInv
    BY DEF ReactInv, LoopInv
<1>2. Streamed \in Nat /\ rAttempt \in Nat /\ rLimit \in Nat /\ rTurns \in Nat /\ Asking!Limit(rPath) \in Nat /\ Asking!Limit(rPath) <= Cap
    BY <1>1, Products, Limits DEF LoopTypes
<1>3. rTurns <= Streamed + Cap
    <2>1. CASE rPath = "stream"
        <3>1. Coming \in 0..1
            BY DEF Coming
        <3> QED
            BY <1>1, <1>2, <2>1, <3>1, Numbers DEF StreamInv, Streamed, LoopTypes
    <2>2. CASE rPath # "stream"
        BY <1>1, <1>2, <2>2, Numbers DEF TurnsInv, AttemptsInv
    <2> QED
        BY <2>1, <2>2
<1>4. rAttempt <= Asking!Least(Cap, Asking!Limit(rPath) * (1 + UserRounds))
    <2> DEFINE l == Asking!Limit(rPath)
               r == 1 + UserRounds - rRounds
               m == 1 + UserRounds
    <2>1. r \in Nat /\ m \in Nat /\ r <= m
        BY <1>1, Numbers DEF LoopTypes
    <2>2. rLimit <= l * r
        BY <1>1 DEF AttemptsInv, Allowed
    <2> HIDE DEF l, r, m
    <2>3. l * r <= l * m /\ l * r \in Nat /\ l * m \in Nat
        <3>1. l \in Nat
            BY <1>2 DEF l
        <3>2. l * r <= l * m
            BY <2>1, <3>1, Grows
        <3> QED
            BY <2>1, <3>1, <3>2
    <2>4. rAttempt <= Cap /\ rAttempt <= l * m
        BY <1>1, <1>2, <2>2, <2>3, Numbers DEF AttemptsInv
    <2> QED
        BY <2>4 DEF Asking!Least, l, m
<1>5. Asking!AskedLast
    <2>1. CASE rPath = "hitl"
        <3>1. Paid(rAsked) \in Nat /\ Waiting \in Nat /\ Paid(rAsked) = rAsked * Asking!Batch
            BY <1>1, Products DEF Waiting, LoopTypes, Paid
        <3>2. Paid(rAsked) <= rAttempt
            BY <1>1, <1>2, <2>1, <3>1 DEF AskedInv
        <3> QED
            BY <3>1, <3>2 DEF Asking!AskedLast
    <2>2. CASE rPath # "hitl"
        BY <2>2 DEF Asking!AskedLast
    <2> QED
        BY <2>1, <2>2
<1> QED
    BY <1>3, <1>4, <1>5 DEF Asking!LoopIsBounded, Streamed, ReactInv, MessagesInv

\* A ReAct turn is bounded by its budgets, shows no result without its call, asks after
\* the automatic retries, succeeds only with an answer or an abort, and a retry is not
\* larger than what failed (handle_react and its loops).
THEOREM ReactHolds ==
    Asking!ReactAssumption /\ Asking!Spec => [](Asking!LoopIsBounded /\ Asking!ResultsFollowCalls /\ Asking!AskedLast /\ Asking!SuccessIsAnswered) /\ Asking!RetriesDoNotGrow
<1> SUFFICES ASSUME Asking!ReactAssumption
             PROVE  Asking!Spec => [](Asking!LoopIsBounded /\ Asking!ResultsFollowCalls /\ Asking!AskedLast /\ Asking!SuccessIsAnswered) /\ Asking!RetriesDoNotGrow
    OBVIOUS
<1>1. Asking!Init => ReactInv
    BY ReactStarts
<1>2. ReactInv /\ [Asking!Next]_Asking!vars => ReactInv'
    BY ReactStays
<1>3. ReactInv => Asking!LoopIsBounded /\ Asking!ResultsFollowCalls /\ Asking!AskedLast /\ Asking!SuccessIsAnswered
    BY ReactTells
<1>4. ReactInv /\ [Asking!Next]_Asking!vars => [rPc = "graph" /\ rPc' = "next" /\ rCause' # "stray" => rSize' <= rSize]_Asking!vars
    BY ReactStays DEF Shrinks
<1> QED
    BY <1>1, <1>2, <1>3, <1>4, PTL DEF Asking!Spec, Asking!RetriesDoNotGrow

-------------------------------------------------------------------------------
(* Handoffs: the stack of a call and the locks of its agents.                *)

Outs == {"idle", "running", "raising", "answered", "raised", "ValueError"}
Places == {"want", "plan", "own", "handed_off", "asking", "returned"}
HandT == [agent : Handing, at : Places, asks : Nat]

\* A turn of the stack holds the lock of the agent.
Held(s, a) == \E i \in 1..Len(s) : s[i].agent = a /\ s[i].at # "want"
\* Every turn below the top waits; no agent is held twice.
Shape(s) ==
    /\ \A i \in 1..(Len(s) - 1) : s[i].at \in {"handed_off", "asking"}
    /\ \A i, j \in 1..Len(s) : i # j /\ s[i].at # "want" /\ s[j].at # "want" => s[i].agent # s[j].agent

HandTypes ==
    /\ hStack \in [Callers -> Seq(HandT)] /\ hLock \in [Handing -> Callers \cup {None}]
    /\ hCall \in [Callers -> [out : Outs]]

HandInv ==
    /\ HandTypes
    /\ \A c \in Callers : Shape(hStack[c]) /\ (hCall[c].out \notin {"running", "raising"} => hStack[c] = <<>>)
    /\ \A c \in Callers, a \in Handing : hLock[a] = c <=> Held(hStack[c], a)

LEMMA OneMoves ==
    ASSUME HandInv, HandTypes', NEW c \in Callers,
           \A d \in Callers \ {c} : hStack'[d] = hStack[d] /\ hCall'[d] = hCall[d],
           \A d \in Callers \ {c}, a \in Handing : hLock'[a] = d <=> hLock[a] = d,
           Shape(hStack'[c]), hCall'[c].out \notin {"running", "raising"} => hStack'[c] = <<>>,
           \A a \in Handing : hLock'[a] = c <=> Held(hStack'[c], a)
    PROVE  HandInv'
<1>1. ASSUME NEW d \in Callers
      PROVE  Shape(hStack'[d]) /\ (hCall'[d].out \notin {"running", "raising"} => hStack'[d] = <<>>)
    <2>1. CASE d = c
        BY <2>1
    <2>2. CASE d # c
        BY <2>2 DEF HandInv
    <2> QED
        BY <2>1, <2>2
<1>2. ASSUME NEW d \in Callers, NEW a \in Handing PROVE hLock'[a] = d <=> Held(hStack'[d], a)
    <2>1. CASE d = c
        BY <2>1
    <2>2. CASE d # c
        BY <2>2 DEF HandInv
    <2> QED
        BY <2>1, <2>2
<1> QED
    BY <1>1, <1>2 DEF HandInv

LEMMA TopIs ==
    ASSUME HandInv, NEW c \in Callers, hStack[c] # <<>>
    PROVE  /\ hStack[c] \in Seq(HandT) /\ Len(hStack[c]) \in Nat \ {0} /\ Hand!Top(c) = hStack[c][Len(hStack[c])]
           /\ Hand!Top(c) \in HandT /\ Hand!Top(c).agent \in Handing /\ Hand!Top(c).at \in Places
           /\ hCall[c].out \in {"running", "raising"}
           /\ Shape(hStack[c])
<1>1. hStack[c] \in Seq(HandT) /\ Shape(hStack[c]) /\ hCall[c].out \in {"running", "raising"}
    BY DEF HandInv, HandTypes
<1>2. Len(hStack[c]) \in Nat \ {0} /\ hStack[c][Len(hStack[c])] \in HandT
    BY <1>1
<1>3. \A t \in HandT : t.agent \in Handing /\ t.at \in Places
    BY DEF HandT
<1> QED
    BY <1>1, <1>2, <1>3 DEF Hand!Top

(* A stack of which only waiting turns are other turns.                    *)
LEMMA Same ==
    ASSUME NEW s \in Seq(HandT), NEW u \in Seq(HandT), Len(u) = Len(s), Shape(s),
           \A i \in 1..Len(s) : u[i].agent = s[i].agent /\ (u[i].at = "want" <=> s[i].at = "want"),
           \A i \in 1..(Len(s) - 1) : u[i].at \in {"handed_off", "asking"}
    PROVE  Shape(u) /\ \A a : Held(u, a) <=> Held(s, a)
<1>1. Shape(u)
    BY DEF Shape
<1>2. ASSUME NEW a PROVE Held(u, a) <=> Held(s, a)
    BY DEF Held
<1> QED
    BY <1>1, <1>2

LEMMA Pushed ==
    ASSUME NEW s \in Seq(HandT), NEW t \in HandT, t.at = "want", Shape(s),
           s # <<>> => s[Len(s)].at \in {"handed_off", "asking"}
    PROVE  /\ Append(s, t) \in Seq(HandT) /\ Shape(Append(s, t)) /\ \A a : Held(Append(s, t), a) <=> Held(s, a)
<1> DEFINE u == Append(s, t)
<1>1. /\ u \in Seq(HandT) /\ Len(u) = Len(s) + 1 /\ Len(s) \in Nat /\ u[Len(s) + 1] = t
      /\ \A i \in 1..Len(s) : u[i] = s[i]
    OBVIOUS
<1> HIDE DEF u
<1>2. \A i \in 1..(Len(u) - 1) : u[i].at \in {"handed_off", "asking"}
    <2>1. ASSUME NEW i \in 1..(Len(u) - 1) PROVE u[i].at \in {"handed_off", "asking"}
        <3>1. i \in 1..Len(s) /\ (i = Len(s) \/ i \in 1..(Len(s) - 1))
            BY <1>1
        <3>2. s # <<>>
            BY <3>1
        <3> QED
            BY <1>1, <3>1, <3>2 DEF Shape
    <2> QED
        BY <2>1
<1>3. Shape(u)
    <2>1. ASSUME NEW i \in 1..Len(u), NEW j \in 1..Len(u), i # j, u[i].at # "want", u[j].at # "want"
          PROVE  u[i].agent # u[j].agent
        <3>1. i \in 1..Len(s) /\ j \in 1..Len(s)
            BY <1>1, <2>1
        <3> QED
            BY <1>1, <2>1, <3>1 DEF Shape
    <2> QED
        BY <1>2, <2>1 DEF Shape
<1>4. ASSUME NEW a PROVE Held(u, a) <=> Held(s, a)
    BY <1>1 DEF Held
<1> QED
    BY <1>1, <1>3, <1>4 DEF u

LEMMA PoppedIs ==
    ASSUME NEW s \in Seq(HandT), s # <<>>, Shape(s)
    PROVE  /\ Hand!Front(s) \in Seq(HandT) /\ Len(Hand!Front(s)) = Len(s) - 1 /\ \A i \in 1..(Len(s) - 1) : Hand!Front(s)[i] = s[i]
           /\ Shape(Hand!Front(s))
           /\ \A a : Held(Hand!Front(s), a) <=> Held(s, a) /\ ~(s[Len(s)].agent = a /\ s[Len(s)].at # "want")
<1> DEFINE u == Hand!Front(s)
           m == Len(s)
<1>1. m \in Nat \ {0}
    OBVIOUS
<1>2. u \in Seq(HandT) /\ Len(u) = m - 1 /\ \A i \in 1..(m - 1) : u[i] = s[i]
    <2>1. u = SubSeq(s, 1, m - 1) /\ m - 1 \in 0..m
        BY <1>1 DEF Hand!Front
    <2>2. \A i \in 1..(m - 1) : s[i] \in HandT
        BY <1>1
    <2> HIDE DEF u, m
    <2>3. /\ SubSeq(s, 1, m - 1) \in Seq(HandT)
          /\ Len(SubSeq(s, 1, m - 1)) = IF 1 <= m - 1 THEN (m - 1) - 1 + 1 ELSE 0
          /\ \A i \in 1..((m - 1) - 1 + 1) : SubSeq(s, 1, m - 1)[i] = s[1 + i - 1]
        BY <1>1, <2>2, SubSeqProperties
    <2>4. Len(u) = m - 1 /\ (m - 1) - 1 + 1 = m - 1 /\ \A i \in 1..(m - 1) : 1 + i - 1 = i
        BY <1>1, <2>1, <2>3
    <2> QED
        BY <2>1, <2>3, <2>4
<1> HIDE DEF u
<1>3. Shape(u)
    BY <1>1, <1>2 DEF Shape
<1>4. ASSUME NEW a PROVE Held(u, a) <=> Held(s, a) /\ ~(s[m].agent = a /\ s[m].at # "want")
    <2>1. ASSUME Held(u, a) PROVE Held(s, a) /\ ~(s[m].agent = a /\ s[m].at # "want")
        <3>1. PICK i \in 1..(m - 1) : s[i].agent = a /\ s[i].at # "want"
            BY <1>2, <2>1 DEF Held
        <3>2. i \in 1..m /\ i # m /\ m \in 1..m
            BY <1>1
        <3> QED
            BY <3>1, <3>2 DEF Held, Shape
    <2>2. ASSUME Held(s, a), ~(s[m].agent = a /\ s[m].at # "want") PROVE Held(u, a)
        <3>1. PICK i \in 1..m : s[i].agent = a /\ s[i].at # "want"
            BY <2>2 DEF Held
        <3>2. i \in 1..(m - 1)
            BY <1>1, <2>2, <3>1
        <3> QED
            BY <1>2, <3>1, <3>2 DEF Held
    <2> QED
        BY <2>1, <2>2
<1> QED
    BY <1>2, <1>3, <1>4 DEF u

\* A stack whose top goes on in the place p, or has asked once more.
Moved(s, p) == [s EXCEPT ![Len(s)].at = p]
Counted(s) == [s EXCEPT ![Len(s)].asks = @ + 1]

LEMMA TopSet ==
    ASSUME NEW q \in Seq(HandT), q # <<>>, NEW w \in Places
    PROVE  /\ Moved(q, w) \in Seq(HandT) /\ Len(Moved(q, w)) = Len(q)
           /\ \A i \in 1..Len(q) : Moved(q, w)[i].agent = q[i].agent
           /\ \A i \in 1..(Len(q) - 1) : Moved(q, w)[i] = q[i]
           /\ Moved(q, w)[Len(q)].at = w
<1> DEFINE v == Moved(q, w)
<1>1. Len(q) \in Nat \ {0} /\ Len(q) \in 1..Len(q)
    OBVIOUS
<1>2. \A i \in 1..Len(q) : q[i] \in HandT
    OBVIOUS
<1> DEFINE t == [q[Len(q)] EXCEPT !.at = w]
<1>3. t \in HandT /\ t.agent = q[Len(q)].agent /\ t.at = w
    BY <1>1, <1>2 DEF HandT
<1>4. v = [q EXCEPT ![Len(q)] = t]
    BY DEF Moved
<1> HIDE DEF t, v
<1>5. v \in Seq(HandT) /\ Len(v) = Len(q) /\ v[Len(q)] = t /\ \A i \in 1..(Len(q) - 1) : v[i] = q[i]
    BY <1>1, <1>3, <1>4
<1>6. \A i \in 1..Len(q) : i = Len(q) \/ i \in 1..(Len(q) - 1)
    BY <1>1
<1>7. \A i \in 1..Len(q) : v[i].agent = q[i].agent
    BY <1>3, <1>5, <1>6
<1> QED
    BY <1>3, <1>5, <1>7 DEF v

LEMMA TopAsks ==
    ASSUME NEW q \in Seq(HandT), q # <<>>
    PROVE  /\ Counted(q) \in Seq(HandT) /\ Len(Counted(q)) = Len(q)
           /\ \A i \in 1..Len(q) : Counted(q)[i].agent = q[i].agent /\ Counted(q)[i].at = q[i].at
<1> DEFINE v == Counted(q)
<1>1. Len(q) \in Nat \ {0} /\ Len(q) \in 1..Len(q)
    OBVIOUS
<1>2. \A i \in 1..Len(q) : q[i] \in HandT
    OBVIOUS
<1> DEFINE t == [q[Len(q)] EXCEPT !.asks = @ + 1]
<1>3. t \in HandT /\ t.agent = q[Len(q)].agent /\ t.at = q[Len(q)].at
    BY <1>1, <1>2 DEF HandT
<1>4. v = [q EXCEPT ![Len(q)] = t]
    BY DEF Counted
<1> HIDE DEF t, v
<1>5. v \in Seq(HandT) /\ Len(v) = Len(q) /\ v[Len(q)] = t /\ \A i \in 1..(Len(q) - 1) : v[i] = q[i]
    BY <1>1, <1>3, <1>4
<1>6. \A i \in 1..Len(q) : i = Len(q) \/ i \in 1..(Len(q) - 1)
    BY <1>1
<1> QED
    BY <1>3, <1>5, <1>6 DEF v

(* A turn that goes on in the place p, under the lock it holds.            *)
LEMMA AtIs ==
    ASSUME HandInv, NEW c \in Callers, hStack[c] # <<>>, NEW p \in Places
    PROVE  /\ Hand!At(c, p) = [hStack EXCEPT ![c] = Hand!At(c, p)[c]]
           /\ Hand!At(c, p)[c] = Moved(hStack[c], p)
           /\ Hand!At(c, p)[c] \in Seq(HandT) /\ Len(Hand!At(c, p)[c]) = Len(hStack[c])
           /\ Hand!At(c, p)[c][Len(hStack[c])].at = p
           /\ Hand!At(c, p)[c][Len(hStack[c])].agent = Hand!Top(c).agent
           /\ (Hand!Top(c).at # "want" /\ p # "want" =>
                 Shape(Hand!At(c, p)[c]) /\ \A a : Held(Hand!At(c, p)[c], a) <=> Held(hStack[c], a))
<1> DEFINE s == hStack[c]
           u == Hand!At(c, p)[c]
<1>1. s \in Seq(HandT) /\ Len(s) \in Nat \ {0} /\ Shape(s) /\ hStack \in [Callers -> Seq(HandT)] /\ Hand!Top(c) = s[Len(s)]
    BY TopIs DEF HandInv, HandTypes
<1>2. Hand!At(c, p) = [hStack EXCEPT ![c] = u] /\ u = Moved(s, p)
    BY <1>1 DEF Hand!At, Moved
<1> HIDE DEF u, s
<1>3. s # <<>> /\ s \in Seq(HandT) /\ u = Moved(s, p)
    BY <1>1, <1>2
<1>4. /\ u \in Seq(HandT) /\ Len(u) = Len(s) /\ \A i \in 1..Len(s) : u[i].agent = s[i].agent
      /\ \A i \in 1..(Len(s) - 1) : u[i] = s[i]
      /\ u[Len(s)].at = p
    BY ONLY <1>3, p \in Places, TopSet
<1>5. u[Len(s)].agent = Hand!Top(c).agent
    BY <1>1, <1>4
<1>6. ASSUME Hand!Top(c).at # "want", p # "want" PROVE Shape(u) /\ \A a : Held(u, a) <=> Held(s, a)
    <2>1. \A i \in 1..(Len(s) - 1) : u[i].at \in {"handed_off", "asking"}
        BY <1>1, <1>4 DEF Shape
    <2>2. \A i \in 1..Len(s) : i = Len(s) \/ i \in 1..(Len(s) - 1)
        BY <1>1
    <2>3. \A i \in 1..Len(s) : u[i].at = "want" <=> s[i].at = "want"
        BY <1>1, <1>4, <1>6, <2>2
    <2> QED
        BY <1>1, <1>4, <2>1, <2>3, Same
<1> QED
    BY <1>2, <1>4, <1>5, <1>6 DEF u, s

LEMMA TypesAre ==
    ASSUME HandInv, NEW c \in Callers, NEW u \in Seq(HandT), NEW o \in Outs, hStack' = [hStack EXCEPT ![c] = u],
           hCall' = [hCall EXCEPT ![c].out = o]
    PROVE  /\ hStack' \in [Callers -> Seq(HandT)] /\ hCall' \in [Callers -> [out : Outs]]
           /\ hStack'[c] = u /\ hCall'[c].out = o
           /\ \A d \in Callers \ {c} : hStack'[d] = hStack[d] /\ hCall'[d] = hCall[d]
<1>1. hStack \in [Callers -> Seq(HandT)] /\ hCall \in [Callers -> [out : Outs]]
    BY DEF HandInv, HandTypes
<1> QED
    BY <1>1

(* The caller's stack changes and the locks stay.                          *)
LEMMA LocksStay ==
    ASSUME HandInv, NEW c \in Callers, NEW u \in Seq(HandT), NEW o \in Outs, hStack' = [hStack EXCEPT ![c] = u],
           hCall' = [hCall EXCEPT ![c].out = o], UNCHANGED hLock,
           Shape(u), o \notin {"running", "raising"} => u = <<>>,
           \A a \in Handing : Held(u, a) <=> Held(hStack[c], a)
    PROVE  HandInv'
<1>1. /\ hStack' \in [Callers -> Seq(HandT)] /\ hCall' \in [Callers -> [out : Outs]]
      /\ hStack'[c] = u /\ hCall'[c].out = o
      /\ \A d \in Callers \ {c} : hStack'[d] = hStack[d] /\ hCall'[d] = hCall[d]
    BY TypesAre
<1>2. HandTypes'
    BY <1>1 DEF HandInv, HandTypes
<1>3. \A a \in Handing : hLock'[a] = c <=> Held(hStack'[c], a)
    BY <1>1 DEF HandInv
<1> QED
    BY <1>1, <1>2, <1>3, OneMoves

LEMMA NewTurn ==
    ASSUME NEW a \in Handing
    PROVE  /\ Hand!Turn(a) \in HandT /\ Hand!Turn(a).at = "want" /\ <<Hand!Turn(a)>> \in Seq(HandT) /\ Shape(<<Hand!Turn(a)>>)
           /\ \A b : ~Held(<<Hand!Turn(a)>>, b)
<1>1. Hand!Turn(a) \in HandT /\ Hand!Turn(a).at = "want"
    BY DEF Hand!Turn, HandT, Places
<1> DEFINE t == Hand!Turn(a)
           s == <<t>>
<1> HIDE DEF t
<1>2. s \in Seq(HandT) /\ Len(s) = 1 /\ s[1] = t
    BY <1>1 DEF t
<1> HIDE DEF s
<1>3. \A i \in 1..Len(s) : i = 1
    BY <1>2
<1>4. Shape(s) /\ \A b : ~Held(s, b)
    BY <1>1, <1>2, <1>3 DEF Shape, Held, t
<1> QED
    BY <1>1, <1>2, <1>4 DEF s, t

LEMMA EmptyStack == <<>> \in Seq(HandT) /\ Shape(<<>>) /\ \A b : ~Held(<<>>, b)
BY DEF Shape, Held

LEMMA Resolved ==
    ASSUME Hand!HandoffAssumption, NEW b \in Handing, NEW name, NEW accepts \in SUBSET Handing, name \in Handing
    PROVE  Hand!ResolveHandoff(HandTargets[b], name, accepts) \in Handing \cup {None}
<1> DEFINE ts == HandTargets[b]
           first == {i \in DOMAIN ts : ts[i] \in accepts /\ \A j \in 1..(i - 1) : ts[j] \notin accepts}
<1>1. ts \in Seq(Handing)
    BY DEF Hand!HandoffAssumption
<1>2. \A i \in first : ts[i] \in Handing
    BY <1>1
<1>3. first # {} => (CHOOSE i \in first : TRUE) \in first
    OBVIOUS
<1>4. Hand!ResolveHandoff(ts, name, accepts) =
        IF name \in Hand!ToSet(ts) \cap accepts THEN name
        ELSE IF first = {} THEN None ELSE ts[CHOOSE i \in first : TRUE]
    BY DEF Hand!ResolveHandoff
<1> HIDE DEF first, ts
<1>5. Hand!ResolveHandoff(ts, name, accepts) \in Handing \cup {None}
    BY <1>2, <1>3, <1>4
<1> QED
    BY <1>5 DEF ts

LEMMA CallStays ==
    ASSUME HandInv, NEW c \in Callers, UNCHANGED hCall
    PROVE  hCall' = [hCall EXCEPT ![c].out = hCall[c].out] /\ hCall[c].out \in Outs
BY DEF HandInv, HandTypes

LEMMA CallsKeep ==
    ASSUME Hand!HandoffAssumption, HandInv, NEW c \in Callers, NEW a \in Handing,
           \/ Hand!Ainvoke(c, a)
           \/ \E nm \in Handing, acc \in SUBSET Handing : Hand!Adelegate(c, a, nm, acc)
    PROVE  HandInv'
<1>1. hCall[c].out = "idle" /\ hStack[c] = <<>> /\ UNCHANGED hLock
    BY DEF Hand!Ainvoke, Hand!Adelegate, HandInv
<1>2. \/ \E t \in Handing : hStack' = [hStack EXCEPT ![c] = <<Hand!Turn(t)>>] /\ hCall' = [hCall EXCEPT ![c].out = "running"]
      \/ hStack' = [hStack EXCEPT ![c] = <<>>] /\ hCall' = [hCall EXCEPT ![c].out = "ValueError"]
    <2>1. CASE Hand!Ainvoke(c, a)
        BY <2>1 DEF Hand!Ainvoke
    <2>2. CASE \E nm \in Handing, acc \in SUBSET Handing : Hand!Adelegate(c, a, nm, acc)
        <3>1. PICK nm \in Handing, acc \in SUBSET Handing : Hand!Adelegate(c, a, nm, acc)
            BY <2>2
        <3> DEFINE t == Hand!ResolveHandoff(HandTargets[a], nm, acc)
        <3>2. t \in Handing \cup {None}
            BY Resolved
        <3>3. /\ hCall' = [hCall EXCEPT ![c].out = IF t = None THEN "ValueError" ELSE "running"]
              /\ hStack' = [hStack EXCEPT ![c] = IF t = None THEN <<>> ELSE <<Hand!Turn(t)>>]
            BY <3>1 DEF Hand!Adelegate
        <3> HIDE DEF t
        <3>4. CASE t = None
            BY <3>3, <3>4
        <3>5. CASE t # None
            BY <3>2, <3>3, <3>5
        <3> QED
            BY <3>4, <3>5
    <2> QED
        BY <2>1, <2>2
<1>3. \A a1 \in Handing : ~Held(hStack[c], a1)
    BY <1>1, EmptyStack
<1>4. "running" \in Outs /\ "ValueError" \in Outs
    BY DEF Outs
<1>5. CASE \E t \in Handing : hStack' = [hStack EXCEPT ![c] = <<Hand!Turn(t)>>] /\ hCall' = [hCall EXCEPT ![c].out = "running"]
    <2>1. PICK t \in Handing : hStack' = [hStack EXCEPT ![c] = <<Hand!Turn(t)>>] /\ hCall' = [hCall EXCEPT ![c].out = "running"]
        BY <1>5
    <2>2. /\ <<Hand!Turn(t)>> \in Seq(HandT) /\ Shape(<<Hand!Turn(t)>>)
          /\ \A a1 \in Handing : Held(<<Hand!Turn(t)>>, a1) <=> Held(hStack[c], a1)
        BY <1>3, NewTurn
    <2> QED
        BY <1>1, <1>4, <2>1, <2>2, LocksStay
<1>6. CASE hStack' = [hStack EXCEPT ![c] = <<>>] /\ hCall' = [hCall EXCEPT ![c].out = "ValueError"]
    <2>1. <<>> \in Seq(HandT) /\ Shape(<<>>) /\ \A a1 \in Handing : Held(<<>>, a1) <=> Held(hStack[c], a1)
        BY <1>3, EmptyStack
    <2> QED
        BY <1>1, <1>4, <1>6, <2>1, LocksStay
<1> QED
    BY <1>2, <1>5, <1>6

LEMMA TakesKeep ==
    ASSUME Hand!HandoffAssumption, HandInv, NEW c \in Callers, hStack[c] # <<>>, Hand!TakeTurn(c) PROVE HandInv'
<1> DEFINE a == Hand!Top(c).agent
           s == hStack[c]
           u == Hand!At(c, "plan")[c]
<1>1. /\ Hand!Top(c).at = "want" /\ hLock[a] = None /\ hLock' = [hLock EXCEPT ![a] = c] /\ hStack' = [hStack EXCEPT ![c] = u]
      /\ UNCHANGED hCall /\ hCall' = [hCall EXCEPT ![c].out = hCall[c].out] /\ hCall[c].out \in Outs
    <2>1. "plan" \in Places
        BY DEF Places
    <2> QED
        BY <2>1, CallStays, AtIs DEF Hand!TakeTurn
<1>2. /\ u = Moved(s, "plan") /\ s \in Seq(HandT) /\ Len(s) \in Nat \ {0} /\ Shape(s) /\ a \in Handing /\ u \in Seq(HandT)
      /\ a = s[Len(s)].agent /\ hCall[c].out \in {"running", "raising"} /\ s # <<>> /\ "plan" \in Places
    BY TopIs, AtIs DEF Places
<1>3. hLock \in [Handing -> Callers \cup {None}] /\ None \notin Callers
    BY DEF HandInv, HandTypes, Hand!HandoffAssumption
<1>4. \A b \in Handing : hLock[b] = c <=> Held(s, b)
    BY DEF HandInv
<1> HIDE DEF a, s, u
<1>5. /\ Len(u) = Len(s) /\ \A i \in 1..Len(s) : u[i].agent = s[i].agent
      /\ \A i \in 1..(Len(s) - 1) : u[i] = s[i]
      /\ u[Len(s)].at = "plan" /\ u[Len(s)].agent = a
    <2>1. /\ Len(u) = Len(s) /\ \A i \in 1..Len(s) : u[i].agent = s[i].agent
          /\ \A i \in 1..(Len(s) - 1) : u[i] = s[i]
          /\ u[Len(s)].at = "plan"
        BY <1>2, TopSet
    <2> QED
        BY <1>2, <2>1
<1>6. ~Held(s, a)
    BY <1>1, <1>2, <1>3, <1>4
<1>7. \A i \in 1..Len(s) : i = Len(s) \/ i \in 1..(Len(s) - 1)
    BY <1>2
<1>8. Shape(u)
    <2>1. \A i \in 1..(Len(u) - 1) : u[i].at \in {"handed_off", "asking"}
        BY <1>2, <1>5 DEF Shape
    <2>2. ASSUME NEW i \in 1..Len(u), NEW j \in 1..Len(u), i # j, u[i].at # "want", u[j].at # "want"
          PROVE  u[i].agent # u[j].agent
        <3>1. \A k \in 1..(Len(s) - 1) : s[k].at # "want" => s[k].agent # a
            BY <1>2, <1>6 DEF Held
        <3>2. CASE i = Len(s)
            BY <1>2, <1>5, <1>7, <2>2, <3>1, <3>2
        <3>3. CASE j = Len(s)
            BY <1>2, <1>5, <1>7, <2>2, <3>1, <3>3
        <3>4. CASE i # Len(s) /\ j # Len(s)
            BY <1>2, <1>5, <1>7, <2>2, <3>4 DEF Shape
        <3> QED
            BY <3>2, <3>3, <3>4
    <2> QED
        BY <2>1, <2>2 DEF Shape
<1>9. ASSUME NEW b \in Handing PROVE hLock'[b] = c <=> Held(u, b)
    <2>1. CASE b = a
        <3>1. Held(u, a)
            BY <1>2, <1>5 DEF Held
        <3> QED
            BY <1>1, <1>2, <1>3, <2>1, <3>1
    <2>2. CASE b # a
        <3>1. Held(u, b) <=> Held(s, b)
            BY <1>2, <1>5, <1>7, <2>2 DEF Held
        <3> QED
            BY <1>1, <1>3, <1>4, <2>2, <3>1
    <2> QED
        BY <2>1, <2>2
<1>10. /\ hStack' \in [Callers -> Seq(HandT)] /\ hCall' \in [Callers -> [out : Outs]]
       /\ hStack'[c] = u /\ hCall'[c].out = hCall[c].out
       /\ \A d \in Callers \ {c} : hStack'[d] = hStack[d] /\ hCall'[d] = hCall[d]
    BY <1>1, <1>2, TypesAre
<1>11. HandTypes'
    BY <1>1, <1>2, <1>3, <1>10 DEF HandTypes
<1>12. \A d \in Callers \ {c}, b \in Handing : hLock'[b] = d <=> hLock[b] = d
    BY <1>1, <1>2, <1>3
<1>13. hCall'[c].out \notin {"running", "raising"} => hStack'[c] = <<>>
    BY <1>2, <1>10
<1> QED
    BY <1>8, <1>9, <1>10, <1>11, <1>12, <1>13, OneMoves

LEMMA HandOffKeeps ==
    ASSUME Hand!HandoffAssumption, HandInv, NEW c \in Callers, hStack[c] # <<>>,
           NEW nm \in Hand!Mentioned(Hand!Top(c).agent), NEW acc \in SUBSET Handing, Hand!HandOff(c, nm, acc)
    PROVE  HandInv'
<1> DEFINE t == IF nm = None THEN None ELSE Hand!ResolveHandoff(HandTargets[Hand!Top(c).agent], nm, acc)
           w == Hand!At(c, "handed_off")[c]
<1>1. Hand!Top(c).at = "plan" /\ UNCHANGED <<hLock, hCall>>
    BY DEF Hand!HandOff
<1>2. hCall' = [hCall EXCEPT ![c].out = hCall[c].out] /\ hCall[c].out \in Outs /\ hCall[c].out \in {"running", "raising"}
    BY <1>1, CallStays, TopIs
<1>3. "own" \in Places /\ "handed_off" \in Places
    BY DEF Places
<1>4. t \in Handing \cup {None}
    <2>1. Hand!Top(c).agent \in Handing
        BY TopIs
    <2>2. nm \in Handing \cup {None}
        <3>1. HandTargets[Hand!Top(c).agent] \in Seq(Handing)
            BY <2>1 DEF Hand!HandoffAssumption
        <3>2. Hand!ToSet(HandTargets[Hand!Top(c).agent]) \subseteq Handing
            BY <3>1 DEF Hand!ToSet
        <3> QED
            BY <3>2 DEF Hand!Mentioned
    <2> QED
        BY <2>1, <2>2, Resolved
<1>5. hStack' = IF t = None THEN Hand!At(c, "own") ELSE [hStack EXCEPT ![c] = Append(w, Hand!Turn(t))]
    BY DEF Hand!HandOff
<1> HIDE DEF t
<1>6. CASE t = None
    <2>1. hStack' = [hStack EXCEPT ![c] = Hand!At(c, "own")[c]]
        BY <1>3, <1>5, <1>6, AtIs
    <2>2. /\ Hand!At(c, "own")[c] \in Seq(HandT) /\ Shape(Hand!At(c, "own")[c])
          /\ \A a \in Handing : Held(Hand!At(c, "own")[c], a) <=> Held(hStack[c], a)
        BY <1>1, <1>3, AtIs
    <2> QED
        BY <1>1, <1>2, <2>1, <2>2, LocksStay
<1>7. CASE t # None
    <2>1. hStack' = [hStack EXCEPT ![c] = Append(w, Hand!Turn(t))] /\ t \in Handing
        BY <1>4, <1>5, <1>7
    <2>2. /\ w \in Seq(HandT) /\ Shape(w) /\ (\A a \in Handing : Held(w, a) <=> Held(hStack[c], a))
          /\ w[Len(w)].at = "handed_off"
        BY <1>1, <1>3, AtIs
    <2>3. Hand!Turn(t) \in HandT /\ Hand!Turn(t).at = "want"
        BY <2>1, NewTurn
    <2> DEFINE r == Hand!Turn(t)
    <2> HIDE DEF w, r
    <2>4. Append(w, r) \in Seq(HandT) /\ Shape(Append(w, r)) /\ \A a \in Handing : Held(Append(w, r), a) <=> Held(w, a)
        BY <2>2, <2>3, Pushed DEF r
    <2> QED
        BY <1>1, <1>2, <2>1, <2>2, <2>4, LocksStay DEF r
<1> QED
    BY <1>6, <1>7

LEMMA AskKeeps ==
    ASSUME Hand!HandoffAssumption, HandInv, NEW c \in Callers, hStack[c] # <<>>, NEW b \in Handing, Hand!AskTool(c, b)
    PROVE  HandInv'
<1> DEFINE w == Hand!At(c, "asking")[c]
           v == Counted(w)
           r == Hand!Turn(b)
<1>1. Hand!Top(c).at = "own" /\ UNCHANGED <<hLock, hCall>>
    BY DEF Hand!AskTool
<1>2. hCall' = [hCall EXCEPT ![c].out = hCall[c].out] /\ hCall[c].out \in Outs /\ hCall[c].out \in {"running", "raising"}
    BY <1>1, CallStays, TopIs
<1>3. "asking" \in Places
    BY DEF Places
<1>4. /\ w \in Seq(HandT) /\ Len(w) = Len(hStack[c]) /\ Shape(w) /\ w # <<>>
      /\ (\A a \in Handing : Held(w, a) <=> Held(hStack[c], a)) /\ w[Len(w)].at = "asking"
    <2>1. Len(hStack[c]) \in Nat \ {0}
        BY TopIs
    <2> QED
        BY <1>1, <1>3, <2>1, AtIs
<1>5. hStack' = [hStack EXCEPT ![c] = Append(v, r)]
    BY <1>4 DEF Hand!AskTool, Counted
<1>6. r \in HandT /\ r.at = "want"
    BY NewTurn
<1> HIDE DEF w, v, r
<1>7. /\ v \in Seq(HandT) /\ Len(v) = Len(w)
      /\ \A i \in 1..Len(w) : v[i].agent = w[i].agent /\ v[i].at = w[i].at
    BY <1>4, TopAsks DEF v
<1>8. Len(w) \in Nat \ {0}
    BY <1>4
<1>9. Shape(v) /\ (\A a \in Handing : Held(v, a) <=> Held(w, a)) /\ v[Len(v)].at = "asking"
    <2>1. \A i \in 1..(Len(w) - 1) : v[i].at \in {"handed_off", "asking"}
        BY <1>4, <1>7, <1>8 DEF Shape
    <2>2. \A i \in 1..Len(w) : v[i].at = "want" <=> w[i].at = "want"
        BY <1>7
    <2>3. Len(w) \in 1..Len(w)
        BY <1>8
    <2> QED
        BY <1>4, <1>7, <2>1, <2>2, <2>3, Same
<1>10. Append(v, r) \in Seq(HandT) /\ Shape(Append(v, r)) /\ \A a \in Handing : Held(Append(v, r), a) <=> Held(v, a)
    BY <1>6, <1>7, <1>9, Pushed
<1> QED
    BY <1>1, <1>2, <1>4, <1>5, <1>9, <1>10, LocksStay

LEMMA SurviveKeeps ==
    ASSUME HandInv, NEW c \in Callers, hStack[c] # <<>>, Hand!Survive(c) PROVE HandInv'
<1>1. Hand!Top(c).at = "asking" /\ UNCHANGED hLock /\ hCall' = [hCall EXCEPT ![c].out = "running"] /\ hStack' = Hand!At(c, "own")
    BY DEF Hand!Survive
<1>2. "own" \in Places /\ "running" \in Outs
    BY DEF Places, Outs
<1>3. hStack' = [hStack EXCEPT ![c] = Hand!At(c, "own")[c]]
    BY <1>1, <1>2, AtIs
<1>4. /\ Hand!At(c, "own")[c] \in Seq(HandT) /\ Shape(Hand!At(c, "own")[c])
      /\ \A a \in Handing : Held(Hand!At(c, "own")[c], a) <=> Held(hStack[c], a)
    BY <1>1, <1>2, AtIs
<1> QED
    BY <1>1, <1>2, <1>3, <1>4, LocksStay

(* The top of the stack goes, and its lock with it.                        *)
LEMMA TopGoes ==
    ASSUME Hand!HandoffAssumption, HandInv, NEW c \in Callers, hStack[c] # <<>>,
           hLock' = IF Hand!Top(c).at = "want" THEN hLock ELSE Hand!Release(c),
           NEW u \in Seq(HandT), Shape(u), \A a \in Handing : Held(u, a) <=> Held(Hand!Front(hStack[c]), a),
           NEW o \in Outs, o \notin {"running", "raising"} => u = <<>>,
           hStack' = [hStack EXCEPT ![c] = u], hCall' = [hCall EXCEPT ![c].out = o]
    PROVE  HandInv'
<1> DEFINE a == Hand!Top(c).agent
           s == hStack[c]
<1>1. /\ s \in Seq(HandT) /\ Len(s) \in Nat \ {0} /\ Shape(s) /\ a \in Handing /\ a = s[Len(s)].agent
      /\ Hand!Top(c).at = s[Len(s)].at /\ s # <<>>
    BY TopIs
<1>2. hLock \in [Handing -> Callers \cup {None}] /\ None \notin Callers
    BY DEF HandInv, HandTypes, Hand!HandoffAssumption
<1>3. \A b \in Handing : hLock[b] = c <=> Held(s, b)
    BY DEF HandInv
<1>4. hLock' = IF Hand!Top(c).at = "want" THEN hLock ELSE [hLock EXCEPT ![a] = None]
    BY DEF Hand!Release
<1> HIDE DEF a, s
<1>5. \A b \in Handing : Held(u, b) <=> Held(s, b) /\ ~(s[Len(s)].agent = b /\ s[Len(s)].at # "want")
    <2>1. \A b \in Handing : Held(Hand!Front(s), b) <=> Held(s, b) /\ ~(s[Len(s)].agent = b /\ s[Len(s)].at # "want")
        BY <1>1, PoppedIs
    <2> QED
        BY <2>1 DEF s
<1>6. Hand!Top(c).at # "want" => Held(s, a)
    BY <1>1 DEF Held
<1>7. ASSUME NEW b \in Handing PROVE hLock'[b] = c <=> Held(u, b)
    BY <1>1, <1>2, <1>3, <1>4, <1>5
<1>8. ASSUME NEW d \in Callers \ {c}, NEW b \in Handing PROVE hLock'[b] = d <=> hLock[b] = d
    <2>1. Hand!Top(c).at # "want" => hLock[a] = c
        BY <1>1, <1>3, <1>6
    <2> QED
        BY <1>1, <1>2, <1>4, <2>1
<1>9. hLock' \in [Handing -> Callers \cup {None}]
    BY <1>1, <1>2, <1>4
<1>10. /\ hStack' \in [Callers -> Seq(HandT)] /\ hCall' \in [Callers -> [out : Outs]]
       /\ hStack'[c] = u /\ hCall'[c].out = o
       /\ \A d \in Callers \ {c} : hStack'[d] = hStack[d] /\ hCall'[d] = hCall[d]
    BY TypesAre
<1>11. HandTypes'
    BY <1>9, <1>10 DEF HandTypes
<1> QED
    BY <1>7, <1>8, <1>10, <1>11, OneMoves

LEMMA RaiseKeep ==
    ASSUME Hand!HandoffAssumption, HandInv, NEW c \in Callers, hStack[c] # <<>>, Hand!Raise(c) PROVE HandInv'
<1> DEFINE u == Hand!Front(hStack[c])
           o == IF u = <<>> THEN "raised" ELSE "raising"
<1>1. u \in Seq(HandT) /\ Shape(u)
    BY TopIs, PoppedIs
<1>2. o \in Outs /\ (o \notin {"running", "raising"} => u = <<>>)
    BY DEF Outs
<1>3. /\ hLock' = IF Hand!Top(c).at = "want" THEN hLock ELSE Hand!Release(c)
      /\ hStack' = [hStack EXCEPT ![c] = u] /\ hCall' = [hCall EXCEPT ![c].out = o]
    BY DEF Hand!Raise, Hand!Popped
<1>4. \A a \in Handing : Held(u, a) <=> Held(Hand!Front(hStack[c]), a)
    OBVIOUS
<1> HIDE DEF u, o
<1> QED
    BY <1>1, <1>2, <1>3, <1>4, TopGoes

LEMMA HandReturns ==
    ASSUME Hand!HandoffAssumption, HandInv, NEW c \in Callers, hStack[c] # <<>>, Hand!Return(c) PROVE HandInv'
<1> DEFINE f == Hand!Front(hStack[c])
           p == IF f[Len(f)].at = "handed_off" THEN "returned" ELSE "own"
           v == Moved(f, p)
<1>1. f \in Seq(HandT) /\ Shape(f) /\ Len(f) = Len(hStack[c]) - 1 /\ \A i \in 1..(Len(hStack[c]) - 1) : f[i] = hStack[c][i]
    BY TopIs, PoppedIs
<1> HIDE DEF f
<1>2. Hand!Top(c).at # "want" /\ hCall[c].out = "running" /\ hLock' = Hand!Release(c)
    BY DEF Hand!Return, Hand!Running
<1>3. hLock' = IF Hand!Top(c).at = "want" THEN hLock ELSE Hand!Release(c)
    BY <1>2
<1>4. CASE f = <<>>
    <2>1. hStack' = [hStack EXCEPT ![c] = <<>>] /\ hCall' = [hCall EXCEPT ![c].out = "answered"] /\ "answered" \in Outs
        BY <1>4 DEF Hand!Return, Hand!Popped, Outs, f
    <2>2. \A a \in Handing : Held(<<>>, a) <=> Held(Hand!Front(hStack[c]), a)
        BY <1>4 DEF f
    <2>3. <<>> \in Seq(HandT) /\ Shape(<<>>)
        BY EmptyStack
    <2> QED
        BY <1>3, <2>1, <2>2, <2>3, TopGoes
<1>5. CASE f # <<>>
    <2>1. hStack' = [hStack EXCEPT ![c] = v] /\ UNCHANGED hCall
        BY <1>5 DEF Hand!Return, Hand!Popped, Moved, f
    <2>2. hCall' = [hCall EXCEPT ![c].out = hCall[c].out] /\ hCall[c].out \in Outs
        BY <2>1, CallStays
    <2>3. p \in Places /\ p # "want"
        BY DEF Places
    <2> HIDE DEF p, v
    <2>10. Len(f) \in Nat \ {0} /\ Len(hStack[c]) \in Nat
        <3>1. f \in Seq(HandT) /\ f # <<>>
            BY <1>1, <1>5
        <3>2. Len(f) \in Nat \ {0}
            BY ONLY <3>1
        <3> QED
            BY <3>2, TopIs
    <2>4. f[Len(f)].at \in {"handed_off", "asking"}
        <3>1. Len(f) \in 1..(Len(hStack[c]) - 1)
            <4> DEFINE m == Len(f)
                       k == Len(hStack[c])
            <4>1. m = k - 1
                BY <1>1
            <4>2. m \in Nat \ {0} /\ k \in Nat
                BY <2>10
            <4> HIDE DEF m, k
            <4>3. m \in 1..(k - 1)
                BY <4>1, <4>2
            <4> QED
                BY <4>3 DEF m, k
        <3>2. f[Len(f)] = hStack[c][Len(f)]
            BY <1>1, <3>1
        <3>3. \A i \in 1..(Len(hStack[c]) - 1) : hStack[c][i].at \in {"handed_off", "asking"}
            BY TopIs DEF Shape
        <3> QED
            BY <3>1, <3>2, <3>3
    <2>5. /\ v \in Seq(HandT) /\ Len(v) = Len(f) /\ \A i \in 1..Len(f) : v[i].agent = f[i].agent
          /\ \A i \in 1..(Len(f) - 1) : v[i] = f[i]
          /\ v[Len(f)].at = p
        BY <1>1, <1>5, <2>3, TopSet DEF v
    <2>6. \A i \in 1..(Len(f) - 1) : v[i].at \in {"handed_off", "asking"}
        BY <1>1, <2>5 DEF Shape
    <2>7. \A i \in 1..Len(f) : v[i].at = "want" <=> f[i].at = "want"
        <3>1. \A i \in 1..Len(f) : i = Len(f) \/ i \in 1..(Len(f) - 1)
            BY <2>10
        <3> QED
            BY <2>3, <2>4, <2>5, <3>1
    <2>8. Shape(v) /\ \A a \in Handing : Held(v, a) <=> Held(f, a)
        BY <1>1, <2>5, <2>6, <2>7, Same
    <2>9. \A a \in Handing : Held(v, a) <=> Held(Hand!Front(hStack[c]), a)
        BY <2>8 DEF f
    <2> QED
        BY <1>2, <1>3, <2>1, <2>2, <2>5, <2>8, <2>9, TopGoes
<1> QED
    BY <1>4, <1>5

LEMMA HandInit ==
    ASSUME Hand!HandoffAssumption, Hand!Init PROVE HandInv
<1>1. \A c \in Callers : hStack[c] = <<>> /\ hCall[c].out = "idle"
    BY DEF Hand!Init, Hand!NoCall
<1>2. HandTypes
    BY DEF Hand!Init, HandTypes, Hand!NoCall, Outs
<1>3. \A c \in Callers, a \in Handing : hLock[a] # c
    BY DEF Hand!Init, Hand!HandoffAssumption
<1> QED
    BY <1>1, <1>2, <1>3, EmptyStack DEF HandInv

LEMMA HandSteps ==
    ASSUME Hand!HandoffAssumption, HandInv, [Hand!Next]_Hand!vars PROVE HandInv'
<1>1. CASE UNCHANGED Hand!vars
    BY <1>1 DEF Hand!vars, HandInv, HandTypes
<1>2. CASE Hand!Next
    <2>1. PICK c \in Callers :
            \/ \E a \in Handing :
                  \/ Hand!Ainvoke(c, a)
                  \/ \E n \in Handing, s \in SUBSET Handing : Hand!Adelegate(c, a, n, s)
            \/ hStack[c] # <<>> /\ (Hand!Work(c) \/ Hand!Raise(c) \/ Hand!Survive(c) \/ \E b \in Handing : Hand!AskTool(c, b))
        BY <1>2 DEF Hand!Next
    <2>2. CASE \E a \in Handing : \/ Hand!Ainvoke(c, a)
                                 \/ \E n \in Handing, s \in SUBSET Handing : Hand!Adelegate(c, a, n, s)
        BY <2>2, CallsKeep
    <2>3. CASE hStack[c] # <<>> /\ Hand!Work(c)
        <3>1. CASE Hand!TakeTurn(c)
            BY <2>3, <3>1, TakesKeep
        <3>2. CASE Hand!Return(c)
            BY <2>3, <3>2, HandReturns
        <3>3. CASE \E n \in Hand!Mentioned(Hand!Top(c).agent), s \in SUBSET Handing : Hand!HandOff(c, n, s)
            BY <2>3, <3>3, HandOffKeeps
        <3>4. CASE Hand!Raise(c)
            BY <2>3, <3>4, RaiseKeep
        <3> QED
            BY <2>3, <3>1, <3>2, <3>3, <3>4 DEF Hand!Work
    <2>4. CASE hStack[c] # <<>> /\ Hand!Raise(c)
        BY <2>4, RaiseKeep
    <2>5. CASE hStack[c] # <<>> /\ Hand!Survive(c)
        BY <2>5, SurviveKeeps
    <2>6. CASE hStack[c] # <<>> /\ \E b \in Handing : Hand!AskTool(c, b)
        BY <2>6, AskKeeps
    <2> QED
        BY <2>1, <2>2, <2>3, <2>4, <2>5, <2>6
<1> QED
    BY <1>1, <1>2

\* A turn below the top of a call waits for the one above it, and an agent is locked
\* exactly while one turn is on it, through hand-offs, tools and errors (_hold_turn_lock).
THEOREM HandHolds == Hand!HandoffAssumption /\ Hand!Spec => [](Hand!TypeOK /\ Hand!LocksAreHeld)
<1> SUFFICES ASSUME Hand!HandoffAssumption PROVE Hand!Spec => [](Hand!TypeOK /\ Hand!LocksAreHeld)
    OBVIOUS
<1>1. Hand!Init => HandInv
    BY HandInit
<1>2. HandInv /\ [Hand!Next]_Hand!vars => HandInv'
    BY HandSteps
<1>3. ASSUME HandInv PROVE Hand!TypeOK
    <2>1. \A c \in Callers : hCall[c].out \in Outs
        BY <1>3 DEF HandInv, HandTypes
    <2> QED
        BY <1>3, <2>1 DEF HandInv, Shape, Hand!TypeOK, Outs
<1>4. ASSUME HandInv PROVE Hand!LocksAreHeld
    <2>1. \A c \in Callers : DOMAIN hStack[c] = 1..Len(hStack[c])
        BY <1>4 DEF HandInv, HandTypes
    <2>2. ASSUME NEW c \in Callers, NEW a \in Handing
          PROVE  (hLock[a] = c) = \E i \in DOMAIN hStack[c] : hStack[c][i].agent = a /\ hStack[c][i].at # "want"
        <3>1. hLock[a] = c <=> \E i \in DOMAIN hStack[c] : hStack[c][i].agent = a /\ hStack[c][i].at # "want"
            BY <1>4, <2>1 DEF HandInv, Held
        <3> QED
            BY <3>1
    <2> QED
        BY <2>2 DEF Hand!LocksAreHeld
<1> QED
    BY <1>1, <1>2, <1>3, <1>4, PTL DEF Hand!Spec

-------------------------------------------------------------------------------
(* The turns of an agent: its plan, cache, interrupts and session memory.    *)

Hows == {"none", "handoff", "cached", "aborted", "answered"}
TurnT == [ph : Agent!Phases, k : Nat, q : Queries \cup {None}, text : Queries \cup {None}, plan : Agent!Plan \cup {None},
          pat : Registered \cup {None}, direct : BOOLEAN, replay : BOOLEAN, res : Agent!Outputs \cup {None},
          agreed : SUBSET Registered, ran : Registered \cup {None}, short : BOOLEAN,
          work : Nat, usage : Nat, how : Hows]
AgentT == [plan : Agent!Plan \cup {None}, text : Queries \cup {None}, last : {None}]
SeenT == [calls : Nat, locks : Nat, resumed : BOOLEAN]
EntryT == [out : Agent!Outputs, pat : Registered, age : 0..(MaxAge + 1)]
Line == [q : Queries \cup {"RESUME"}, n : Nat]

Chosen == {"handoff", "cache", "before", "coerce", "run", "after", "post", "keep", "store", "end"}
Ran == {"after", "post", "keep", "store", "end"}
KeptPhases == {"keep", "store", "end"}

TurnTypes ==
    /\ tSetup \in TurnSetups /\ tTurn \in TurnT /\ tAgent \in AgentT /\ tSeen \in SeenT
    /\ tCache \subseteq EntryT /\ (\A e \in tCache : Ttl[e.pat] > 0) /\ tMemory \in Seq(Line) /\ tN \in 0..tSetup.turns

PhaseInv ==
    /\ IF tTurn.ph = "idle" THEN tTurn = Agent!NoTurn ELSE tTurn.q \in Queries /\ tTurn.k \in 1..tN
    /\ tTurn.ph = "lock" => tTurn.text \in Queries /\ tAgent.plan = None
    /\ tTurn.ph \in Chosen => tTurn.pat \in Registered
    /\ tTurn.ph \in Ran => tTurn.res \in Agent!Outputs
    /\ tTurn.ph \in {"after", "post", "keep"} => tTurn.res.pat = tTurn.pat
    /\ tTurn.ph \notin {"store", "end"} => tTurn.how = "none"

ReplayInv ==
    /\ tTurn.replay => /\ tTurn.ph \in Chosen \ {"handoff", "cache"}
                      /\ tTurn.pat \in {tTurn.plan.pat, "REACT"} /\ tTurn.how # "cached"
    /\ tSetup.frozen =>
         /\ tAgent.plan # None => tAgent.plan.prompt = Agent!AgentPrompt
         /\ tTurn.ph = "open" => tTurn.plan # None /\ tTurn.plan.prompt = Agent!AgentPrompt
    /\ tSetup.frozen /\ ~tSetup.callable => tTurn.ph \notin {"classify", "handoff", "cache"}

TurnAsked ==
    /\ tTurn.ran \in {None, tTurn.pat} /\ (tTurn.ph \notin Ran => tTurn.ran = None)
    /\ tTurn.ph = "coerce" /\ tTurn.pat \in tSetup.before => tTurn.pat \in tTurn.agreed
    /\ tTurn.ph = "run" /\ tTurn.pat \in tSetup.before => tTurn.pat \in tTurn.agreed \/ tTurn.q \in NeedsTools
    /\ tTurn.ran \in tSetup.before => tTurn.ran \in tTurn.agreed \/ tTurn.q \in NeedsTools

ShortInv ==
    /\ tTurn.direct => tTurn.ph \in Chosen
    /\ tTurn.direct /\ tTurn.ph \in {"handoff", "cache", "before", "coerce"} => tTurn.pat = "DIRECT"
    /\ tTurn.short => tTurn.pat = "DIRECT" /\ tTurn.work = 0 /\ tTurn.ph \in Ran
    /\ tTurn.ph \notin Ran => tTurn.work = 0
    /\ tTurn.ph = "keep" \/ tTurn.how = "answered" => tTurn.usage >= tTurn.work

MemoryInv ==
    /\ \A i \in 1..Len(tMemory) : tMemory[i].n \in 1..tN
    /\ tTurn.ph \notin KeptPhases \/ tTurn.how = "aborted" => \A i \in 1..Len(tMemory) : tMemory[i].n # tTurn.k
    /\ tTurn.ph \in KeptPhases /\ tTurn.how # "aborted" =>
         \E i \in 1..Len(tMemory) : \A j \in 1..Len(tMemory) : tMemory[j].n = tTurn.k <=> i = j

TurnInv == TurnTypes /\ PhaseInv /\ ReplayInv /\ TurnAsked /\ ShortInv /\ MemoryInv /\ Agent!CacheHoldsWork /\ Agent!ClassifiesOnce

LEMMA TurnFields ==
    ASSUME NEW t \in TurnT
    PROVE  /\ t.ph \in Agent!Phases /\ t.k \in Nat /\ t.q \in Queries \cup {None} /\ t.text \in Queries \cup {None}
           /\ t.plan \in Agent!Plan \cup {None} /\ t.pat \in Registered \cup {None} /\ t.direct \in BOOLEAN
           /\ t.replay \in BOOLEAN /\ t.res \in Agent!Outputs \cup {None} /\ t.agreed \in SUBSET Registered
           /\ t.ran \in Registered \cup {None} /\ t.short \in BOOLEAN /\ t.work \in Nat /\ t.usage \in Nat
           /\ t.how \in Hows
BY DEF TurnT

LEMMA GoesTo ==
    ASSUME NEW t \in TurnT, NEW u, NEW p \in Agent!Phases, u = [t EXCEPT !.ph = p]
    PROVE  /\ u \in TurnT /\ u.ph = p /\ u.k = t.k /\ u.q = t.q /\ u.text = t.text /\ u.plan = t.plan
           /\ u.pat = t.pat /\ u.direct = t.direct /\ u.replay = t.replay /\ u.res = t.res
           /\ u.agreed = t.agreed /\ u.ran = t.ran /\ u.short = t.short /\ u.work = t.work
           /\ u.usage = t.usage /\ u.how = t.how
BY DEF TurnT

LEMMA SetUp ==
    ASSUME Agent!TurnAssumption, TurnInv
    PROVE  /\ None \notin tSetup.before /\ tSetup.turns \in Nat
           /\ tSetup.frozen \in BOOLEAN /\ tSetup.callable \in BOOLEAN
           /\ "DIRECT" \in Registered /\ "REACT" \in Registered /\ NeedsTools \subseteq Queries
BY DEF Agent!TurnAssumption, TurnInv, TurnTypes

(* Most steps change nothing but the turn.                                 *)
LEMMA Calm ==
    ASSUME TurnInv, UNCHANGED <<tSetup, tAgent, tCache, tN, tSeen>>, tTurn' \in TurnT, tMemory' \in Seq(Line)
    PROVE  TurnTypes' /\ Agent!CacheHoldsWork' /\ Agent!ClassifiesOnce'
<1>1. TurnTypes'
    BY DEF TurnInv, TurnTypes
<1>2. Agent!CacheHoldsWork'
    BY DEF TurnInv, Agent!CacheHoldsWork
<1>3. Agent!ClassifiesOnce'
    BY DEF TurnInv, Agent!ClassifiesOnce
<1> QED
    BY <1>1, <1>2, <1>3

LEMMA Quiet ==
    ASSUME TurnInv, UNCHANGED <<tSetup, tAgent, tCache, tMemory, tN, tSeen>>, tTurn' \in TurnT, tTurn'.k = tTurn.k,
           tTurn'.ph \in KeptPhases /\ tTurn'.how # "aborted" <=> tTurn.ph \in KeptPhases /\ tTurn.how # "aborted"
    PROVE  TurnTypes' /\ Agent!CacheHoldsWork' /\ Agent!ClassifiesOnce' /\ MemoryInv'
<1>1. TurnTypes' /\ Agent!CacheHoldsWork' /\ Agent!ClassifiesOnce'
    <2>1. tMemory' \in Seq(Line)
        BY DEF TurnInv, TurnTypes
    <2> QED
        BY <2>1, Calm
<1>2. MemoryInv
    BY DEF TurnInv
<1>3. MemoryInv'
    <2>1. \A i \in 1..Len(tMemory') : tMemory'[i].n \in 1..tN'
        BY <1>2 DEF MemoryInv
    <2>2. tTurn'.ph \notin KeptPhases \/ tTurn'.how = "aborted" => \A i \in 1..Len(tMemory') : tMemory'[i].n # tTurn'.k
        BY <1>2 DEF MemoryInv
    <2>3. tTurn'.ph \in KeptPhases /\ tTurn'.how # "aborted" =>
            \E i \in 1..Len(tMemory') : \A j \in 1..Len(tMemory') : tMemory'[j].n = tTurn'.k <=> i = j
        BY <1>2 DEF MemoryInv
    <2> QED
        BY <2>1, <2>2, <2>3 DEF MemoryInv
<1> QED
    BY <1>1, <1>3

(* A line is written, and only one of the turn.                            *)
LEMMA Writes ==
    ASSUME TurnInv, tTurn.ph \notin KeptPhases \cup {"idle"}, tMemory' = Agent!Recorded, UNCHANGED <<tSetup, tN>>,
           tTurn'.k = tTurn.k, tTurn'.ph \in KeptPhases, tTurn'.how # "aborted"
    PROVE  tMemory' \in Seq(Line) /\ MemoryInv'
<1> DEFINE l == [q |-> tTurn.q, n |-> tTurn.k]
           m == tMemory'
<1>1. tTurn.q \in Queries /\ tTurn.k \in 1..tN /\ tN \in Nat /\ tMemory \in Seq(Line)
    BY DEF TurnInv, PhaseInv, TurnTypes
<1>2. l \in Line /\ l.n = tTurn.k
    BY <1>1 DEF Line
<1>3. m = Append(tMemory, l)
    BY DEF Agent!Recorded
<1> HIDE DEF l, m
<1>4. /\ m \in Seq(Line) /\ Len(m) = Len(tMemory) + 1 /\ Len(tMemory) \in Nat
      /\ \A i \in 1..Len(tMemory) : m[i] = tMemory[i]
      /\ m[Len(tMemory) + 1] = l
    BY <1>1, <1>2, <1>3
<1>5. \A i \in 1..Len(tMemory) : tMemory[i].n \in 1..tN /\ tMemory[i].n # tTurn.k
    BY DEF TurnInv, MemoryInv
<1>6. \A i \in 1..Len(m) : m[i].n \in 1..tN
    BY <1>1, <1>2, <1>4, <1>5
<1>7. \A j \in 1..Len(m) : m[j].n = tTurn.k <=> Len(tMemory) + 1 = j
    BY <1>1, <1>2, <1>4, <1>5
<1>8. Len(tMemory) + 1 \in 1..Len(m)
    BY <1>4
<1>9. \E i \in 1..Len(m) : \A j \in 1..Len(m) : m[j].n = tTurn.k <=> i = j
    BY <1>7, <1>8
<1>10. \E i \in 1..Len(m) : \A j \in 1..Len(m) : m[j].n = tTurn'.k <=> i = j
    BY <1>9
<1> QED
    BY <1>4, <1>6, <1>10 DEF MemoryInv, m

LEMMA OpenKeeps ==
    ASSUME Agent!TurnAssumption, TurnInv, Agent!OpenTurn, UNCHANGED tSetup PROVE TurnInv'
<1>1. tTurn.ph = "open" /\ tTurn \in TurnT /\ tTurn.ph \in Agent!Phases /\ tTurn.plan \in Agent!Plan \cup {None}
    BY TurnFields DEF Agent!OpenTurn, TurnInv, TurnTypes
<1>2. UNCHANGED <<tSetup, tAgent, tCache, tMemory, tN, tSeen>>
    BY DEF Agent!OpenTurn
<1>3. /\ tTurn' \in TurnT /\ tTurn'.ph = IF Agent!FrozenReplayActive THEN "before" ELSE "classify"
      /\ tTurn'.pat = IF Agent!FrozenReplayActive THEN tTurn.plan.pat ELSE tTurn.pat
      /\ tTurn'.replay = IF Agent!FrozenReplayActive THEN TRUE ELSE tTurn.replay
      /\ tTurn'.k = tTurn.k /\ tTurn'.q = tTurn.q /\ tTurn'.plan = tTurn.plan /\ tTurn'.direct = tTurn.direct
      /\ tTurn'.agreed = tTurn.agreed /\ tTurn'.ran = tTurn.ran /\ tTurn'.short = tTurn.short
      /\ tTurn'.how = tTurn.how /\ tTurn'.work = tTurn.work /\ tTurn'.usage = tTurn.usage
    <2>1. CASE Agent!FrozenReplayActive
        <3> DEFINE p == tTurn.plan.pat
        <3>1. p \in Registered
            BY <1>1, <2>1 DEF Agent!FrozenReplayActive, Agent!Plan
        <3>2. tTurn' = [tTurn EXCEPT !.ph = "before", !.replay = TRUE, !.pat = p]
            BY <2>1 DEF Agent!OpenTurn
        <3>3. tTurn'.pat = tTurn.plan.pat
            BY <1>1, <3>2 DEF TurnT
        <3> HIDE DEF p
        <3> QED
            BY <1>1, <2>1, <3>1, <3>2, <3>3 DEF TurnT, Agent!Phases
    <2>2. CASE ~Agent!FrozenReplayActive
        <3>1. tTurn' = [tTurn EXCEPT !.ph = "classify"] /\ "classify" \in Agent!Phases
            BY <2>2 DEF Agent!OpenTurn, Agent!Goto, Agent!Phases
        <3> QED
            BY <1>1, <2>2, <3>1, GoesTo
    <2> QED
        BY <2>1, <2>2
<1>4. TurnTypes' /\ Agent!CacheHoldsWork' /\ Agent!ClassifiesOnce' /\ MemoryInv'
    BY <1>1, <1>2, <1>3, Quiet DEF KeptPhases
<1>5. tTurn.plan \in Agent!Plan => tTurn.plan.pat \in Registered
    BY DEF Agent!Plan
<1>6. PhaseInv /\ ReplayInv /\ TurnAsked /\ ShortInv /\ tSetup \in TurnSetups
    BY DEF TurnInv, TurnTypes
<1>7. PhaseInv'
    BY <1>1, <1>2, <1>3, <1>5, <1>6 DEF PhaseInv, Chosen, Ran, Agent!FrozenReplayActive
<1>8. ReplayInv'
    BY <1>1, <1>2, <1>3, <1>6 DEF ReplayInv, Chosen, Agent!FrozenReplayActive, PhaseInv, Agent!AgentPrompt
<1>9. TurnAsked'
    <2>1. tTurn'.ran = None /\ None \notin tSetup'.before /\ tTurn'.ph \in {"before", "classify"}
        BY <1>1, <1>2, <1>3, <1>6, SetUp DEF TurnAsked, Ran
    <2> QED
        BY <2>1 DEF TurnAsked
<1>10. ShortInv'
    BY <1>1, <1>2, <1>3, <1>6, TurnFields DEF ShortInv, PhaseInv, Chosen, Ran
<1> QED
    BY <1>4, <1>7, <1>8, <1>9, <1>10 DEF TurnInv

LEMMA ClassifyKeeps ==
    ASSUME Agent!TurnAssumption, TurnInv, NEW p \in tSetup.planned, NEW d \in BOOLEAN, Agent!Classify(p, d), UNCHANGED tSetup
    PROVE  TurnInv'
<1>1. tTurn.ph = "classify" /\ tTurn \in TurnT /\ tTurn.ph \in Agent!Phases
    BY TurnFields DEF Agent!Classify, TurnInv, TurnTypes
<1> DEFINE r == Agent!Coerced(p)
<1>2. r \in Registered /\ (d => r = "DIRECT")
    BY SetUp DEF Agent!Classify, Agent!Coerced
<1>3. tTurn' = [tTurn EXCEPT !.ph = "handoff", !.pat = r, !.direct = d] /\ UNCHANGED <<tAgent, tCache, tMemory, tN>>
    BY DEF Agent!Classify
<1> HIDE DEF r
<1>4. /\ tTurn' \in TurnT /\ tTurn'.ph = "handoff" /\ tTurn'.pat = r /\ tTurn'.direct = d
      /\ tTurn'.replay = tTurn.replay /\ tTurn'.k = tTurn.k /\ tTurn'.q = tTurn.q /\ tTurn'.plan = tTurn.plan
      /\ tTurn'.agreed = tTurn.agreed /\ tTurn'.ran = tTurn.ran /\ tTurn'.short = tTurn.short
      /\ tTurn'.how = tTurn.how /\ tTurn'.work = tTurn.work /\ tTurn'.usage = tTurn.usage
    BY <1>1, <1>2, <1>3 DEF TurnT, Agent!Phases
<1>5. PhaseInv /\ ReplayInv /\ TurnAsked /\ ShortInv /\ MemoryInv /\ TurnTypes /\ Agent!CacheHoldsWork
    BY DEF TurnInv
<1>6. tSeen.calls \in Nat /\ tSeen' = [tSeen EXCEPT !.calls = @ + 1] /\ tSeen \in SeenT
    BY <1>5 DEF Agent!Classify, TurnTypes, SeenT
<1>7. tSeen' \in SeenT
    BY <1>6 DEF SeenT
<1>8. TurnTypes'
    BY <1>3, <1>4, <1>5, <1>7 DEF TurnTypes
<1>9. PhaseInv'
    BY <1>1, <1>2, <1>3, <1>4, <1>5 DEF PhaseInv, Chosen, Ran
<1>10. ReplayInv'
    BY <1>1, <1>3, <1>4, <1>5 DEF ReplayInv, Chosen, Agent!AgentPrompt
<1>11. TurnAsked'
    BY <1>1, <1>3, <1>4, <1>5, SetUp DEF TurnAsked, Ran
<1>12. ShortInv'
    BY <1>1, <1>2, <1>3, <1>4, <1>5 DEF ShortInv, PhaseInv, Chosen, Ran
<1>13. MemoryInv'
    BY <1>1, <1>3, <1>4, <1>5 DEF MemoryInv, KeptPhases
<1>14. Agent!CacheHoldsWork' /\ Agent!ClassifiesOnce'
    BY <1>1, <1>3, <1>5 DEF Agent!CacheHoldsWork, Agent!ClassifiesOnce, ReplayInv
<1> QED
    BY <1>8, <1>9, <1>10, <1>11, <1>12, <1>13, <1>14 DEF TurnInv

LEMMA BeginKeeps ==
    ASSUME Agent!TurnAssumption, TurnInv, NEW q \in Queries, Agent!Begin(q), UNCHANGED tSetup PROVE TurnInv'
<1>1. /\ tTurn.ph \in {"idle", "end"} /\ tN < tSetup.turns /\ tN' = tN + 1 /\ tN \in 0..tSetup.turns /\ tSetup.turns \in Nat
      /\ UNCHANGED <<tSetup, tAgent, tCache, tMemory, tSeen>>
    BY SetUp DEF Agent!Begin, TurnInv, TurnTypes
<1>2. /\ tTurn' \in TurnT /\ tTurn'.ph = "prepare" /\ tTurn'.k = tN + 1 /\ tTurn'.q = q /\ tTurn'.direct = FALSE
      /\ tTurn'.replay = FALSE /\ tTurn'.ran = None /\ tTurn'.short = FALSE /\ tTurn'.how = "none" /\ tTurn'.work = 0
    <2>1. Agent!NoTurn \in TurnT
        BY DEF Agent!NoTurn, TurnT, Agent!Phases, Hows
    <2>2. tTurn' = [Agent!NoTurn EXCEPT !.ph = "prepare", !.k = tN + 1, !.q = q] /\ tN + 1 \in Nat
        BY <1>1 DEF Agent!Begin
    <2>3. tTurn' \in TurnT
        BY <2>1, <2>2 DEF TurnT, Agent!Phases
    <2> QED
        BY <2>2, <2>3 DEF Agent!NoTurn
<1>3. PhaseInv /\ ReplayInv /\ TurnAsked /\ ShortInv /\ MemoryInv /\ TurnTypes /\ Agent!CacheHoldsWork /\ Agent!ClassifiesOnce
    BY DEF TurnInv
<1>4. TurnTypes'
    BY <1>1, <1>2, <1>3 DEF TurnTypes
<1>5. PhaseInv'
    BY <1>1, <1>2 DEF PhaseInv, Chosen, Ran
<1>6. ReplayInv'
    BY <1>1, <1>2, <1>3 DEF ReplayInv, Agent!AgentPrompt
<1>7. TurnAsked'
    BY <1>1, <1>2, SetUp DEF TurnAsked
<1>8. ShortInv'
    BY <1>1, <1>2 DEF ShortInv, Ran
<1>9. MemoryInv'
    BY <1>1, <1>2, <1>3 DEF MemoryInv, KeptPhases
<1>10. Agent!CacheHoldsWork' /\ Agent!ClassifiesOnce'
    BY <1>1, <1>3 DEF Agent!CacheHoldsWork, Agent!ClassifiesOnce
<1> QED
    BY <1>4, <1>5, <1>6, <1>7, <1>8, <1>9, <1>10 DEF TurnInv

LEMMA EnsureKeeps ==
    ASSUME Agent!TurnAssumption, TurnInv, NEW x \in BOOLEAN, Agent!EnsureFrozenPlan(x), UNCHANGED tSetup PROVE TurnInv'
<1> DEFINE a == IF x THEN Agent!Cleared ELSE tAgent
<1>1. /\ tTurn.ph = "prepare" /\ UNCHANGED <<tSetup, tCache, tMemory, tN, tSeen>> /\ tTurn \in TurnT /\ tAgent \in AgentT
      /\ tTurn.q \in Queries
    BY DEF Agent!EnsureFrozenPlan, TurnInv, TurnTypes, PhaseInv
<1>2. PhaseInv /\ ReplayInv /\ TurnAsked /\ ShortInv /\ MemoryInv /\ TurnTypes /\ Agent!CacheHoldsWork /\ Agent!ClassifiesOnce
    BY DEF TurnInv
<1>3. a \in AgentT /\ a.plan \in Agent!Plan \cup {None} /\ a.plan \in {None, tAgent.plan}
    BY <1>1 DEF Agent!Cleared, AgentT
<1>4. IF ~tSetup.frozen \/ a.plan # None
      THEN tAgent' = a /\ tTurn' = [tTurn EXCEPT !.ph = "open", !.plan = a.plan]
      ELSE /\ tAgent' = [a EXCEPT !.text = IF @ = None THEN tTurn.q ELSE @]
           /\ tTurn' = [tTurn EXCEPT !.ph = "lock", !.text = tAgent'.text]
    BY DEF Agent!EnsureFrozenPlan
<1> HIDE DEF a
<1>5. tAgent' \in AgentT /\ tAgent'.plan = a.plan /\ (tSetup.frozen /\ a.plan = None => tAgent'.text \in Queries)
    BY <1>1, <1>3, <1>4 DEF AgentT
<1>6. /\ tTurn' \in TurnT /\ tTurn'.ph = IF ~tSetup.frozen \/ a.plan # None THEN "open" ELSE "lock"
      /\ tTurn'.plan = (IF ~tSetup.frozen \/ a.plan # None THEN a.plan ELSE tTurn.plan)
      /\ tTurn'.text = (IF ~tSetup.frozen \/ a.plan # None THEN tTurn.text ELSE tAgent'.text)
      /\ tTurn'.pat = tTurn.pat
      /\ tTurn'.replay = tTurn.replay /\ tTurn'.k = tTurn.k /\ tTurn'.q = tTurn.q /\ tTurn'.direct = tTurn.direct
      /\ tTurn'.agreed = tTurn.agreed /\ tTurn'.ran = tTurn.ran /\ tTurn'.short = tTurn.short
      /\ tTurn'.how = tTurn.how /\ tTurn'.work = tTurn.work /\ tTurn'.usage = tTurn.usage
    <2>1. CASE ~tSetup.frozen \/ a.plan # None
        <3>1. tTurn' = [tTurn EXCEPT !.ph = "open", !.plan = a.plan]
            BY <1>4, <2>1
        <3> QED
            BY <1>1, <1>3, <2>1, <3>1 DEF TurnT, Agent!Phases
    <2>2. CASE ~(~tSetup.frozen \/ a.plan # None)
        <3>1. tTurn' = [tTurn EXCEPT !.ph = "lock", !.text = tAgent'.text] /\ tAgent'.text \in Queries
            BY <1>4, <1>5, <2>2, SetUp
        <3> QED
            BY <1>1, <2>2, <3>1 DEF TurnT, Agent!Phases
    <2> QED
        BY <2>1, <2>2
<1>7. TurnTypes'
    BY <1>1, <1>2, <1>5, <1>6 DEF TurnTypes
<1>8. PhaseInv'
    BY <1>1, <1>2, <1>5, <1>6, SetUp DEF PhaseInv, Chosen, Ran
<1>9. ReplayInv'
    <2>1. tTurn'.replay = FALSE
        BY <1>1, <1>2, <1>6, TurnFields DEF ReplayInv, Chosen
    <2>2. tSetup.frozen /\ a.plan # None => a.plan.prompt = Agent!AgentPrompt
        BY <1>2, <1>3 DEF ReplayInv
    <2>3. tTurn'.ph \in {"open", "lock"} /\ (tTurn'.ph = "open" /\ tSetup.frozen => tTurn'.plan = a.plan /\ a.plan # None)
        BY <1>6, SetUp
    <2>4. Agent!AgentPrompt' = Agent!AgentPrompt
        BY <1>1 DEF Agent!AgentPrompt
    <2> QED
        BY <1>1, <1>5, <2>1, <2>2, <2>3, <2>4 DEF ReplayInv
<1>10. TurnAsked'
    BY <1>1, <1>2, <1>6, SetUp DEF TurnAsked, Ran
<1>11. ShortInv'
    BY <1>1, <1>2, <1>6 DEF ShortInv, Chosen, Ran
<1>12. MemoryInv'
    BY <1>1, <1>2, <1>6 DEF MemoryInv, KeptPhases
<1>13. Agent!CacheHoldsWork' /\ Agent!ClassifiesOnce'
    BY <1>1, <1>2 DEF Agent!CacheHoldsWork, Agent!ClassifiesOnce
<1> QED
    BY <1>7, <1>8, <1>9, <1>10, <1>11, <1>12, <1>13 DEF TurnInv

LEMMA LockKeeps ==
    ASSUME Agent!TurnAssumption, TurnInv, NEW p \in tSetup.planned, Agent!LockFrozenPlan(p), UNCHANGED tSetup PROVE TurnInv'
<1> DEFINE pl == [pat |-> Agent!Coerced(p), prompt |-> Agent!AgentPrompt, text |-> tTurn.text]
<1>1. /\ tTurn.ph = "lock" /\ UNCHANGED <<tSetup, tCache, tMemory, tN>> /\ tTurn \in TurnT /\ tAgent \in AgentT
      /\ tSeen \in SeenT /\ tTurn.q \in Queries /\ tTurn.text \in Queries
    BY DEF Agent!LockFrozenPlan, TurnInv, TurnTypes, PhaseInv
<1>2. PhaseInv /\ ReplayInv /\ TurnAsked /\ ShortInv /\ MemoryInv /\ TurnTypes /\ Agent!CacheHoldsWork /\ Agent!ClassifiesOnce
    BY DEF TurnInv
<1>3. Agent!Coerced(p) \in Registered /\ Agent!AgentPrompt \in {"fixed", "callable"}
    BY SetUp DEF Agent!Coerced, Agent!AgentPrompt
<1>4. pl \in Agent!Plan /\ pl.prompt = Agent!AgentPrompt
    BY <1>1, <1>3 DEF Agent!Plan
<1>5. pl # None
    BY <1>4 DEF Agent!TurnAssumption, Agent!Plan
<1>6. /\ tAgent' = [tAgent EXCEPT !.text = tTurn.text, !.plan = pl] /\ tTurn' = [tTurn EXCEPT !.ph = "open", !.plan = tAgent'.plan]
      /\ tSeen' = [tSeen EXCEPT !.calls = @ + 1, !.locks = @ + 1]
    BY DEF Agent!LockFrozenPlan
<1> HIDE DEF pl
<1>7. tAgent' \in AgentT /\ tAgent'.plan = pl
    BY <1>1, <1>4, <1>6 DEF AgentT
<1>8. /\ tTurn' \in TurnT /\ tTurn'.ph = "open" /\ tTurn'.plan = pl /\ tTurn'.pat = tTurn.pat
      /\ tTurn'.replay = tTurn.replay /\ tTurn'.k = tTurn.k /\ tTurn'.q = tTurn.q /\ tTurn'.direct = tTurn.direct
      /\ tTurn'.agreed = tTurn.agreed /\ tTurn'.ran = tTurn.ran /\ tTurn'.short = tTurn.short
      /\ tTurn'.how = tTurn.how /\ tTurn'.work = tTurn.work /\ tTurn'.usage = tTurn.usage
    <2>1. tTurn' = [tTurn EXCEPT !.ph = "open", !.plan = pl]
        BY <1>6, <1>7
    <2> QED
        BY <1>1, <1>4, <2>1 DEF TurnT, Agent!Phases
<1>9. /\ tSeen' \in SeenT /\ tSeen'.calls = tSeen.calls + 1 /\ tSeen'.locks = tSeen.locks + 1 /\ tSeen'.resumed = tSeen.resumed
      /\ tSeen.calls \in Nat /\ tSeen.locks \in Nat
    <2>1. tSeen.calls \in Nat /\ tSeen.locks \in Nat /\ tSeen.resumed \in BOOLEAN
        BY <1>1 DEF SeenT
    <2>2. tSeen.calls + 1 \in Nat /\ tSeen.locks + 1 \in Nat
        BY <2>1
    <2>3. tSeen' = [calls |-> tSeen.calls + 1, locks |-> tSeen.locks + 1, resumed |-> tSeen.resumed]
        BY <1>1, <1>6 DEF SeenT
    <2> QED
        BY <2>1, <2>2, <2>3 DEF SeenT
<1>10. TurnTypes'
    BY <1>1, <1>2, <1>7, <1>8, <1>9 DEF TurnTypes
<1>11. PhaseInv'
    BY <1>1, <1>2, <1>8 DEF PhaseInv, Chosen, Ran
<1>12. ReplayInv'
    <2>1. tTurn'.replay = FALSE
        BY <1>1, <1>2, <1>8, TurnFields DEF ReplayInv, Chosen
    <2>2. Agent!AgentPrompt' = Agent!AgentPrompt
        BY <1>1 DEF Agent!AgentPrompt
    <2> QED
        BY <1>1, <1>4, <1>5, <1>7, <1>8, <2>1, <2>2 DEF ReplayInv
<1>13. TurnAsked'
    BY <1>1, <1>2, <1>8, SetUp DEF TurnAsked, Ran
<1>14. ShortInv'
    BY <1>1, <1>2, <1>8 DEF ShortInv, Chosen, Ran
<1>15. MemoryInv'
    BY <1>1, <1>2, <1>8 DEF MemoryInv, KeptPhases
<1>16. Agent!CacheHoldsWork' /\ Agent!ClassifiesOnce'
    BY <1>1, <1>2, <1>9 DEF Agent!CacheHoldsWork, Agent!ClassifiesOnce
<1> QED
    BY <1>10, <1>11, <1>12, <1>13, <1>14, <1>15, <1>16 DEF TurnInv

LEMMA HandoffKeeps ==
    ASSUME Agent!TurnAssumption, TurnInv, NEW x \in BOOLEAN, Agent!Handoff(x), UNCHANGED tSetup PROVE TurnInv'
<1>1. /\ tTurn.ph = "handoff" /\ tTurn \in TurnT /\ UNCHANGED <<tSetup, tAgent, tCache, tN, tSeen>> /\ tMemory' = Agent!Recorded
      /\ tTurn.q \in Queries /\ tTurn.k \in Nat /\ tTurn.pat \in Registered
    BY TurnFields DEF Agent!Handoff, TurnInv, TurnTypes, PhaseInv, Chosen
<1>2. PhaseInv /\ ReplayInv /\ TurnAsked /\ ShortInv
    BY DEF TurnInv
<1> DEFINE r == Agent!Result(x)
<1>3. r \in Agent!Outputs
    BY <1>1 DEF Agent!Result, Agent!Outputs
<1>4. tTurn' = [tTurn EXCEPT !.ph = "store", !.res = r, !.how = "handoff"]
    BY DEF Agent!Handoff
<1> HIDE DEF r
<1>5. /\ tTurn' \in TurnT /\ tTurn'.ph = "store" /\ tTurn'.res = r /\ tTurn'.how = "handoff" /\ tTurn'.pat = tTurn.pat
      /\ tTurn'.replay = tTurn.replay /\ tTurn'.k = tTurn.k /\ tTurn'.q = tTurn.q /\ tTurn'.direct = tTurn.direct
      /\ tTurn'.agreed = tTurn.agreed /\ tTurn'.ran = tTurn.ran /\ tTurn'.short = tTurn.short
      /\ tTurn'.work = tTurn.work /\ tTurn'.usage = tTurn.usage /\ tTurn'.plan = tTurn.plan
    BY <1>1, <1>3, <1>4 DEF TurnT, Agent!Phases, Hows
<1>6. tMemory' \in Seq(Line) /\ MemoryInv'
    BY <1>1, <1>5, Writes DEF KeptPhases
<1>7. TurnTypes' /\ Agent!CacheHoldsWork' /\ Agent!ClassifiesOnce'
    BY <1>1, <1>5, <1>6, Calm
<1>8. PhaseInv'
    BY <1>1, <1>2, <1>3, <1>5 DEF PhaseInv
<1>9. ReplayInv'
    BY <1>1, <1>2, <1>5 DEF ReplayInv, Chosen, Agent!AgentPrompt
<1>10. TurnAsked'
    BY <1>1, <1>2, <1>5, SetUp DEF TurnAsked, Ran
<1>11. ShortInv'
    BY <1>1, <1>2, <1>5 DEF ShortInv, Chosen, Ran
<1> QED
    BY <1>6, <1>7, <1>8, <1>9, <1>10, <1>11 DEF TurnInv

(* A step that only moves a turn on before its handler ran.                *)
LEMMA MovesKeep ==
    ASSUME Agent!TurnAssumption, TurnInv, UNCHANGED <<tSetup, tAgent, tMemory, tN, tSeen>>,
           NEW p \in {"cache", "before"}, tTurn.ph \in {"handoff", "cache"}, tTurn' = Agent!Goto(p),
           p = "cache" => ~tSetup.frozen
    PROVE  PhaseInv' /\ ReplayInv' /\ TurnAsked' /\ ShortInv' /\ MemoryInv' /\ tTurn' \in TurnT
<1>1. /\ tTurn \in TurnT /\ tTurn' = [tTurn EXCEPT !.ph = p] /\ p \in Agent!Phases
    BY DEF TurnInv, TurnTypes, Agent!Goto, Agent!Phases
<1>2. PhaseInv /\ ReplayInv /\ TurnAsked /\ ShortInv /\ MemoryInv
    BY DEF TurnInv
<1>3. /\ tTurn' \in TurnT /\ tTurn'.ph = p /\ tTurn'.k = tTurn.k /\ tTurn'.q = tTurn.q
      /\ tTurn'.text = tTurn.text /\ tTurn'.plan = tTurn.plan
      /\ tTurn'.pat = tTurn.pat /\ tTurn'.direct = tTurn.direct /\ tTurn'.replay = tTurn.replay /\ tTurn'.res = tTurn.res
      /\ tTurn'.agreed = tTurn.agreed /\ tTurn'.ran = tTurn.ran /\ tTurn'.short = tTurn.short /\ tTurn'.work = tTurn.work
      /\ tTurn'.usage = tTurn.usage /\ tTurn'.how = tTurn.how
    BY <1>1, GoesTo
<1>4. PhaseInv'
    BY <1>2, <1>3 DEF PhaseInv, Chosen, Ran
<1>5. ReplayInv'
    BY <1>2, <1>3, SetUp DEF ReplayInv, Chosen, Agent!AgentPrompt
<1>6. TurnAsked'
    BY <1>2, <1>3, SetUp DEF TurnAsked, Ran
<1>7. ShortInv'
    BY <1>2, <1>3 DEF ShortInv, Chosen, Ran
<1>8. MemoryInv'
    BY <1>2, <1>3 DEF MemoryInv, KeptPhases
<1> QED
    BY <1>3, <1>4, <1>5, <1>6, <1>7, <1>8

LEMMA NoHandoffKeeps ==
    ASSUME Agent!TurnAssumption, TurnInv, Agent!NoHandoff, UNCHANGED tSetup PROVE TurnInv'
<1>1. tTurn.ph = "handoff" /\ UNCHANGED <<tAgent, tCache, tMemory, tN, tSeen>>
    BY DEF Agent!NoHandoff
<1>2. PICK p \in {"cache", "before"} : tTurn' = Agent!Goto(p) /\ (p = "cache" => ~tSetup.frozen)
    BY DEF Agent!NoHandoff
<1>3. PhaseInv' /\ ReplayInv' /\ TurnAsked' /\ ShortInv' /\ MemoryInv' /\ tTurn' \in TurnT
    BY <1>1, <1>2, MovesKeep
<1>4. tMemory' \in Seq(Line)
    BY <1>1 DEF TurnInv, TurnTypes
<1>5. TurnTypes' /\ Agent!CacheHoldsWork' /\ Agent!ClassifiesOnce'
    BY <1>1, <1>3, <1>4, Calm
<1> QED
    BY <1>3, <1>5 DEF TurnInv

LEMMA CacheMissKeeps ==
    ASSUME Agent!TurnAssumption, TurnInv, NEW e \in tCache \cup {None}, Agent!CacheMiss(e), UNCHANGED tSetup PROVE TurnInv'
<1>1. tTurn.ph = "cache" /\ UNCHANGED <<tAgent, tMemory, tN, tSeen>> /\ tCache' = tCache \ {e} /\ tTurn' = Agent!Goto("before")
    BY DEF Agent!CacheMiss
<1>2. PhaseInv' /\ ReplayInv' /\ TurnAsked' /\ ShortInv' /\ MemoryInv' /\ tTurn' \in TurnT
    BY <1>1, MovesKeep
<1>3. TurnTypes'
    BY <1>1, <1>2 DEF TurnInv, TurnTypes
<1>4. Agent!CacheHoldsWork' /\ Agent!ClassifiesOnce'
    BY <1>1 DEF TurnInv, Agent!CacheHoldsWork, Agent!ClassifiesOnce
<1> QED
    BY <1>2, <1>3, <1>4 DEF TurnInv

LEMMA CacheHitKeeps ==
    ASSUME Agent!TurnAssumption, TurnInv, NEW e \in tCache, Agent!CacheHit(e), UNCHANGED tSetup PROVE TurnInv'
<1>1. /\ tTurn.ph = "cache" /\ tTurn \in TurnT /\ UNCHANGED <<tSetup, tAgent, tCache, tN, tSeen>> /\ tMemory' = Agent!Recorded
      /\ tTurn.q \in Queries /\ tTurn.k \in Nat /\ tTurn.pat \in Registered /\ e \in EntryT
    BY TurnFields DEF Agent!CacheHit, TurnInv, TurnTypes, PhaseInv, Chosen
<1>2. PhaseInv /\ ReplayInv /\ TurnAsked /\ ShortInv
    BY DEF TurnInv
<1> DEFINE r == [e.out EXCEPT !.pat = e.pat, !.ok = TRUE]
<1>3. r \in Agent!Outputs
    BY <1>1 DEF EntryT, Agent!Outputs
<1>4. tTurn' = [tTurn EXCEPT !.ph = "store", !.how = "cached", !.res = r]
    BY DEF Agent!CacheHit
<1> HIDE DEF r
<1>5. /\ tTurn' \in TurnT /\ tTurn'.ph = "store" /\ tTurn'.res = r /\ tTurn'.how = "cached" /\ tTurn'.pat = tTurn.pat
      /\ tTurn'.replay = tTurn.replay /\ tTurn'.k = tTurn.k /\ tTurn'.q = tTurn.q /\ tTurn'.direct = tTurn.direct
      /\ tTurn'.agreed = tTurn.agreed /\ tTurn'.ran = tTurn.ran /\ tTurn'.short = tTurn.short
      /\ tTurn'.work = tTurn.work /\ tTurn'.usage = tTurn.usage /\ tTurn'.plan = tTurn.plan
    BY <1>1, <1>3, <1>4 DEF TurnT, Agent!Phases, Hows
<1>6. tMemory' \in Seq(Line) /\ MemoryInv'
    BY <1>1, <1>5, Writes DEF KeptPhases
<1>7. TurnTypes' /\ Agent!CacheHoldsWork' /\ Agent!ClassifiesOnce'
    BY <1>1, <1>5, <1>6, Calm
<1>8. PhaseInv'
    BY <1>1, <1>2, <1>3, <1>5 DEF PhaseInv
<1>9. ReplayInv'
    BY <1>1, <1>2, <1>5 DEF ReplayInv, Chosen, Agent!AgentPrompt
<1>10. TurnAsked'
    BY <1>1, <1>2, <1>5, SetUp DEF TurnAsked, Ran
<1>11. ShortInv'
    BY <1>1, <1>2, <1>5 DEF ShortInv, Chosen, Ran
<1> QED
    BY <1>6, <1>7, <1>8, <1>9, <1>10, <1>11 DEF TurnInv

(* What only ages or drops entries of the cache.                           *)
LEMMA AgingKeeps ==
    ASSUME TurnInv, UNCHANGED <<tSetup, tAgent, tTurn, tMemory, tN, tSeen>>, tCache' \subseteq EntryT,
           \A e \in tCache' : \E f \in tCache : e.out = f.out /\ e.pat = f.pat
    PROVE  TurnInv'
<1>1. PhaseInv /\ ReplayInv /\ TurnAsked /\ ShortInv /\ MemoryInv /\ TurnTypes /\ Agent!CacheHoldsWork /\ Agent!ClassifiesOnce
    BY DEF TurnInv
<1>2. TurnTypes'
    BY <1>1 DEF TurnTypes
<1>3. Agent!CacheHoldsWork'
    BY <1>1 DEF Agent!CacheHoldsWork
<1>4. PhaseInv' /\ ReplayInv' /\ TurnAsked' /\ ShortInv' /\ MemoryInv' /\ Agent!ClassifiesOnce'
    BY <1>1 DEF PhaseInv, ReplayInv, TurnAsked, ShortInv, MemoryInv, Agent!ClassifiesOnce, Agent!AgentPrompt
<1> QED
    BY <1>1, <1>2, <1>3, <1>4 DEF TurnInv

LEMMA CleanupKeeps ==
    ASSUME TurnInv, Agent!CacheCleanup, UNCHANGED tSetup PROVE TurnInv'
<1>1. tCache' \subseteq tCache /\ tCache \subseteq EntryT
    BY DEF Agent!CacheCleanup, TurnInv, TurnTypes
<1>2. \A e \in tCache' : \E f \in tCache : e.out = f.out /\ e.pat = f.pat
    BY <1>1
<1> QED
    BY <1>1, <1>2, AgingKeeps DEF Agent!CacheCleanup

LEMMA TickKeeps ==
    ASSUME Agent!TurnAssumption, TurnInv, Agent!Tick, UNCHANGED tSetup PROVE TurnInv'
<1>1. tCache \subseteq EntryT /\ MaxAge \in Nat
    BY DEF TurnInv, TurnTypes, Agent!TurnAssumption
<1>2. ASSUME NEW e \in tCache' PROVE e \in EntryT /\ \E f \in tCache : e.out = f.out /\ e.pat = f.pat
    <2>1. PICK f \in tCache : e = [f EXCEPT !.age = IF @ > MaxAge THEN @ ELSE @ + 1]
        BY DEF Agent!Tick
    <2>2. f \in EntryT /\ f.age \in 0..(MaxAge + 1)
        BY <1>1 DEF EntryT
    <2>3. (IF f.age > MaxAge THEN f.age ELSE f.age + 1) \in 0..(MaxAge + 1)
        BY <1>1, <2>2
    <2>4. e \in EntryT /\ e.out = f.out /\ e.pat = f.pat
        BY <2>1, <2>2, <2>3 DEF EntryT
    <2> QED
        BY <2>4
<1> QED
    BY <1>2, AgingKeeps DEF Agent!Tick

LEMMA BeforeKeeps ==
    ASSUME Agent!TurnAssumption, TurnInv, NEW x \in BOOLEAN, Agent!InterruptBefore(x), UNCHANGED tSetup PROVE TurnInv'
<1>1. /\ tTurn.ph = "before" /\ tTurn \in TurnT /\ UNCHANGED <<tSetup, tAgent, tCache, tMemory, tN, tSeen>>
      /\ tTurn.q \in Queries /\ tTurn.k \in Nat /\ tTurn.pat \in Registered /\ tTurn.agreed \in SUBSET Registered
    BY TurnFields DEF Agent!InterruptBefore, TurnInv, TurnTypes, PhaseInv, Chosen
<1>2. PhaseInv /\ ReplayInv /\ TurnAsked /\ ShortInv
    BY DEF TurnInv
<1> DEFINE g == IF tTurn.pat \in tSetup.before THEN tTurn.agreed \cup {tTurn.pat} ELSE tTurn.agreed
           r == Agent!Result(FALSE)
<1>3. g \in SUBSET Registered /\ r \in Agent!Outputs
    BY <1>1 DEF Agent!Result, Agent!Outputs
<1>4. tTurn' = IF x THEN [tTurn EXCEPT !.ph = "coerce", !.agreed = g]
              ELSE [tTurn EXCEPT !.ph = "store", !.res = r, !.how = "aborted"]
    BY DEF Agent!InterruptBefore
<1>5. tTurn.pat \in tSetup.before => tTurn.pat \in g
    OBVIOUS
<1> HIDE DEF g, r
<1>6. /\ tTurn' \in TurnT /\ tTurn'.ph = (IF x THEN "coerce" ELSE "store") /\ tTurn'.pat = tTurn.pat
      /\ tTurn'.agreed = (IF x THEN g ELSE tTurn.agreed) /\ tTurn'.res = (IF x THEN tTurn.res ELSE r)
      /\ tTurn'.how = (IF x THEN tTurn.how ELSE "aborted")
      /\ tTurn'.replay = tTurn.replay /\ tTurn'.k = tTurn.k /\ tTurn'.q = tTurn.q /\ tTurn'.direct = tTurn.direct
      /\ tTurn'.ran = tTurn.ran /\ tTurn'.short = tTurn.short
      /\ tTurn'.work = tTurn.work /\ tTurn'.usage = tTurn.usage /\ tTurn'.plan = tTurn.plan
    <2>1. CASE x
        <3>1. tTurn' = [tTurn EXCEPT !.ph = "coerce", !.agreed = g]
            BY <1>4, <2>1
        <3> QED
            BY <1>1, <1>3, <2>1, <3>1 DEF TurnT, Agent!Phases
    <2>2. CASE ~x
        <3>1. tTurn' = [tTurn EXCEPT !.ph = "store", !.res = r, !.how = "aborted"]
            BY <1>4, <2>2
        <3> QED
            BY <1>1, <1>3, <2>2, <3>1 DEF TurnT, Agent!Phases, Hows
    <2> QED
        BY <2>1, <2>2
<1>7. tTurn'.ph \in KeptPhases /\ tTurn'.how # "aborted" <=> tTurn.ph \in KeptPhases /\ tTurn.how # "aborted"
    BY <1>1, <1>6 DEF KeptPhases
<1>8. TurnTypes' /\ Agent!CacheHoldsWork' /\ Agent!ClassifiesOnce' /\ MemoryInv'
    BY <1>1, <1>6, <1>7, Quiet
<1>9. PhaseInv'
    BY <1>1, <1>2, <1>3, <1>6 DEF PhaseInv, Chosen, Ran
<1>10. ReplayInv'
    BY <1>1, <1>2, <1>6, SetUp DEF ReplayInv, Chosen, Agent!AgentPrompt, PhaseInv
<1>11. TurnAsked'
    <2>1. tTurn'.ran = None /\ None \notin tSetup'.before /\ tTurn'.ph \in {"coerce", "store"}
        BY <1>1, <1>2, <1>6, SetUp DEF TurnAsked, Ran
    <2>2. tTurn'.ph = "coerce" /\ tTurn'.pat \in tSetup'.before => tTurn'.pat \in tTurn'.agreed
        BY <1>1, <1>5, <1>6
    <2> QED
        BY <2>1, <2>2 DEF TurnAsked
<1>12. ShortInv'
    BY <1>1, <1>2, <1>6 DEF ShortInv, Chosen, Ran, PhaseInv
<1> QED
    BY <1>8, <1>9, <1>10, <1>11, <1>12 DEF TurnInv

LEMMA CoerceKeeps ==
    ASSUME Agent!TurnAssumption, TurnInv, Agent!CoerceDirect, UNCHANGED tSetup PROVE TurnInv'
<1> DEFINE tools == tTurn.pat = "DIRECT" /\ tTurn.q \in NeedsTools
           short == tTurn.direct /\ ~tTurn.replay /\ ~tools /\ ~tSetup.custom
           r == Agent!Result(TRUE)
           p == IF tools THEN "REACT" ELSE tTurn.pat
<1>1. /\ tTurn.ph = "coerce" /\ tTurn \in TurnT /\ UNCHANGED <<tSetup, tAgent, tCache, tMemory, tN, tSeen>>
      /\ tTurn.q \in Queries /\ tTurn.k \in Nat /\ tTurn.pat \in Registered
    BY TurnFields DEF Agent!CoerceDirect, TurnInv, TurnTypes, PhaseInv, Chosen
<1>2. PhaseInv /\ ReplayInv /\ TurnAsked /\ ShortInv
    BY DEF TurnInv
<1>3. p \in Registered /\ r \in Agent!Outputs /\ r.pat = tTurn.pat
    BY <1>1, SetUp DEF Agent!Result, Agent!Outputs
<1>4. tTurn' = IF short THEN [tTurn EXCEPT !.ph = "after", !.short = TRUE, !.usage = 1, !.res = r]
              ELSE [tTurn EXCEPT !.ph = "run", !.pat = p]
    BY DEF Agent!CoerceDirect
<1>5. (short => tTurn.direct) /\ (p = tTurn.pat \/ (p = "REACT" /\ tTurn.q \in NeedsTools))
    OBVIOUS
<1> HIDE DEF tools, short, p, r
<1>6. /\ tTurn' \in TurnT /\ tTurn'.ph = (IF short THEN "after" ELSE "run")
      /\ tTurn'.pat = (IF short THEN tTurn.pat ELSE p) /\ tTurn'.short = (IF short THEN TRUE ELSE tTurn.short)
      /\ tTurn'.res = (IF short THEN r ELSE tTurn.res) /\ tTurn'.usage = (IF short THEN 1 ELSE tTurn.usage)
      /\ tTurn'.agreed = tTurn.agreed /\ tTurn'.how = tTurn.how
      /\ tTurn'.replay = tTurn.replay /\ tTurn'.k = tTurn.k /\ tTurn'.q = tTurn.q /\ tTurn'.direct = tTurn.direct
      /\ tTurn'.ran = tTurn.ran /\ tTurn'.work = tTurn.work /\ tTurn'.plan = tTurn.plan
    <2>1. CASE short
        <3>1. tTurn' = [tTurn EXCEPT !.ph = "after", !.short = TRUE, !.usage = 1, !.res = r]
            BY <1>4, <2>1
        <3> QED
            BY <1>1, <1>3, <2>1, <3>1 DEF TurnT, Agent!Phases
    <2>2. CASE ~short
        <3>1. tTurn' = [tTurn EXCEPT !.ph = "run", !.pat = p]
            BY <1>4, <2>2
        <3> QED
            BY <1>1, <1>3, <2>2, <3>1 DEF TurnT, Agent!Phases
    <2> QED
        BY <2>1, <2>2
<1>7. tTurn'.ph \in KeptPhases /\ tTurn'.how # "aborted" <=> tTurn.ph \in KeptPhases /\ tTurn.how # "aborted"
    BY <1>1, <1>6 DEF KeptPhases
<1>8. TurnTypes' /\ Agent!CacheHoldsWork' /\ Agent!ClassifiesOnce' /\ MemoryInv'
    BY <1>1, <1>6, <1>7, Quiet
<1>9. PhaseInv'
    BY <1>1, <1>2, <1>3, <1>6 DEF PhaseInv, Chosen, Ran
<1>10. ReplayInv'
    BY <1>1, <1>2, <1>5, <1>6, SetUp DEF ReplayInv, Chosen, Agent!AgentPrompt, PhaseInv
<1>11. TurnAsked'
    <2>1. tTurn'.ran = None /\ None \notin tSetup'.before /\ tTurn'.ph \in {"after", "run"}
        BY <1>1, <1>2, <1>6, SetUp DEF TurnAsked, Ran
    <2>2. tTurn'.ph = "run" /\ tTurn'.pat \in tSetup'.before => tTurn'.pat \in tTurn'.agreed \/ tTurn'.q \in NeedsTools
        BY <1>1, <1>2, <1>5, <1>6 DEF TurnAsked
    <2> QED
        BY <2>1, <2>2 DEF TurnAsked
<1>12. ShortInv'
    BY <1>1, <1>2, <1>5, <1>6, TurnFields DEF ShortInv, Chosen, Ran, PhaseInv
<1> QED
    BY <1>8, <1>9, <1>10, <1>11, <1>12 DEF TurnInv

LEMMA ExecuteKeeps ==
    ASSUME Agent!TurnAssumption, TurnInv, NEW x \in BOOLEAN, NEW w \in 0..1, Agent!Execute(x, w), UNCHANGED tSetup PROVE TurnInv'
<1> DEFINE r == Agent!Result(x)
           u == 1 + (IF tTurn.pat \in Merging THEN w ELSE 0)
<1>1. /\ tTurn.ph = "run" /\ tTurn \in TurnT /\ UNCHANGED <<tSetup, tAgent, tCache, tMemory, tN, tSeen>>
      /\ tTurn.q \in Queries /\ tTurn.k \in Nat /\ tTurn.pat \in Registered
    BY TurnFields DEF Agent!Execute, TurnInv, TurnTypes, PhaseInv, Chosen
<1>2. PhaseInv /\ ReplayInv /\ TurnAsked /\ ShortInv
    BY DEF TurnInv
<1>3. r \in Agent!Outputs /\ r.pat = tTurn.pat /\ u \in Nat /\ w \in Nat
    BY <1>1 DEF Agent!Result, Agent!Outputs
<1>4. tTurn' = [tTurn EXCEPT !.ph = "after", !.res = r, !.ran = tTurn.pat, !.work = w, !.usage = u]
    BY DEF Agent!Execute
<1> HIDE DEF r, u
<1>5. /\ tTurn' \in TurnT /\ tTurn'.ph = "after" /\ tTurn'.pat = tTurn.pat /\ tTurn'.short = tTurn.short
      /\ tTurn'.res = r /\ tTurn'.ran = tTurn.pat /\ tTurn'.work = w /\ tTurn'.usage = u
      /\ tTurn'.agreed = tTurn.agreed /\ tTurn'.how = tTurn.how
      /\ tTurn'.replay = tTurn.replay /\ tTurn'.k = tTurn.k /\ tTurn'.q = tTurn.q /\ tTurn'.direct = tTurn.direct
      /\ tTurn'.plan = tTurn.plan
    BY <1>1, <1>3, <1>4 DEF TurnT, Agent!Phases
<1>6. tTurn'.ph \in KeptPhases /\ tTurn'.how # "aborted" <=> tTurn.ph \in KeptPhases /\ tTurn.how # "aborted"
    BY <1>1, <1>5 DEF KeptPhases
<1>7. TurnTypes' /\ Agent!CacheHoldsWork' /\ Agent!ClassifiesOnce' /\ MemoryInv'
    BY <1>1, <1>5, <1>6, Quiet
<1>8. PhaseInv'
    BY <1>1, <1>2, <1>3, <1>5 DEF PhaseInv, Chosen, Ran
<1>9. ReplayInv'
    BY <1>1, <1>2, <1>5, SetUp DEF ReplayInv, Chosen, Agent!AgentPrompt, PhaseInv
<1>10. TurnAsked'
    BY <1>1, <1>2, <1>5 DEF TurnAsked, Ran
<1>11. ShortInv'
    BY <1>1, <1>2, <1>5, TurnFields DEF ShortInv, Chosen, Ran, PhaseInv
<1> QED
    BY <1>7, <1>8, <1>9, <1>10, <1>11 DEF TurnInv

LEMMA AfterKeeps ==
    ASSUME Agent!TurnAssumption, TurnInv, NEW x \in BOOLEAN, Agent!InterruptAfter(x), UNCHANGED tSetup PROVE TurnInv'
<1> DEFINE r == Agent!Result(x /\ tTurn.res.ok)
           u == IF x \/ tTurn.short THEN tTurn.usage ELSE 0
<1>1. /\ tTurn.ph = "after" /\ tTurn \in TurnT /\ UNCHANGED <<tSetup, tAgent, tCache, tMemory, tN, tSeen>>
      /\ tTurn.q \in Queries /\ tTurn.k \in Nat /\ tTurn.pat \in Registered /\ tTurn.res \in Agent!Outputs /\ tTurn.usage \in Nat
    BY TurnFields DEF Agent!InterruptAfter, TurnInv, TurnTypes, PhaseInv, Chosen, Ran
<1>2. PhaseInv /\ ReplayInv /\ TurnAsked /\ ShortInv
    BY DEF TurnInv
<1>3. r \in Agent!Outputs /\ r.pat = tTurn.pat /\ u \in Nat
    BY <1>1 DEF Agent!Result, Agent!Outputs
<1>4. tTurn' = [tTurn EXCEPT !.ph = "post", !.res = r, !.usage = u]
    BY DEF Agent!InterruptAfter
<1> HIDE DEF r, u
<1>5. /\ tTurn' \in TurnT /\ tTurn'.ph = "post" /\ tTurn'.pat = tTurn.pat /\ tTurn'.short = tTurn.short
      /\ tTurn'.res = r /\ tTurn'.ran = tTurn.ran /\ tTurn'.work = tTurn.work /\ tTurn'.usage = u
      /\ tTurn'.agreed = tTurn.agreed /\ tTurn'.how = tTurn.how
      /\ tTurn'.replay = tTurn.replay /\ tTurn'.k = tTurn.k /\ tTurn'.q = tTurn.q /\ tTurn'.direct = tTurn.direct
      /\ tTurn'.plan = tTurn.plan
    BY <1>1, <1>3, <1>4 DEF TurnT, Agent!Phases
<1>6. tTurn'.ph \in KeptPhases /\ tTurn'.how # "aborted" <=> tTurn.ph \in KeptPhases /\ tTurn.how # "aborted"
    BY <1>1, <1>5 DEF KeptPhases
<1>7. TurnTypes' /\ Agent!CacheHoldsWork' /\ Agent!ClassifiesOnce' /\ MemoryInv'
    BY <1>1, <1>5, <1>6, Quiet
<1>8. PhaseInv'
    BY <1>1, <1>2, <1>3, <1>5 DEF PhaseInv, Chosen, Ran
<1>9. ReplayInv'
    BY <1>1, <1>2, <1>5, SetUp DEF ReplayInv, Chosen, Agent!AgentPrompt, PhaseInv
<1>10. TurnAsked'
    BY <1>1, <1>2, <1>5 DEF TurnAsked, Ran
<1>11. ShortInv'
    BY <1>1, <1>2, <1>5, TurnFields DEF ShortInv, Chosen, Ran, PhaseInv
<1> QED
    BY <1>7, <1>8, <1>9, <1>10, <1>11 DEF TurnInv

LEMMA RecordKeeps ==
    ASSUME Agent!TurnAssumption, TurnInv, Agent!RecordTurn, UNCHANGED tSetup PROVE TurnInv'
<1> DEFINE u == IF tTurn.short THEN tTurn.usage ELSE tTurn.usage + tTurn.work
<1>1. /\ tTurn.ph = "post" /\ tTurn \in TurnT /\ UNCHANGED <<tSetup, tAgent, tCache, tN, tSeen>> /\ tMemory' = Agent!Recorded
      /\ tTurn.q \in Queries /\ tTurn.k \in Nat /\ tTurn.pat \in Registered /\ tTurn.usage \in Nat /\ tTurn.work \in Nat
    BY TurnFields DEF Agent!RecordTurn, TurnInv, TurnTypes, PhaseInv, Chosen
<1>2. PhaseInv /\ ReplayInv /\ TurnAsked /\ ShortInv
    BY DEF TurnInv
<1>3. u \in Nat /\ u >= tTurn.work
    BY <1>1, <1>2 DEF ShortInv
<1>4. tTurn' = [tTurn EXCEPT !.ph = "keep", !.usage = u]
    BY DEF Agent!RecordTurn
<1> HIDE DEF u
<1>5. /\ tTurn' \in TurnT /\ tTurn'.ph = "keep" /\ tTurn'.pat = tTurn.pat /\ tTurn'.short = tTurn.short
      /\ tTurn'.res = tTurn.res /\ tTurn'.ran = tTurn.ran /\ tTurn'.work = tTurn.work /\ tTurn'.usage = u
      /\ tTurn'.agreed = tTurn.agreed /\ tTurn'.how = tTurn.how
      /\ tTurn'.replay = tTurn.replay /\ tTurn'.k = tTurn.k /\ tTurn'.q = tTurn.q /\ tTurn'.direct = tTurn.direct
      /\ tTurn'.plan = tTurn.plan
    BY <1>1, <1>3, <1>4 DEF TurnT, Agent!Phases
<1>6. tTurn'.how = "none"
    BY <1>1, <1>2, <1>5 DEF PhaseInv
<1>7. tMemory' \in Seq(Line) /\ MemoryInv'
    BY <1>1, <1>5, <1>6, Writes DEF KeptPhases
<1>8. TurnTypes' /\ Agent!CacheHoldsWork' /\ Agent!ClassifiesOnce'
    BY <1>1, <1>5, <1>7, Calm
<1>9. PhaseInv'
    BY <1>1, <1>2, <1>5 DEF PhaseInv, Chosen, Ran
<1>10. ReplayInv'
    BY <1>1, <1>2, <1>5, SetUp DEF ReplayInv, Chosen, Agent!AgentPrompt, PhaseInv
<1>11. TurnAsked'
    BY <1>1, <1>2, <1>5 DEF TurnAsked, Ran
<1>12. ShortInv'
    BY <1>1, <1>2, <1>3, <1>5, <1>6, TurnFields DEF ShortInv, Chosen, Ran, PhaseInv
<1> QED
    BY <1>7, <1>8, <1>9, <1>10, <1>11, <1>12 DEF TurnInv

LEMMA CacheResultKeeps ==
    ASSUME Agent!TurnAssumption, TurnInv, Agent!CacheResult, UNCHANGED tSetup PROVE TurnInv'
<1> DEFINE e == [out |-> tTurn.res, pat |-> tTurn.pat, age |-> 0]
<1>1. /\ tTurn.ph = "keep" /\ tTurn \in TurnT /\ UNCHANGED <<tSetup, tAgent, tMemory, tN, tSeen>>
      /\ tTurn.q \in Queries /\ tTurn.k \in Nat /\ tTurn.pat \in Registered /\ tTurn.usage \in Nat /\ tTurn.work \in Nat
      /\ tTurn.res \in Agent!Outputs /\ tTurn.res.pat = tTurn.pat
    BY TurnFields DEF Agent!CacheResult, TurnInv, TurnTypes, PhaseInv, Chosen, Ran
<1>2. PhaseInv /\ ReplayInv /\ TurnAsked /\ ShortInv /\ MemoryInv /\ TurnTypes /\ Agent!CacheHoldsWork /\ Agent!ClassifiesOnce
    BY DEF TurnInv
<1>3. e \in EntryT /\ e.out = tTurn.res /\ e.pat = tTurn.pat
    BY <1>1 DEF EntryT, Agent!TurnAssumption
<1>4. \/ tCache' = tCache
      \/ /\ tCache' = tCache \cup {e}
         /\ ~tSetup.frozen /\ Ttl[tTurn.pat] > 0 /\ (tTurn.short \/ tTurn.res.ok)
    BY DEF Agent!CacheResult, Agent!Stored
<1>5. tTurn' = [tTurn EXCEPT !.ph = "store", !.how = "answered"]
    BY DEF Agent!CacheResult
<1> HIDE DEF e
<1>6. /\ tTurn' \in TurnT /\ tTurn'.ph = "store" /\ tTurn'.pat = tTurn.pat /\ tTurn'.short = tTurn.short
      /\ tTurn'.res = tTurn.res /\ tTurn'.ran = tTurn.ran /\ tTurn'.work = tTurn.work /\ tTurn'.usage = tTurn.usage
      /\ tTurn'.agreed = tTurn.agreed /\ tTurn'.how = "answered"
      /\ tTurn'.replay = tTurn.replay /\ tTurn'.k = tTurn.k /\ tTurn'.q = tTurn.q /\ tTurn'.direct = tTurn.direct
      /\ tTurn'.plan = tTurn.plan
    BY <1>1, <1>5 DEF TurnT, Agent!Phases, Hows
<1>7. TurnTypes'
    <2>1. tCache' \subseteq EntryT /\ \A f \in tCache' : Ttl[f.pat] > 0
        BY <1>2, <1>3, <1>4 DEF TurnTypes
    <2> QED
        BY <1>1, <1>2, <1>6, <2>1 DEF TurnTypes
<1>8. Agent!CacheHoldsWork'
    <2>1. tTurn.short => tTurn.pat = "DIRECT"
        BY <1>2 DEF ShortInv
    <2>2. ASSUME NEW f \in tCache' PROVE f.pat = f.out.pat /\ ~tSetup.frozen /\ (f.out.ok \/ f.pat = "DIRECT")
        <3>1. CASE f \in tCache
            BY <1>2, <3>1 DEF Agent!CacheHoldsWork
        <3>2. CASE f \notin tCache
            <4>1. f = e /\ ~tSetup.frozen /\ (tTurn.short \/ tTurn.res.ok)
                BY <1>4, <3>2
            <4> QED
                BY <1>1, <1>3, <2>1, <4>1
        <3> QED
            BY <3>1, <3>2
    <2> QED
        BY <1>1, <2>2 DEF Agent!CacheHoldsWork
<1>9. Agent!ClassifiesOnce'
    BY <1>1, <1>2 DEF Agent!ClassifiesOnce
<1>10. MemoryInv'
    BY <1>1, <1>2, <1>6 DEF MemoryInv, KeptPhases, PhaseInv
<1>11. PhaseInv'
    BY <1>1, <1>2, <1>6 DEF PhaseInv, Chosen, Ran
<1>12. ReplayInv'
    BY <1>1, <1>2, <1>6, SetUp DEF ReplayInv, Chosen, Agent!AgentPrompt, PhaseInv
<1>13. TurnAsked'
    BY <1>1, <1>2, <1>6 DEF TurnAsked, Ran
<1>14. ShortInv'
    BY <1>1, <1>2, <1>6, TurnFields DEF ShortInv, Chosen, Ran, PhaseInv
<1> QED
    BY <1>7, <1>8, <1>9, <1>10, <1>11, <1>12, <1>13, <1>14 DEF TurnInv

LEMMA SaveKeeps ==
    ASSUME Agent!TurnAssumption, TurnInv, Agent!SaveCheckpoint, UNCHANGED tSetup PROVE TurnInv'
<1>1. /\ tTurn.ph = "store" /\ tTurn \in TurnT /\ UNCHANGED <<tSetup, tAgent, tCache, tMemory, tN, tSeen>>
      /\ tTurn' = [tTurn EXCEPT !.ph = "end"] /\ "end" \in Agent!Phases
    BY DEF Agent!SaveCheckpoint, TurnInv, TurnTypes, Agent!Goto, Agent!Phases
<1>2. PhaseInv /\ ReplayInv /\ TurnAsked /\ ShortInv
    BY DEF TurnInv
<1>3. /\ tTurn' \in TurnT /\ tTurn'.ph = "end" /\ tTurn'.k = tTurn.k /\ tTurn'.q = tTurn.q
      /\ tTurn'.text = tTurn.text /\ tTurn'.plan = tTurn.plan
      /\ tTurn'.pat = tTurn.pat /\ tTurn'.direct = tTurn.direct /\ tTurn'.replay = tTurn.replay /\ tTurn'.res = tTurn.res
      /\ tTurn'.agreed = tTurn.agreed /\ tTurn'.ran = tTurn.ran /\ tTurn'.short = tTurn.short /\ tTurn'.work = tTurn.work
      /\ tTurn'.usage = tTurn.usage /\ tTurn'.how = tTurn.how
    BY <1>1, GoesTo
<1>4. tTurn'.ph \in KeptPhases /\ tTurn'.how # "aborted" <=> tTurn.ph \in KeptPhases /\ tTurn.how # "aborted"
    BY <1>1, <1>3 DEF KeptPhases
<1>5. TurnTypes' /\ Agent!CacheHoldsWork' /\ Agent!ClassifiesOnce' /\ MemoryInv'
    BY <1>1, <1>3, <1>4, Quiet
<1>6. PhaseInv'
    BY <1>1, <1>2, <1>3 DEF PhaseInv, Chosen, Ran
<1>7. ReplayInv'
    BY <1>1, <1>2, <1>3, SetUp DEF ReplayInv, Chosen, Agent!AgentPrompt, PhaseInv
<1>8. TurnAsked'
    BY <1>1, <1>2, <1>3 DEF TurnAsked, Ran
<1>9. ShortInv'
    BY <1>1, <1>2, <1>3, TurnFields DEF ShortInv, Chosen, Ran, PhaseInv
<1> QED
    BY <1>5, <1>6, <1>7, <1>8, <1>9 DEF TurnInv

LEMMA NoTurnHolds ==
    /\ Agent!NoTurn \in TurnT /\ Agent!NoTurn.ph = "idle" /\ Agent!NoTurn.k = 0 /\ Agent!NoTurn.replay = FALSE /\ Agent!NoTurn.direct = FALSE
    /\ Agent!NoTurn.ran = None /\ Agent!NoTurn.short = FALSE /\ Agent!NoTurn.work = 0 /\ Agent!NoTurn.how = "none"
BY DEF Agent!NoTurn, TurnT, Agent!Phases, Hows

LEMMA CancelKeeps ==
    ASSUME Agent!TurnAssumption, TurnInv, Agent!Cancel, UNCHANGED tSetup PROVE TurnInv'
<1>1. tTurn' = Agent!NoTurn /\ UNCHANGED <<tSetup, tAgent, tCache, tMemory, tN, tSeen>>
    BY DEF Agent!Cancel
<1>2. PhaseInv /\ ReplayInv /\ TurnAsked /\ ShortInv /\ MemoryInv /\ TurnTypes
    BY DEF TurnInv
<1>3. /\ tTurn' \in TurnT /\ tTurn'.ph = "idle" /\ tTurn'.k = 0 /\ tTurn'.replay = FALSE /\ tTurn'.direct = FALSE
      /\ tTurn'.ran = None /\ tTurn'.short = FALSE /\ tTurn'.work = 0 /\ tTurn'.how = "none" /\ tTurn'.usage \in Nat
    BY <1>1, NoTurnHolds, TurnFields
<1>4. tMemory' \in Seq(Line)
    BY <1>1, <1>2 DEF TurnTypes
<1>5. TurnTypes' /\ Agent!CacheHoldsWork' /\ Agent!ClassifiesOnce'
    BY <1>1, <1>3, <1>4, Calm
<1>6. PhaseInv'
    BY <1>1, <1>3 DEF PhaseInv, Chosen, Ran, Agent!NoTurn
<1>7. ReplayInv'
    BY <1>1, <1>2, <1>3 DEF ReplayInv, Agent!AgentPrompt
<1>8. TurnAsked'
    BY <1>1, <1>3, SetUp DEF TurnAsked
<1>9. ShortInv'
    BY <1>3 DEF ShortInv, Ran
<1>10. MemoryInv'
    <2>1. tN \in Nat
        BY <1>2, SetUp DEF TurnTypes
    <2> QED
        BY <1>1, <1>2, <1>3, <2>1 DEF MemoryInv, KeptPhases
<1> QED
    BY <1>5, <1>6, <1>7, <1>8, <1>9, <1>10 DEF TurnInv

LEMMA ResetKeeps ==
    ASSUME Agent!TurnAssumption, TurnInv, Agent!ResetFrozen, UNCHANGED tSetup PROVE TurnInv'
<1>1. /\ tN < tSetup.turns /\ tN' = tN + 1 /\ tN \in 0..tSetup.turns /\ tSetup.turns \in Nat
      /\ UNCHANGED <<tSetup, tTurn, tCache, tMemory, tSeen>> /\ tAgent' = Agent!Cleared
    BY SetUp DEF Agent!ResetFrozen, TurnInv, TurnTypes
<1>2. PhaseInv /\ ReplayInv /\ TurnAsked /\ ShortInv /\ MemoryInv /\ TurnTypes /\ Agent!CacheHoldsWork /\ Agent!ClassifiesOnce
    BY DEF TurnInv
<1>3. tAgent' \in AgentT /\ tAgent'.plan = None
    BY <1>1, <1>2 DEF TurnTypes, AgentT, Agent!Cleared
<1>4. TurnTypes'
    BY <1>1, <1>2, <1>3 DEF TurnTypes
<1>5. PhaseInv'
    BY <1>1, <1>2, <1>3 DEF PhaseInv
<1>6. ReplayInv'
    BY <1>1, <1>2, <1>3 DEF ReplayInv, Agent!AgentPrompt
<1>7. TurnAsked' /\ ShortInv'
    BY <1>1, <1>2 DEF TurnAsked, ShortInv
<1>8. MemoryInv'
    <2>1. \A i \in 1..Len(tMemory') : tMemory'[i].n \in 1..tN'
        BY <1>1, <1>2 DEF MemoryInv
    <2>2. tTurn'.ph \notin KeptPhases \/ tTurn'.how = "aborted" => \A i \in 1..Len(tMemory') : tMemory'[i].n # tTurn'.k
        BY <1>1, <1>2 DEF MemoryInv
    <2>3. tTurn'.ph \in KeptPhases /\ tTurn'.how # "aborted" =>
            \E i \in 1..Len(tMemory') : \A j \in 1..Len(tMemory') : tMemory'[j].n = tTurn'.k <=> i = j
        BY <1>1, <1>2 DEF MemoryInv
    <2> QED
        BY <2>1, <2>2, <2>3 DEF MemoryInv
<1>9. Agent!CacheHoldsWork' /\ Agent!ClassifiesOnce'
    BY <1>1, <1>2 DEF Agent!CacheHoldsWork, Agent!ClassifiesOnce
<1> QED
    BY <1>4, <1>5, <1>6, <1>7, <1>8, <1>9 DEF TurnInv

LEMMA ResumeKeeps ==
    ASSUME Agent!TurnAssumption, TurnInv, NEW x \in BOOLEAN, Agent!Resume(x), UNCHANGED tSetup PROVE TurnInv'
<1> DEFINE l == [q |-> "RESUME", n |-> tN + 1]
<1>1. /\ tTurn.ph \in {"idle", "end"} /\ tN < tSetup.turns /\ tN' = tN + 1 /\ tN \in 0..tSetup.turns /\ tSetup.turns \in Nat
      /\ UNCHANGED <<tSetup, tTurn, tCache, tAgent>> /\ tMemory \in Seq(Line) /\ tTurn \in TurnT
      /\ tSeen \in SeenT
    BY SetUp DEF Agent!Resume, TurnInv, TurnTypes
<1>2. PhaseInv /\ ReplayInv /\ TurnAsked /\ ShortInv /\ MemoryInv /\ TurnTypes /\ Agent!CacheHoldsWork /\ Agent!ClassifiesOnce
    BY DEF TurnInv
<1>3. tSeen' \in SeenT /\ tSeen'.resumed = TRUE
    <2>1. \E c \in {tSeen.calls, tSeen.calls + 1} : tSeen' = [tSeen EXCEPT !.resumed = TRUE, !.calls = c]
        BY DEF Agent!Resume
    <2>2. tSeen.calls \in Nat /\ tSeen.calls + 1 \in Nat
        BY <1>1 DEF SeenT
    <2> QED
        BY <1>1, <2>1, <2>2 DEF SeenT
<1>4. l \in Line /\ l.n = tN + 1
    BY <1>1 DEF Line
<1>5. tMemory' = IF x THEN Append(tMemory, l) ELSE tMemory
    BY <1>1 DEF Agent!Resume
<1> HIDE DEF l
<1>6. /\ tMemory' \in Seq(Line) /\ Len(tMemory) \in Nat /\ Len(tMemory') \in {Len(tMemory), Len(tMemory) + 1}
      /\ \A i \in 1..Len(tMemory) : tMemory'[i] = tMemory[i]
      /\ \A i \in 1..Len(tMemory') : i \notin 1..Len(tMemory) => tMemory'[i] = l
    <2>1. CASE x
        BY <1>1, <1>4, <1>5, <2>1
    <2>2. CASE ~x
        BY <1>1, <1>5, <2>2
    <2> QED
        BY <2>1, <2>2
<1>7. TurnTypes'
    BY <1>1, <1>2, <1>3, <1>6 DEF TurnTypes
<1>8. tTurn.k \in 0..tN
    BY <1>1, <1>2, NoTurnHolds DEF PhaseInv
<1>9. MemoryInv'
    <2>1. \A i \in 1..Len(tMemory') : tMemory'[i].n \in 1..tN'
        BY <1>1, <1>2, <1>4, <1>6 DEF MemoryInv
    <2>2. \A i \in 1..Len(tMemory') : i \notin 1..Len(tMemory) => tMemory'[i].n # tTurn.k
        BY <1>1, <1>4, <1>6, <1>8
    <2>3. tTurn.ph \notin KeptPhases \/ tTurn.how = "aborted" => \A i \in 1..Len(tMemory') : tMemory'[i].n # tTurn.k
        BY <1>2, <1>6, <2>2 DEF MemoryInv
    <2>4. tTurn.ph \in KeptPhases /\ tTurn.how # "aborted" =>
            \E i \in 1..Len(tMemory') : \A j \in 1..Len(tMemory') : tMemory'[j].n = tTurn.k <=> i = j
        <3>1. SUFFICES ASSUME tTurn.ph \in KeptPhases, tTurn.how # "aborted"
                       PROVE  \E i \in 1..Len(tMemory') : \A j \in 1..Len(tMemory') : tMemory'[j].n = tTurn.k <=> i = j
            OBVIOUS
        <3>2. PICK i \in 1..Len(tMemory) : \A j \in 1..Len(tMemory) : tMemory[j].n = tTurn.k <=> i = j
            BY <1>2, <3>1 DEF MemoryInv
        <3>3. i \in 1..Len(tMemory')
            BY <1>6
        <3>4. ASSUME NEW j \in 1..Len(tMemory') PROVE tMemory'[j].n = tTurn.k <=> i = j
            <4>1. CASE j \in 1..Len(tMemory)
                BY <1>6, <3>2, <4>1
            <4>2. CASE j \notin 1..Len(tMemory)
                BY <2>2, <4>2
            <4> QED
                BY <4>1, <4>2
        <3> QED
            BY <3>3, <3>4
    <2>5. tTurn' = tTurn
        BY <1>1
    <2> QED
        BY <2>1, <2>3, <2>4, <2>5 DEF MemoryInv
<1>10. PhaseInv'
    BY <1>1, <1>2 DEF PhaseInv
<1>11. ReplayInv'
    BY <1>1, <1>2 DEF ReplayInv, Agent!AgentPrompt
<1>12. TurnAsked' /\ ShortInv'
    BY <1>1, <1>2 DEF TurnAsked, ShortInv
<1>13. Agent!CacheHoldsWork' /\ Agent!ClassifiesOnce'
    BY <1>1, <1>2, <1>3 DEF Agent!CacheHoldsWork, Agent!ClassifiesOnce
<1> QED
    BY <1>7, <1>9, <1>10, <1>11, <1>12, <1>13 DEF TurnInv

LEMMA InitKept ==
    ASSUME Agent!TurnAssumption, Agent!Init PROVE TurnInv
<1>1. /\ tSetup \in TurnSetups /\ tTurn = Agent!NoTurn /\ tCache = {} /\ tMemory = <<>> /\ tN = 0 /\ tSetup.turns \in Nat
      /\ None \notin tSetup.before
    BY DEF Agent!Init, Agent!TurnAssumption
<1>2. tAgent \in AgentT /\ tAgent.plan = None /\ tSeen \in SeenT /\ tSeen.calls = 0 /\ tSeen.locks = 0
    BY DEF Agent!Init, AgentT, SeenT
<1>3. /\ tTurn \in TurnT /\ tTurn.ph = "idle" /\ tTurn.k = 0 /\ tTurn.replay = FALSE /\ tTurn.direct = FALSE
      /\ tTurn.ran = None /\ tTurn.short = FALSE /\ tTurn.work = 0 /\ tTurn.how = "none"
    BY <1>1, NoTurnHolds
<1>4. TurnTypes
    BY <1>1, <1>2, <1>3 DEF TurnTypes
<1>5. PhaseInv
    BY <1>1, <1>3 DEF PhaseInv, Chosen, Ran
<1>6. ReplayInv
    BY <1>1, <1>2, <1>3 DEF ReplayInv
<1>7. TurnAsked
    BY <1>1, <1>3 DEF TurnAsked
<1>8. ShortInv
    BY <1>1, <1>3 DEF ShortInv, Ran
<1>9. MemoryInv
    BY <1>1, <1>3 DEF MemoryInv, KeptPhases
<1>10. Agent!CacheHoldsWork /\ Agent!ClassifiesOnce
    BY <1>1, <1>2 DEF Agent!CacheHoldsWork, Agent!ClassifiesOnce
<1> QED
    BY <1>4, <1>5, <1>6, <1>7, <1>8, <1>9, <1>10 DEF TurnInv

LEMMA StepKeeps ==
    ASSUME Agent!TurnAssumption, TurnInv, [Agent!Next]_Agent!vars PROVE TurnInv'
<1>1. CASE UNCHANGED Agent!vars
    BY <1>1 DEF Agent!vars, TurnInv, TurnTypes, PhaseInv, ReplayInv, TurnAsked, ShortInv, MemoryInv, Agent!CacheHoldsWork,
           Agent!ClassifiesOnce, Agent!AgentPrompt
<1>2. CASE Agent!Next
    <2> UNCHANGED tSetup /\ Agent!Step
        BY <1>2 DEF Agent!Next
    <2>1. CASE \E q \in Queries : Agent!Begin(q)
        BY <2>1, BeginKeeps
    <2>2. CASE \E x \in BOOLEAN : Agent!EnsureFrozenPlan(x)
        BY <2>2, EnsureKeeps
    <2>3. CASE \E x \in BOOLEAN : Agent!Handoff(x)
        BY <2>3, HandoffKeeps
    <2>4. CASE \E x \in BOOLEAN : Agent!InterruptBefore(x)
        BY <2>4, BeforeKeeps
    <2>5. CASE \E x \in BOOLEAN : Agent!InterruptAfter(x)
        BY <2>5, AfterKeeps
    <2>6. CASE \E x \in BOOLEAN : Agent!Resume(x)
        BY <2>6, ResumeKeeps
    <2>7. CASE \E p \in tSetup.planned : Agent!LockFrozenPlan(p)
        BY <2>7, LockKeeps
    <2>8. CASE \E p \in tSetup.planned, d \in BOOLEAN : Agent!Classify(p, d)
        BY <2>8, ClassifyKeeps
    <2>9. CASE \E e \in tCache : Agent!CacheHit(e)
        BY <2>9, CacheHitKeeps
    <2>10. CASE \E e \in tCache \cup {None} : Agent!CacheMiss(e)
        BY <2>10, CacheMissKeeps
    <2>11. CASE \E x \in BOOLEAN, w \in 0..1 : Agent!Execute(x, w)
        BY <2>11, ExecuteKeeps
    <2>12. CASE Agent!OpenTurn
        BY <2>12, OpenKeeps
    <2>13. CASE Agent!NoHandoff
        BY <2>13, NoHandoffKeeps
    <2>14. CASE Agent!CoerceDirect
        BY <2>14, CoerceKeeps
    <2>15. CASE Agent!RecordTurn
        BY <2>15, RecordKeeps
    <2>16. CASE Agent!CacheResult
        BY <2>16, CacheResultKeeps
    <2>17. CASE Agent!SaveCheckpoint
        BY <2>17, SaveKeeps
    <2>18. CASE Agent!CacheCleanup
        BY <2>18, CleanupKeeps
    <2>19. CASE Agent!Tick
        BY <2>19, TickKeeps
    <2>20. CASE Agent!Cancel
        BY <2>20, CancelKeeps
    <2>21. CASE Agent!ResetFrozen
        BY <2>21, ResetKeeps
    <2> QED
        BY <2>1, <2>2, <2>3, <2>4, <2>5, <2>6, <2>7, <2>8, <2>9, <2>10, <2>11, <2>12, <2>13, <2>14, <2>15,
           <2>16, <2>17, <2>18, <2>19, <2>20, <2>21 DEF Agent!Step
<1> QED
    BY <1>1, <1>2

LEMMA KeptTells ==
    ASSUME Agent!TurnAssumption, TurnInv
    PROVE  Agent!TypeOK /\ Agent!RecordedOnce /\ Agent!ChosenIsAsked /\ Agent!CacheHoldsWork /\ Agent!WorkersAreBilled /\ Agent!ReplayFollowsPlan
           /\ Agent!ClassifiesOnce
<1>1. PhaseInv /\ ReplayInv /\ TurnAsked /\ ShortInv /\ MemoryInv /\ TurnTypes /\ Agent!CacheHoldsWork /\ Agent!ClassifiesOnce
    BY DEF TurnInv
<1>2. Agent!TypeOK
    <2>1. tAgent.plan \in Agent!Plan \cup {None} /\ tAgent.text \in Queries \cup {None}
        BY <1>1 DEF TurnTypes, AgentT
    <2>2. tTurn.ph \in Agent!Phases /\ tTurn.pat \in Registered \cup {None} /\ tTurn.res \in Agent!Outputs \cup {None}
        BY <1>1, TurnFields DEF TurnTypes
    <2>3. \A e \in tCache : e.out \in Agent!Outputs /\ Ttl[e.pat] > 0 /\ e.age \in 0..(MaxAge + 1)
        BY <1>1 DEF TurnTypes, EntryT
    <2> QED
        BY <1>1, <2>1, <2>2, <2>3 DEF Agent!TypeOK, TurnTypes
<1>3. Agent!RecordedOnce
    <2>1. SUFFICES ASSUME tTurn.ph = "end" PROVE Agent!Count(tTurn.k) = IF tTurn.how = "aborted" THEN 0 ELSE 1
        BY DEF Agent!RecordedOnce
    <2>2. DOMAIN tMemory = 1..Len(tMemory)
        BY <1>1 DEF TurnTypes
    <2> DEFINE L == {i \in DOMAIN tMemory : tMemory[i].n = tTurn.k}
    <2>3. CASE tTurn.how = "aborted"
        <3>1. L = {}
            BY <1>1, <2>2, <2>3 DEF MemoryInv
        <3> QED
            BY <2>3, <3>1, SameCount, FS_EmptySet DEF Agent!Count
    <2>4. CASE tTurn.how # "aborted"
        <3>1. PICK i \in 1..Len(tMemory) : \A j \in 1..Len(tMemory) : tMemory[j].n = tTurn.k <=> i = j
            BY <1>1, <2>1, <2>4 DEF MemoryInv, KeptPhases
        <3>2. L = {i}
            BY <2>2, <3>1
        <3> QED
            BY <2>4, <3>2, SameCount, FS_Singleton DEF Agent!Count
    <2> QED
        BY <2>3, <2>4
<1>4. Agent!ChosenIsAsked
    BY <1>1 DEF TurnAsked, Agent!ChosenIsAsked
<1>5. Agent!WorkersAreBilled
    BY <1>1 DEF ShortInv, Agent!WorkersAreBilled
<1>6. Agent!ReplayFollowsPlan
    BY <1>1 DEF ReplayInv, TurnAsked, Agent!ReplayFollowsPlan
<1> QED
    BY <1>1, <1>2, <1>3, <1>4, <1>5, <1>6

LEMMA PlanIsLeft ==
    ASSUME TurnInv, [Agent!Next]_Agent!vars, tAgent.plan # None, tAgent'.plan # tAgent.plan
    PROVE  (tTurn.ph = "prepare" /\ tSetup.expires) \/ tN' # tN
<1>1. CASE UNCHANGED tAgent
    BY <1>1
<1>2. CASE ~UNCHANGED tAgent
    <2>1. \/ \E x \in BOOLEAN : Agent!EnsureFrozenPlan(x)
          \/ \E p \in tSetup.planned : Agent!LockFrozenPlan(p)
          \/ Agent!ResetFrozen
        BY <1>2 DEF Agent!Next, Agent!Step, Agent!vars, Agent!Begin, Agent!OpenTurn, Agent!Classify, Agent!Handoff, Agent!NoHandoff, Agent!CacheHit, Agent!CacheMiss,
               Agent!CacheCleanup, Agent!Tick, Agent!InterruptBefore, Agent!CoerceDirect, Agent!Execute, Agent!InterruptAfter, Agent!RecordTurn,
               Agent!CacheResult, Agent!SaveCheckpoint, Agent!Cancel, Agent!Resume
    <2>2. CASE \E x \in BOOLEAN : Agent!EnsureFrozenPlan(x)
        <3>1. PICK x \in BOOLEAN : Agent!EnsureFrozenPlan(x)
            BY <2>2
        <3>2. tTurn.ph = "prepare" /\ (x => tSetup.expires)
            BY <3>1 DEF Agent!EnsureFrozenPlan
        <3>3. CASE ~x
            BY <3>1, <3>3 DEF Agent!EnsureFrozenPlan
        <3> QED
            BY <3>2, <3>3
    <2>3. CASE \E p \in tSetup.planned : Agent!LockFrozenPlan(p)
        BY <2>3 DEF Agent!LockFrozenPlan, TurnInv, PhaseInv
    <2>4. CASE Agent!ResetFrozen
        <3>1. tN' = tN + 1 /\ tN \in Nat
            BY <2>4 DEF Agent!ResetFrozen, TurnInv, TurnTypes
        <3> QED
            BY <3>1
    <2> QED
        BY <2>1, <2>2, <2>3, <2>4
<1> QED
    BY <1>1, <1>2

\* However a turn ends it is recorded once, ran what the user agreed to, cached only
\* work, counts its workers' tokens and followed the frozen plan (_run_fresh_impl).
THEOREM TurnHolds ==
    Agent!TurnAssumption /\ Agent!Spec => [](Agent!TypeOK /\ Agent!RecordedOnce /\ Agent!ChosenIsAsked /\ Agent!CacheHoldsWork
                                /\ Agent!WorkersAreBilled /\ Agent!ReplayFollowsPlan /\ Agent!ClassifiesOnce)
<1> SUFFICES ASSUME Agent!TurnAssumption
             PROVE  Agent!Spec => [](Agent!TypeOK /\ Agent!RecordedOnce /\ Agent!ChosenIsAsked /\ Agent!CacheHoldsWork
                               /\ Agent!WorkersAreBilled /\ Agent!ReplayFollowsPlan /\ Agent!ClassifiesOnce)
    OBVIOUS
<1>1. Agent!Init => TurnInv
    BY InitKept
<1>2. TurnInv /\ [Agent!Next]_Agent!vars => TurnInv'
    BY StepKeeps
<1>3. TurnInv => Agent!TypeOK /\ Agent!RecordedOnce /\ Agent!ChosenIsAsked /\ Agent!CacheHoldsWork /\ Agent!WorkersAreBilled
                 /\ Agent!ReplayFollowsPlan /\ Agent!ClassifiesOnce
    BY KeptTells
<1> QED
    BY <1>1, <1>2, <1>3, PTL DEF Agent!Spec

\* Only its expiry and reset_frozen release a frozen plan (_ensure_frozen_plan).
THEOREM PlanHolds == Agent!TurnAssumption /\ Agent!Spec => Agent!PlanStays
<1> SUFFICES ASSUME Agent!TurnAssumption PROVE Agent!Spec => Agent!PlanStays
    OBVIOUS
<1>1. Agent!Init => TurnInv
    BY InitKept
<1>2. TurnInv /\ [Agent!Next]_Agent!vars => TurnInv'
    BY StepKeeps
<1>3. TurnInv /\ [Agent!Next]_Agent!vars =>
        [tAgent.plan # None /\ tAgent'.plan # tAgent.plan => (tTurn.ph = "prepare" /\ tSetup.expires) \/ tN' # tN]_Agent!vars
    BY PlanIsLeft
<1> QED
    BY <1>1, <1>2, <1>3, PTL DEF Agent!Spec, Agent!PlanStays

-------------------------------------------------------------------------------
(* What the run checks of them: a behaviour of the run is one of each.       *)

LEMMA RunsAreRuns ==
    AllSpec => Turn!Spec /\ Fan!Spec /\ Reflect!Spec /\ Asking!Spec /\ Hand!Spec /\ Agent!Spec
<1>1. AllInit => Turn!Init /\ Fan!Init /\ Reflect!Init /\ Asking!Init /\ Hand!Init /\ Agent!Init
    BY DEF AllInit
<1>2. [AllNext]_all => [Turn!Next]_(Turn!vars)
    BY DEF AllNext, Others, all, oVars, Turn!vars, cParts, bParts
<1>3. [AllNext]_all => [Fan!Next]_(Fan!vars)
    BY DEF AllNext, Others, all, fVars, Fan!vars, cParts, bParts
<1>4. [AllNext]_all => [Reflect!Next]_(Reflect!vars)
    BY DEF AllNext, Others, all, eVars, Reflect!vars, Reflect!history, cParts, bParts
<1>5. [AllNext]_all => [Asking!Next]_(Asking!vars)
    BY DEF AllNext, Others, all, rVars, Asking!vars, Asking!budgets, Asking!data, cParts, bParts
<1>6. [AllNext]_all => [Hand!Next]_(Hand!vars)
    BY DEF AllNext, Others, all, hVars, Hand!vars, cParts, bParts
<1>7. [AllNext]_all => [Agent!Next]_(Agent!vars)
    BY DEF AllNext, Others, all, tVars, Agent!vars, cParts, bParts
<1> QED
    BY <1>1, <1>2, <1>3, <1>4, <1>5, <1>6, <1>7, PTL
       DEF AllSpec, AllRuns, Turn!Spec, Fan!Spec, Reflect!Spec, Asking!Spec, Hand!Spec, Agent!Spec

\* Chains of agents, calls of a turn, iterations of a reflection and attempts of a ReAct
\* turn stay within their limits, for every agent, plan, threshold and budget
\* (dispatch_pattern, handle_reflection, handle_react).
THEOREM LimitsAlwaysHold ==
    AllSpec => []LimitsHold
<1>1. /\ Turn!ChainsAreShort /\ Turn!ChainsDoNotRepeat /\ Turn!OwnBudgetHolds
      /\ Asking!LoopIsBounded /\ Reflect!LoopIsBounded
    => LimitsHold
    BY DEF LimitsHold, ChainsAreShort, ChainsDoNotRepeat, OwnBudgetHolds, LoopIsBounded
<1> QED
    BY <1>1, EnginesAssumption, RunsAreRuns, OrchHolds, ReflHolds, ReactHolds, PTL

\* What a fan-out, a reflection and a ReAct turn return is what was done and said, for
\* every set of workers, way of gating, critic and budget (handle_supervisor,
\* handle_swarm, handle_reflection, handle_react).
THEOREM ResultsAreAlwaysTrue ==
    AllSpec => []ResultsAreTrue
<1>1. /\ Fan!SuccessIsEarned /\ Fan!DeclinedDoesNotRun /\ Fan!DeclineIsSuccess
      /\ Fan!UsageIsWhole /\ Fan!EventsAgree /\ Fan!EventsBracket
      /\ Reflect!BestIsBest /\ Reflect!SuccessIsJudged
      /\ Asking!ResultsFollowCalls /\ Asking!AskedLast /\ Asking!SuccessIsAnswered
    => ResultsAreTrue
    BY DEF ResultsAreTrue, FanOutIsTrue, BestIsBest, SuccessIsJudged, ResultsFollowCalls, AskedLast, SuccessIsAnswered
<1> QED
    BY <1>1, EnginesAssumption, RunsAreRuns, FanOutTells, ReflHolds, ReactHolds, PTL

\* Whatever way a turn ends it asked first, is recorded once, is cached, billed and
\* replayed as it was, and an agent is locked exactly while a turn is on it, for every
\* set-up of an agent and every graph of handoffs (_run_fresh_impl, _hold_turn_lock).
THEOREM TurnIsAlwaysKept ==
    AllSpec => []TurnIsKept
<1>1. /\ Agent!ChosenIsAsked /\ Agent!RecordedOnce /\ Agent!CacheHoldsWork /\ Agent!WorkersAreBilled
      /\ Agent!ClassifiesOnce /\ Agent!ReplayFollowsPlan /\ Hand!LocksAreHeld
    => TurnIsKept
    BY DEF TurnIsKept, ChosenIsAsked, RecordedOnce, CacheHoldsWork, WorkersAreBilled, PlanIsReplayed, LocksAreHeld
<1> QED
    BY <1>1, EnginesAssumption, RunsAreRuns, TurnHolds, HandHolds, PTL
===============================================================================
