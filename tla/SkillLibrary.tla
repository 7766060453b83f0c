----------------------------- MODULE SkillLibrary -----------------------------
(* The skills of an agent (agloom/skills) and the feedback on its runs
   (agloom/feedback).  A skill is a row of a store, in the namespace of its agent
   or in the global one; whoever updates a row reads it, changes the copy and
   writes it back.  Sweeps at startup, background tasks of runs, reviews and the
   user's ratings all do so, without a lock.  op holds the store operations that a
   task still has to make.
   Abstracted: what a skill says is a member of Text; a review asks for one action
   of any kind; a skill without a name, the mirror on disk and the limits of a
   search are left out. *)
EXTENDS Naturals, Sequences, FiniteSets

CONSTANTS
  Skill, Text, Job,
  Run,           \* runs that are scored and rated
  UsedBy,        \* [Run -> Skill]: matched_skill
  Suspends,      \* whether a store operation lets other tasks run
  MinUses, PruneAt, DecayAt,   \* MIN_USES_FOR_PRUNE; percents of confidence and of decay
  FewSkills, MaxSkills,        \* a review needs so many; more force one at startup
  MaxReports, MaxSaves, MaxStarts, MaxRatings,   \* bounds of the instance
  None

LibraryAssumption ==
  /\ UsedBy \in [Run -> Skill] /\ Suspends \in BOOLEAN
  /\ {MinUses, PruneAt, DecayAt} \subseteq Nat

Ns == {"agent", "global"}
Startup == {"expire", "decay", "reset", "cap"}
Task == Startup \cup Job
Rating == {"positive", "negative"}

VARIABLES
  store,          \* [Ns -> [Skill -> row or None]]
  cache,          \* SkillRegistry._cache: [Skill -> text or None]
  op,             \* [Task -> sequence of store operations]
  good, bad,      \* outcomes reported of a skill
  record,         \* FeedbackStore: [Run -> None, "pending", "unrated" or a rating]
  sent, blamed,   \* negative ratings the user sent; failures they were counted as
  saves, starts
vars == <<store, cache, op, good, bad, record, sent, blamed, saves, starts>>
counts == <<good, bad>>
feedback == <<record, sent, blamed>>
bounds == <<saves, starts>>

Fresh(text, version) == [status |-> "active", ok |-> 0, fail |-> 0, version |-> version,
                         text |-> text, used |-> FALSE, old |-> FALSE]
Active(row) == row # None /\ row.status = "active"
Init ==
  /\ \E static \in SUBSET Skill :
       store = [ns \in Ns |-> [n \in Skill |->
                  IF ns = "global" /\ n \in static THEN Fresh("disk", 1) ELSE None]]
  /\ cache = [n \in Skill |-> None]
  /\ op = [t \in Task |-> <<>>]
  /\ good = [n \in Skill |-> 0] /\ bad = [n \in Skill |-> 0]
  /\ record = [r \in Run |-> None] /\ sent = [r \in Run |-> 0] /\ blamed = [r \in Run |-> 0]
  /\ saves = 0 /\ starts = 0

-----------------------------------------------------------------------------
(* Operations.  A store that does not suspend, as the one in memory, lets nobody *)
(* else run from the first operation of a task until it waits for the LLM or ends; *)
(* what on_startup gathers then runs in its order.                              *)
Namespaces(t) == IF t = "expire" THEN <<"global", "agent">> ELSE <<"agent", "global">>
Sweep(t) == <<[do |-> "read", ns |-> Namespaces(t)[1]], [do |-> "read", ns |-> Namespaces(t)[2]]>>
Cap == <<[do |-> "cap"]>>
Waits(t) == op[t] \notin {<<>>, Sweep(t), Cap} => Head(op[t]).do \in {"ask", "record"}
Earlier(t) == CASE t = "reset" -> {"expire"} [] t = "decay" -> {"expire", "reset"}
                [] t = "cap" -> {"expire", "reset", "decay"} [] OTHER -> {}
MayRun(t) == ~Suspends =>
  /\ \A u \in Task \ {t} : Waits(u)
  /\ \A u \in Earlier(t) : op[u] = <<>>
Doing(t, what) == op[t] # <<>> /\ Head(op[t]).do = what /\ MayRun(t)
Then(t, steps) == op' = [op EXCEPT ![t] = steps \o Tail(@)]
Put(ns, n, row) == store' = [store EXCEPT ![ns][n] = row]
\* Mutant of Forget.
ForgetNothing(n) == UNCHANGED cache
Forget(n) == cache' = [cache EXCEPT ![n] = None]

Total(row) == row.ok + row.fail
Distrusted(row) == 100 * row.ok < PruneAt * Total(row)
\* _soft_archive, of the row as the caller read it.
Archived(row) == [row EXCEPT !.status = "archived", !.old = FALSE]
Bury(ns, n, row) == Put(ns, n, Archived(row)) /\ Forget(n)
BuryNow(t) ==
  /\ Doing(t, "bury")
  /\ Bury(Head(op[t]).ns, Head(op[t]).name, Head(op[t]).row)
  /\ Then(t, <<>>) /\ UNCHANGED <<counts, feedback, bounds>>

\* _update_usage: the agent's row, or the global one, unless archived.
Usage(n, won) == [do |-> "usage", ns |-> "agent", name |-> n, won |-> won]
\* Mutant of Counted.
CountedAsLost(row, won) == [row EXCEPT !.fail = @ + 1, !.used = TRUE, !.old = FALSE]
Counted(row, won) ==
  [row EXCEPT !.ok = @ + (IF won THEN 1 ELSE 0), !.fail = @ + (IF won THEN 0 ELSE 1),
              !.used = TRUE, !.old = FALSE]
ReadUsage(t) ==
  /\ Doing(t, "usage")
  /\ LET s == Head(op[t])  row == store[s.ns][s.name] IN
       Then(t, IF Active(row)
               THEN <<[do |-> "count", ns |-> s.ns, name |-> s.name, row |-> Counted(row, s.won)]>>
               ELSE IF s.ns = "agent" THEN <<[s EXCEPT !.ns = "global"]>> ELSE <<>>)
  /\ UNCHANGED <<store, cache, counts, feedback, bounds>>
\* Mutant of Lost.
LostLate(row) == Total(row) > MinUses /\ Distrusted(row)
Lost(row) == Total(row) >= MinUses /\ Distrusted(row)
Count(t) ==
  /\ Doing(t, "count")
  /\ LET s == Head(op[t]) IN
       IF Lost(s.row) THEN Bury(s.ns, s.name, s.row)
       ELSE Put(s.ns, s.name, s.row) /\ UNCHANGED cache
  /\ Then(t, <<>>) /\ UNCHANGED <<counts, feedback, bounds>>

\* save_learned_skill: the name of a skill that says the same is used instead.
Save(ns, n, text) == [do |-> "save", ns |-> ns, name |-> n, text |-> text]
Same(ns, text) ==
  {m \in Skill : store[ns][m] # None /\ store[ns][m].text = text /\ text # "disk"}
\* Mutant of Version.
FirstVersion(row) == 1
Version(row) == IF row = None THEN 1 ELSE row.version + 1
ReadSaved(t) ==
  /\ Doing(t, "save")
  /\ LET s == Head(op[t]) IN
       \E n \in IF Same(s.ns, s.text) = {} THEN {s.name} ELSE Same(s.ns, s.text) :
         Then(t, <<[do |-> "put", ns |-> s.ns, name |-> n,
                    row |-> Fresh(s.text, Version(store[s.ns][n]))]>>)
  /\ UNCHANGED <<store, cache, counts, feedback, bounds>>
PutSaved(t) ==
  /\ Doing(t, "put")
  /\ LET s == Head(op[t]) IN Put(s.ns, s.name, s.row) /\ Forget(s.name)
  /\ Then(t, <<>>) /\ UNCHANGED <<counts, feedback, bounds>>

\* get_content: the cache, the agent's row, the global row; archived or not.
Found(n) == IF store["agent"][n] # None THEN store["agent"][n] ELSE store["global"][n]
Load(t) ==
  /\ Doing(t, "load")
  /\ \/ Head(op[t]).names = {} /\ Then(t, <<>>)
     \/ \E n \in Head(op[t]).names :
          LET rest == [Head(op[t]) EXCEPT !.names = @ \ {n}] IN
          Then(t, IF cache[n] # None \/ Found(n) = None THEN <<rest>>
                  ELSE <<[do |-> "fill", name |-> n, text |-> Found(n).text], rest>>)
  /\ UNCHANGED <<store, cache, counts, feedback, bounds>>
Fill(t) ==
  /\ Doing(t, "fill")
  /\ cache' = [cache EXCEPT ![Head(op[t]).name] = Head(op[t]).text]
  /\ Then(t, <<>>) /\ UNCHANGED <<store, counts, feedback, bounds>>

-----------------------------------------------------------------------------
(* Sweeps at startup: each reads a namespace, then writes row by row.           *)
Penalty(row) == (row.ok * DecayAt) \div 100
\* Mutant of Expired.
ExpiredIfOld(row) == row.old
Expired(row) == row.status = "archived" /\ row.old
Due(t, row) ==
  /\ row # None
  /\ CASE t = "expire" -> Expired(row)
       [] t = "decay" -> Active(row) /\ row.used /\ row.old /\ Total(row) >= MinUses /\ Penalty(row) >= 1
       [] t = "reset" -> Active(row)
ReadRows(t) ==
  /\ Doing(t, "read")
  /\ LET ns == Head(op[t]).ns IN
       Then(t, <<[do |-> "each", ns |-> ns,
                  rows |-> [n \in {m \in Skill : Due(t, store[ns][m])} |-> store[ns][n]]]>>)
  /\ UNCHANGED <<store, cache, counts, feedback, bounds>>
Delete(ns, n) == Put(ns, n, None) /\ Forget(n)
Decay(ns, n, row) ==
  LET less == [row EXCEPT !.ok = @ - Penalty(row)] IN
  IF Distrusted(less) THEN Bury(ns, n, less) ELSE Put(ns, n, less) /\ UNCHANGED cache
Reset(ns, n, row) == Put(ns, n, [row EXCEPT !.ok = 0, !.fail = 0]) /\ UNCHANGED cache
WriteRow(t) ==
  /\ Doing(t, "each")
  /\ LET s == Head(op[t])  left == DOMAIN s.rows IN
     \/ left = {} /\ Then(t, <<>>) /\ UNCHANGED <<store, cache>>
     \/ \E n \in left :
          /\ CASE t = "expire" -> Delete(s.ns, n)
               [] t = "decay" -> Decay(s.ns, n, s.rows[n])
               [] t = "reset" -> Reset(s.ns, n, s.rows[n])
          /\ Then(t, <<[s EXCEPT !.rows = [m \in left \ {n} |-> s.rows[m]]]>>)
  /\ UNCHANGED <<counts, feedback, bounds>>

-----------------------------------------------------------------------------
(* Reviews by the LLM.                                                          *)
ActiveSkills == {n \in Skill : Active(Found(n))}
Asked == <<[do |-> "load", names |-> ActiveSkills], [do |-> "ask"]>>
EnforceCap(t) ==
  /\ Doing(t, "cap")
  /\ Then(t, IF Cardinality(ActiveSkills) > MaxSkills /\ Cardinality(ActiveSkills) >= FewSkills
             THEN Asked ELSE <<>>)
  /\ UNCHANGED <<store, cache, counts, feedback, bounds>>
Archive(names) == [do |-> "archive", names |-> names]
\* _apply_action.
Answer(t) ==
  /\ Doing(t, "ask")
  /\ \/ Then(t, <<>>) /\ UNCHANGED saves
     \/ \E names \in SUBSET Skill : Then(t, <<Archive(names)>>) /\ UNCHANGED saves
     \/ \E names \in SUBSET Skill : Then(t, <<[do |-> "promote", names |-> names]>>) /\ UNCHANGED saves
     \/ /\ saves < MaxSaves /\ saves' = saves + 1
        /\ \E new \in Skill, text \in Text :
             \/ \E names \in SUBSET Skill : Then(t, <<Save("global", new, text), Archive(names)>>)
             \/ \E n \in Skill : Then(t, <<Save("global", new, text), Archive({n} \ {new})>>)
  /\ UNCHANGED <<store, cache, counts, feedback, starts>>
ArchiveNext(t) ==
  /\ Doing(t, "archive")
  /\ \/ Head(op[t]).names = {} /\ Then(t, <<>>)
     \/ \E n \in Head(op[t]).names :
          LET rest == Archive(Head(op[t]).names \ {n})
              ns == IF store["agent"][n] # None THEN "agent" ELSE "global" IN
          Then(t, IF store[ns][n] = None THEN <<rest>>
                  ELSE <<[do |-> "bury", ns |-> ns, name |-> n, row |-> store[ns][n]], rest>>)
  /\ UNCHANGED <<store, cache, counts, feedback, bounds>>
\* PROMOTE: the agent's skill is saved for all agents, then archived.
PromoteNext(t) ==
  /\ Doing(t, "promote")
  /\ \/ Head(op[t]).names = {} /\ Then(t, <<>>)
     \/ \E n \in Head(op[t]).names :
          LET rest == [Head(op[t]) EXCEPT !.names = @ \ {n}]  row == store["agent"][n] IN
          Then(t, IF row = None THEN <<rest>>
                  ELSE <<[do |-> "load", names |-> {n}], [do |-> "copy", name |-> n, row |-> row], rest>>)
  /\ UNCHANGED <<store, cache, counts, feedback, bounds>>
Copy(t) ==
  /\ Doing(t, "copy")
  /\ LET s == Head(op[t]) IN
       Then(t, IF cache[s.name] = None THEN <<>>
               ELSE <<Save("global", s.name, cache[s.name]),
                      [do |-> "bury", ns |-> "agent", name |-> s.name, row |-> s.row]>>)
  /\ UNCHANGED <<store, cache, counts, feedback, bounds>>

-----------------------------------------------------------------------------
(* What starts the operations.                                                  *)
Up == \A t \in Startup : op[t] = <<>>
Idle(t) == t \in Job /\ op[t] = <<>> /\ Up /\ MayRun(t)
Failed(n) == bad' = [bad EXCEPT ![n] = @ + 1] /\ UNCHANGED good
\* on_run_complete with a skill that was applied.
RunCompletes(t, n, won) ==
  /\ Idle(t) /\ good[n] + bad[n] < MaxReports
  /\ IF won THEN good' = [good EXCEPT ![n] = @ + 1] /\ UNCHANGED bad ELSE Failed(n)
  /\ op' = [op EXCEPT ![t] = <<Usage(n, won)>>]
  /\ UNCHANGED <<store, cache, feedback, bounds>>
\* maybe_learn, generate_for_query and the seeds.
Learn(t, ns, n, text) ==
  /\ Idle(t) /\ saves < MaxSaves /\ saves' = saves + 1
  /\ op' = [op EXCEPT ![t] = <<Save(ns, n, text)>>]
  /\ UNCHANGED <<store, cache, counts, feedback, starts>>
\* The tool of a worker that loads a skill.
LoadSkill(t, n) ==
  /\ Idle(t) /\ cache[n] = None /\ Found(n) # None
  /\ op' = [op EXCEPT ![t] = <<[do |-> "load", names |-> {n}]>>]
  /\ UNCHANGED <<store, cache, counts, feedback, bounds>>
Review(t) ==
  /\ Idle(t) /\ Cardinality(ActiveSkills) >= FewSkills
  /\ op' = [op EXCEPT ![t] = Asked]
  /\ UNCHANGED <<store, cache, counts, feedback, bounds>>
\* The process ends, whatever it does, and starts again: sooner or weeks later, with
\* the same model or another one.
Restart ==
  /\ starts < MaxStarts /\ starts' = starts + 1
  /\ cache' = [n \in Skill |-> None]
  /\ \E later, drift \in BOOLEAN :
       /\ store' = [ns \in Ns |-> [n \in Skill |->
            IF store[ns][n] = None THEN None ELSE [store[ns][n] EXCEPT !.old = @ \/ later]]]
       /\ op' = [t \in Task |-> IF t \in Job THEN <<>>
                                ELSE IF t = "cap" THEN Cap
                                ELSE IF t = "reset" /\ ~drift THEN <<>> ELSE Sweep(t)]
  /\ record' = [r \in Run |-> IF record[r] = "pending" THEN None ELSE record[r]]
  /\ UNCHANGED <<counts, sent, blamed, saves>>

-----------------------------------------------------------------------------
(* Feedback.                                                                    *)
\* evaluate: a score is kept, and a low one is a failure of the skill.
Evaluate(t, r, low) ==
  /\ Idle(t) /\ record[r] = None
  /\ record' = [record EXCEPT ![r] = "pending"]
  /\ op' = [op EXCEPT ![t] = <<[do |-> "record", run |-> r, low |-> low]>>]
  /\ UNCHANGED <<store, cache, counts, sent, blamed, bounds>>
Record(t) ==
  /\ Doing(t, "record")
  /\ LET s == Head(op[t]) IN
       /\ record' = [record EXCEPT ![s.run] = "unrated"]
       /\ IF s.low THEN Failed(UsedBy[s.run]) /\ Then(t, <<Usage(UsedBy[s.run], FALSE)>>)
          ELSE UNCHANGED counts /\ Then(t, <<>>)
  /\ UNCHANGED <<store, cache, sent, blamed, bounds>>
\* apply_user_feedback: the store and then the handler apply the rating.
Rate(t, r, rating) ==
  /\ Idle(t) /\ sent[r] < MaxRatings
  /\ sent' = [sent EXCEPT ![r] = @ + (IF rating = "negative" THEN 1 ELSE 0)]
  /\ LET apply == [do |-> "rate", run |-> r, rating |-> rating] IN
       op' = [op EXCEPT ![t] = <<apply, apply>>]
  /\ UNCHANGED <<store, cache, counts, record, blamed, bounds>>
\* Mutant of Repeated.
NeverRepeated(r, rating) == FALSE
Repeated(r, rating) == record[r] = rating
\* Mutant of Unknown.
UnknownRun(r) == record[r] = None
Unknown(r) == record[r] \in {None, "pending"}
ReadRecord(t) ==
  /\ Doing(t, "rate")
  /\ LET s == Head(op[t]) IN
       Then(t, IF Unknown(s.run) \/ Repeated(s.run, s.rating) THEN <<>>
               ELSE <<[s EXCEPT !.do = "rated"]>>)
  /\ UNCHANGED <<store, cache, counts, feedback, bounds>>
WriteRating(t) ==
  /\ Doing(t, "rated")
  /\ LET s == Head(op[t]) IN
       /\ record' = [record EXCEPT ![s.run] = s.rating]
       /\ IF s.rating = "negative"
          THEN /\ blamed' = [blamed EXCEPT ![s.run] = @ + 1]
               /\ Failed(UsedBy[s.run]) /\ Then(t, <<Usage(UsedBy[s.run], FALSE)>>)
          ELSE UNCHANGED <<blamed, counts>> /\ Then(t, <<>>)
  /\ UNCHANGED <<store, cache, sent, bounds>>

Step(t) ==
  \/ BuryNow(t) \/ ReadUsage(t) \/ Count(t) \/ ReadSaved(t) \/ PutSaved(t) \/ Load(t) \/ Fill(t)
  \/ ReadRows(t) \/ WriteRow(t) \/ EnforceCap(t) \/ Answer(t) \/ ArchiveNext(t)
  \/ PromoteNext(t) \/ Copy(t) \/ Record(t) \/ ReadRecord(t) \/ WriteRating(t)
Next ==
  \/ Restart
  \/ \E t \in Task : Step(t)
  \/ \E t \in Job :
       \/ Review(t)
       \/ \E n \in Skill : \/ LoadSkill(t, n)
                           \/ \E won \in BOOLEAN : RunCompletes(t, n, won)
                           \/ \E ns \in Ns, text \in Text : Learn(t, ns, n, text)
       \/ \E r \in Run : \/ \E low \in BOOLEAN : Evaluate(t, r, low)
                         \/ \E rating \in Rating : Rate(t, r, rating)
Spec == Init /\ [][Next]_vars

-----------------------------------------------------------------------------
(* Properties.  The last four hold where the store does not suspend.            *)

\* Types.
Row == [status : {"active", "archived"}, ok : Nat, fail : Nat, version : Nat,
        text : Text \cup {"disk"}, used : BOOLEAN, old : BOOLEAN]
TypeOK ==
  /\ \A ns \in Ns, n \in Skill : store[ns][n] # None => store[ns][n] \in Row
  /\ cache \in [Skill -> Text \cup {"disk", None}]
  /\ record \in [Run -> {None, "pending", "unrated"} \cup Rating]

\* However updates are interleaved, no skill that failed too often stays active
\* (_update_usage, _decay_stale_skills).
TrustIsEarned ==
  \A ns \in Ns, n \in Skill :
    LET row == store[ns][n] IN
    Active(row) => row.ok + row.fail < MinUses \/ 100 * row.ok >= PruneAt * (row.ok + row.fail)
\* A row never counts more than was reported, whichever copies are written back.
CountsAreReported ==
  \A ns \in Ns, n \in Skill : store[ns][n] # None =>
    store[ns][n].ok <= good[n] /\ store[ns][n].fail <= bad[n]
\* A rating that was applied is not lost to the evaluation (_score_and_store).
RatingStays == \A r \in Run : record[r] \in Rating => record'[r] \in Rating

\* What was archived comes back only by being saved again, and only what was archived
\* and has expired is deleted.
ArchivedStays ==
  \A ns \in Ns, n \in Skill :
    LET row == store[ns][n]  next == store'[ns][n] IN
    row # None =>
      /\ next = None => row.status = "archived" /\ row.old
      /\ row.status = "archived" /\ Active(next) => next.version > row.version
\* The version of a skill only grows (save_learned_skill).
VersionGrows ==
  \A ns \in Ns, n \in Skill :
    store[ns][n] # None /\ store'[ns][n] # None => store'[ns][n].version >= store[ns][n].version
\* What a worker loads is what the store holds (get_content).
CacheIsFresh == \A n \in Skill : cache[n] # None => Found(n) # None /\ cache[n] = Found(n).text
\* A rating counts as one failure, though the store and the handler apply it.
BlamedOnce == \A r \in Run : blamed[r] <= sent[r]
===============================================================================
