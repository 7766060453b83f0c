----------------------------- MODULE HarnessLedger -----------------------------
(***************************************************************************)
(* The task ledger of the harness: ProgressTracker (harness/progress.py),  *)
(* the plan of a turn that fills it (harness/planning.py) and the reads    *)
(* that reassign tasks in passing.                                         *)
(*                                                                         *)
(* A tracker keeps the artifact in memory and saves it whole under one     *)
(* key of the long-term store, after comparing versions.  Its asyncio lock *)
(* makes its own operations follow each other; the trackers of other       *)
(* agents, loops and processes share the store only.  Descriptions, notes, *)
(* attempts and the briefings of a session are left out.                   *)
(***************************************************************************)
EXTENDS Integers, Sequences

CONSTANTS
  None,
  Tracker,
  Session,
  Task,            \* task ids, as numbers: the lower, the more urgent
  Stepless,        \* tasks that are added without verification steps
  LedgerSetups,    \* who uses the ledger, and how: the trackers, the tasks that an agent
                   \* adds itself, the statuses it reports and the plan of a turn
  AllowReplan,     \* HarnessMetadata.allow_replan
  Yields,          \* a store operation may let other trackers run
  ReadsFail,       \* reads of the store may fail
  WritesFail,      \* so may writes
  MaxVersion       \* bound: versions of the artifact

Status == {"pending", "in_progress", "passing", "failing", "skipped"}

TaskState == [st : Status, own : Session \cup {None}, ok : BOOLEAN]
Artifact == [v : 1..MaxVersion + 1, tasks : [Task -> TaskState \cup {None}]]

LedgerAssumption ==
  /\ Task \subseteq Nat \ {0} /\ Stepless \subseteq Task
  /\ \A s \in LedgerSetups :
       /\ s.trackers \subseteq Tracker /\ s.adhoc \subseteq Task /\ s.plan \in Seq(Task)
       /\ s.reports \subseteq Status
  /\ None \notin Artifact /\ None \notin TaskState
  /\ {AllowReplan, Yields, ReadsFail, WritesFail} \subseteq BOOLEAN
  /\ MaxVersion \in Nat

VARIABLES
  setup,           \* the one of LedgerSetups that is in use
  art,             \* art[t]: ProgressTracker._artifact
  cur,             \* cur[t]: _current_session
  op,              \* op[t]: the operation that holds the lock of t
  store,           \* the artifact in the long-term store
  disk,            \* agloom-progress.json
  sure,            \* history: tasks whose add_task has returned
  held             \* held[i]: history: the trackers that were given task i

vars == <<setup, art, cur, op, store, disk, sure, held>>

FreshArtifact == [v |-> 1, tasks |-> [i \in Task |-> None]]
New == [st |-> "pending", own |-> None, ok |-> FALSE]

Has(a) == {i \in Task : a.tasks[i] # None}
InProgress(a) == {i \in Has(a) : a.tasks[i].st = "in_progress"}

-------------------------------------------------------------------------------
(* Operators on the artifact *)

\* Mutant of MarkPassing: a task without steps, or with steps that fail, passes.
MarkPassingUnchecked(i, task) == [task EXCEPT !.st = "passing", !.own = None]

\* Task.mark_passing: without steps nothing changes
MarkPassing(i, task) ==
  IF i \in Stepless THEN task
  ELSE IF task.ok THEN [task EXCEPT !.st = "passing", !.own = None]
  ELSE [task EXCEPT !.st = "failing"]

\* the statuses of update_task; results is what the agent says of the steps
Updated(i, task, status, results, s) ==
  CASE status = "passing" -> MarkPassing(i, [task EXCEPT !.ok = results])
    [] status = "in_progress" -> [task EXCEPT !.st = status, !.own = s]
    [] status = "skipped" -> [task EXCEPT !.st = status, !.own = None]
    [] OTHER -> [task EXCEPT !.st = status]

\* get_next_task takes over what other sessions have in progress ...
Reclaimed(a, s) ==
  [a EXCEPT !.tasks = [i \in Task |->
     IF i \in InProgress(a) /\ a.tasks[i].own # None
     THEN [a.tasks[i] EXCEPT !.own = s] ELSE a.tasks[i]]]

\* ... and chooses among what is pending and what is now its own
Candidates(a, s) ==
  {i \in Has(a) : \/ a.tasks[i].st = "pending"
                  \/ a.tasks[i].st = "in_progress" /\ a.tasks[i].own = s}
MostUrgent(S) == CHOOSE i \in S : \A j \in S : i <= j

Missing(a, plan) == SelectSeq(plan, LAMBDA i : i \notin Has(a))

-------------------------------------------------------------------------------
(* The lock of a tracker and the steps of an operation.  todo is what the  *)
(* operation has still to add; Flush is a save_progress.                   *)

Idle == [at |-> "idle"]
Flush == 0
At(where, todo) ==
  [at |-> where, todo |-> todo, adds |-> {}, claims |-> {}, out |-> None]

\* without Yields an operation on the store runs to its end
MayRun(t) == Yields \/ \A u \in Tracker \ {t} : op[u] = Idle

Free(t) == MayRun(t) /\ op[t] = Idle
Ready(t) == Free(t) /\ art[t] # None /\ art[t].v < MaxVersion

Init ==
  /\ setup \in LedgerSetups
  /\ art = [t \in Tracker |-> None]
  /\ cur = [t \in Tracker |-> None]
  /\ op = [t \in Tracker |-> Idle]
  /\ store = None /\ disk = None
  /\ sure = {}
  /\ held = [i \in Task |-> {}]

\* bootstrap: another thread of the agent, or its first turn
Bootstrap(t, s) ==
  /\ Free(t) /\ cur[t] # s
  /\ (store # None => store.v < MaxVersion)
  /\ cur' = [cur EXCEPT ![t] = s]
  /\ op' = [op EXCEPT ![t] = At("load", <<>>)]
  /\ held' = [i \in Task |-> held[i] \ {t}]
  /\ UNCHANGED <<setup, art, store, disk, sure>>

\* _lts_get returns None for a failed read, too
Read(fails) == IF fails THEN None ELSE store

\* an artifact from disk is saved once more than the others
Load(t, fails) ==
  /\ MayRun(t) /\ op[t].at = "load" /\ (fails => ReadsFail)
  /\ LET found == Read(fails)
         fromDisk == found = None /\ disk # None
     IN /\ art' = [art EXCEPT ![t] =
                     CASE found # None -> found [] fromDisk -> disk [] OTHER -> FreshArtifact]
        /\ op' = [op EXCEPT ![t] = At("check", IF fromDisk THEN <<Flush>> ELSE <<>>)]
  /\ UNCHANGED <<setup, cur, store, disk, sure, held>>

\* Mutant of Check: the version is not raised.
CheckSameVersion(t, fails) ==
  /\ MayRun(t) /\ op[t].at = "check" /\ (fails => ReadsFail)
  /\ LET found == Read(fails)
     IN IF found # None /\ found.v > art[t].v
        THEN op' = [op EXCEPT ![t] = Idle]
        ELSE op' = [op EXCEPT ![t].at = "write", ![t].out = art[t]]
  /\ UNCHANGED <<setup, art, cur, store, disk, sure, held>>

\* Mutant of Check: saved without a look at the version in the store.
CheckBlind(t, fails) ==
  /\ MayRun(t) /\ op[t].at = "check" /\ fails = FALSE
  /\ LET saved == [art[t] EXCEPT !.v = @ + 1]
     IN /\ art' = [art EXCEPT ![t] = saved]
        /\ op' = [op EXCEPT ![t].at = "write", ![t].out = saved]
  /\ UNCHANGED <<setup, cur, store, disk, sure, held>>

\* _save_progress_unlocked, up to its write
Check(t, fails) ==
  /\ MayRun(t) /\ op[t].at = "check" /\ art[t].v <= MaxVersion /\ (fails => ReadsFail)
  /\ LET found == Read(fails)
         saved == [art[t] EXCEPT !.v = @ + 1]
     IN IF found # None /\ found.v > art[t].v
        THEN op' = [op EXCEPT ![t] = Idle] /\ UNCHANGED art
        ELSE /\ art' = [art EXCEPT ![t] = saved]
             /\ op' = [op EXCEPT ![t].at = "write", ![t].out = saved]
  /\ UNCHANGED <<setup, cur, store, disk, sure, held>>

Write(t, fails) ==
  /\ MayRun(t) /\ op[t].at = "write"
  /\ IF fails
     THEN /\ WritesFail
          /\ op' = [op EXCEPT ![t] = Idle]
          /\ UNCHANGED <<store, sure, held>>
     ELSE /\ store' = op[t].out
          /\ sure' = sure \cup op[t].adds
          /\ held' = [i \in Task |-> IF i \in op[t].claims THEN held[i] \cup {t} ELSE held[i]]
          /\ op' = [op EXCEPT ![t] =
                      IF op[t].todo = <<>> THEN Idle ELSE At("next", op[t].todo)]
  /\ UNCHANGED <<setup, art, cur, disk>>

\* Mutant of Step: add_task leaves the save to its caller.
StepUnsaved(t) ==
  /\ MayRun(t) /\ op[t].at = "next" /\ art[t].v < MaxVersion
  /\ LET item == Head(op[t].todo)
         rest == Tail(op[t].todo)
     IN /\ art' = IF item = Flush THEN art ELSE [art EXCEPT ![t].tasks[item] = New]
        /\ sure' = sure \cup ({item} \cap Task)
        /\ op' = [op EXCEPT ![t] = IF item = Flush THEN At("check", rest)
                                  ELSE IF rest = <<>> THEN Idle ELSE At("next", rest)]
  /\ UNCHANGED <<setup, cur, store, disk, held>>

\* the next thing to do: add_task is idempotent, and save_progress saves
Step(t) ==
  /\ MayRun(t) /\ op[t].at = "next" /\ art[t].v < MaxVersion
  /\ LET item == Head(op[t].todo)
         rest == Tail(op[t].todo)
         after == IF rest = <<>> THEN Idle ELSE At("next", rest)
     IN \/ /\ item = Flush
           /\ op' = [op EXCEPT ![t] = At("check", rest)]
           /\ UNCHANGED <<art, sure>>
        \/ /\ item \in Has(art[t])
           /\ sure' = sure \cup {item}
           /\ op' = [op EXCEPT ![t] = after]
           /\ UNCHANGED art
        \/ /\ item \in Task \ Has(art[t])
           /\ art' = [art EXCEPT ![t].tasks[item] = New]
           /\ op' = [op EXCEPT ![t] = [At("check", rest) EXCEPT !.adds = {item}]]
           /\ UNCHANGED sure
  /\ UNCHANGED <<setup, cur, store, disk, held>>

\* the add_task tool, and apply_metadata_tasks for one task
Add(t, i) ==
  /\ Ready(t) /\ i \in setup.adhoc
  /\ op' = [op EXCEPT ![t] = At("next", <<i>>)]
  /\ UNCHANGED <<setup, art, cur, store, disk, sure, held>>

\* sync_harness_from_analysis: fills an empty ledger, or appends to it
Sync(t) ==
  /\ Ready(t)
  /\ LET todo == IF Has(art[t]) = {} THEN setup.plan
                 ELSE IF AllowReplan THEN Missing(art[t], setup.plan) ELSE <<>>
     IN /\ todo # <<>>
        /\ op' = [op EXCEPT ![t] = At("next", Append(todo, Flush))]
  /\ UNCHANGED <<setup, art, cur, store, disk, sure, held>>

\* the update_task tool
Update(t, i, status, results) ==
  /\ Ready(t) /\ i \in Has(art[t])
  /\ art' = [art EXCEPT ![t].tasks[i] = Updated(i, @, status, results, cur[t])]
  /\ op' = [op EXCEPT ![t] = At("check", <<>>)]
  /\ held' = IF art'[t].tasks[i].st = "in_progress" THEN held
             ELSE [held EXCEPT ![i] = @ \ {t}]
  /\ UNCHANGED <<setup, cur, store, disk, sure>>

\* claim_next_task, for the tools get_next_task and bootstrap_progress
Claim(t) ==
  /\ Ready(t)
  /\ LET mine == Reclaimed(art[t], cur[t])
         S == Candidates(mine, cur[t])
         i == MostUrgent(S)
     IN IF S = {}
        THEN art' = [art EXCEPT ![t] = mine] /\ UNCHANGED op
        ELSE /\ art' = [art EXCEPT ![t] = [mine EXCEPT !.tasks[i] =
                          [@ EXCEPT !.st = "in_progress", !.own = cur[t]]]]
             /\ op' = [op EXCEPT ![t] = [At("check", <<>>) EXCEPT !.claims = {i}]]
  /\ UNCHANGED <<setup, cur, store, disk, sure, held>>

\* build_harness_execution_context calls get_next_task without the lock
Focus(t) ==
  /\ MayRun(t) /\ art[t] # None
  /\ art' = [art EXCEPT ![t] = Reclaimed(@, cur[t])]
  /\ UNCHANGED <<setup, cur, op, store, disk, sure, held>>

\* the save_progress tool writes the file, not the store
SaveToDisk(t) ==
  /\ Free(t) /\ art[t] # None
  /\ art' = [art EXCEPT ![t] = Reclaimed(@, cur[t])]
  /\ disk' = art'[t]
  /\ UNCHANGED <<setup, cur, op, store, sure, held>>

\* the process of the tracker ends, with what it has in memory
Crash(t) ==
  /\ MayRun(t) /\ art[t] # None
  /\ art' = [art EXCEPT ![t] = None]
  /\ cur' = [cur EXCEPT ![t] = None]
  /\ op' = [op EXCEPT ![t] = Idle]
  /\ held' = [i \in Task |-> held[i] \ {t}]
  /\ UNCHANGED <<setup, store, disk, sure>>

Next ==
  \E t \in setup.trackers :
    \/ \E s \in Session : Bootstrap(t, s)
    \/ \E fails \in BOOLEAN : Load(t, fails) \/ Check(t, fails) \/ Write(t, fails)
    \/ Step(t) \/ Sync(t) \/ Claim(t) \/ Focus(t) \/ SaveToDisk(t) \/ Crash(t)
    \/ \E i \in Task : Add(t, i)
    \/ \E i \in Task, status \in setup.reports, results \in BOOLEAN : Update(t, i, status, results)

Spec == Init /\ [][Next]_vars

-------------------------------------------------------------------------------
(* Properties *)

\* The ledger has tasks with a status, the lock holds one operation.
TypeOK ==
  /\ \A t \in Tracker : art[t] = None \/ art[t] \in Artifact
  /\ cur \in [Tracker -> Session \cup {None}]
  /\ \A t \in Tracker : op[t] = Idle \/
       /\ op[t].at \in {"load", "next", "check", "write"}
       /\ op[t].todo \in Seq(Task \cup {Flush})
       /\ op[t].at = "write" <=> op[t].out # None
  /\ \A a \in {store, disk} : a = None \/ a \in Artifact
  /\ sure \subseteq Task /\ held \in [Task -> SUBSET Tracker]

\* A task whose add_task has returned is in the store, whatever crashes later.
AddedIsStored ==
  sure # {} => store # None /\ sure \subseteq Has(store)

\* A save never takes a task away that another tracker has saved.
SaveStays == store # None => store' # None /\ Has(store) \subseteq Has(store')
SavedIsNotLost == [][SaveStays]_vars

\* The version in the store, the revision of the wire events, only grows.
VersionGrows == store # None /\ store' # store => store'.v > store.v
RevisionGrows == [][VersionGrows]_vars

\* A task passes only with all its verification steps, in memory and in the store.
PassingIsVerified ==
  \A a \in {art[t] : t \in Tracker} \cup {store, disk} : a # None =>
    \A i \in Has(a) : a.tasks[i].st = "passing" => a.tasks[i].ok /\ i \notin Stepless
===============================================================================
