------------------------------ MODULE GitSession ------------------------------
(***************************************************************************)
(* The git helper of the harness (harness/git.py): commit stages what      *)
(* status reports and commits it, checkpoint tags a commit.  Each is a     *)
(* sequence of git processes under the lock of one GitSession; another     *)
(* session, the agent's shell and the operator's editor work on the same   *)
(* repository.  Git itself is modelled by what each process does to the    *)
(* index, the log and the tags.                                            *)
(***************************************************************************)
EXTENDS Integers, Sequences

CONSTANTS
  File, Name,      \* paths and checkpoint names
  Session,         \* the GitSessions that may work on the repository
  GitSetups,       \* who works on it: the sessions, the files that are edited and how often
                   \* (a bound); whether somebody else commits (shell) or stages removals
                   \* (stages: git rm, git mv); whether a process may outlive the timeout
                   \* of _run (slow)
  MaxLog           \* bound: commits

GitAssumption ==
  /\ \A s \in GitSetups :
       /\ s.sessions \subseteq Session /\ s.files \subseteq File /\ s.edits \in Nat
       /\ {s.shell, s.stages, s.slow} \subseteq BOOLEAN
  /\ MaxLog \in Nat \ {0}
  /\ "operator" \notin Session

VARIABLES
  setup,           \* the one of GitSetups that is so
  work,            \* work[f]: its latest change, and whether the file exists
  index, log,      \* the staged files; the commits, each with its tree and author
  tag,             \* tag[n]: a position of log, 0 without the tag
  pc, paths, last, \* of each session: its next process, the paths, _last_commit
  name, target,    \* of each session: the checkpoint it makes and of which commit
  stray,           \* sessions whose timed-out git commit still runs
  seen, head,      \* history: work at the status, the log's length at the start
  mine             \* history: mine[s], the commits s made

vars == <<setup, work, index, log, tag, pc, paths, last, name, target, stray, seen, head, mine>>
repo == <<setup, work, index, log, tag>>
inst == <<pc, paths, last, name, target, stray, seen, head, mine>>

Blob == [n : Nat, there : BOOLEAN]
Tip == log[Len(log)].tree

Init ==
  /\ setup \in GitSetups
  /\ work = [f \in File |-> [n |-> 0, there |-> TRUE]]
  /\ index = work
  /\ log = << [tree |-> work, by |-> "operator"] >>
  /\ tag = [n \in Name |-> 0]
  /\ pc = [s \in Session |-> "idle"] /\ paths = [s \in Session |-> {}]
  /\ last = [s \in Session |-> 0] /\ target = [s \in Session |-> 0]
  /\ name \in [Session -> Name]
  /\ stray = {} /\ seen = [s \in Session |-> work]
  /\ head = [s \in Session |-> 1] /\ mine = [s \in Session |-> {}]

Go(s, p) == pc' = [pc EXCEPT ![s] = p]

-------------------------------------------------------------------------------
(* The others *)

\* an editor or a tool of the agent changes or removes a file
Edit(f, there) ==
  /\ work[f].n < setup.edits
  /\ work' = [work EXCEPT ![f] = [n |-> @.n + 1, there |-> there]]
  /\ UNCHANGED <<setup, index, log, tag, inst>>

\* git rm in a shell
StageRemoval(f) ==
  /\ setup.stages /\ work[f].n < setup.edits
  /\ work' = [work EXCEPT ![f] = [n |-> @.n + 1, there |-> FALSE]]
  /\ index' = [index EXCEPT ![f] = work'[f]]
  /\ UNCHANGED <<setup, log, tag, inst>>

\* git commit -a in a shell
ShellCommit ==
  /\ setup.shell /\ Len(log) < MaxLog
  /\ work # Tip
  /\ index' = work
  /\ log' = Append(log, [tree |-> work, by |-> "operator"])
  /\ UNCHANGED <<setup, work, tag, inst>>

-------------------------------------------------------------------------------
(* commit *)

\* status: the paths whose staged or work version differs
Changed == {f \in File : index[f] # Tip[f] \/ work[f] # index[f]}

Status(s) ==
  /\ pc[s] = "idle"
  /\ seen' = [seen EXCEPT ![s] = work] /\ head' = [head EXCEPT ![s] = Len(log)]
  /\ paths' = [paths EXCEPT ![s] = Changed]
  /\ Go(s, IF Changed = {} THEN "idle" ELSE "add")
  /\ UNCHANGED <<repo, last, name, target, stray, mine>>

\* a path in neither the index nor the work tree is an error, and nothing is staged
Unmatched(f) == ~index[f].there /\ ~work[f].there

\* Mutant of Add: only files that exist are staged.
AddPresent(s) ==
  /\ pc[s] = "add"
  /\ Go(s, "commit")
  /\ index' = [f \in File |-> IF f \in paths[s] /\ work[f].there THEN work[f] ELSE index[f]]
  /\ UNCHANGED <<setup, work, log, tag, paths, last, name, target, stray, seen, head, mine>>

Add(s) ==
  /\ pc[s] = "add"
  /\ IF \E f \in paths[s] : Unmatched(f)
     THEN Go(s, "failed") /\ UNCHANGED index
     ELSE Go(s, "commit") /\ index' = [f \in File |-> IF f \in paths[s] THEN work[f] ELSE index[f]]
  /\ UNCHANGED <<setup, work, log, tag, paths, last, name, target, stray, seen, head, mine>>

\* what the process git commit does, when there is something to commit
Committed(s) ==
  IF index = Tip THEN UNCHANGED <<log, mine>>
  ELSE /\ log' = Append(log, [tree |-> index, by |-> s])
       /\ mine' = [mine EXCEPT ![s] = @ \cup {Len(log')}]

Commit(s) ==
  /\ pc[s] = "commit" /\ Len(log) < MaxLog
  /\ Committed(s)
  /\ Go(s, IF index = Tip THEN "failed" ELSE "log")
  /\ UNCHANGED <<setup, work, index, tag, paths, last, name, target, stray, seen, head>>

\* _run gives up after its timeout and leaves the process running
CommitTimesOut(s) ==
  /\ setup.slow /\ pc[s] = "commit" /\ s \notin stray
  /\ stray' = stray \cup {s}
  /\ Go(s, "failed")
  /\ UNCHANGED <<repo, paths, last, name, target, seen, head, mine>>
StrayEnds(s) ==
  /\ s \in stray /\ Len(log) < MaxLog
  /\ stray' = stray \ {s}
  /\ Committed(s)
  /\ UNCHANGED <<setup, work, index, tag, pc, paths, last, name, target, seen, head>>

\* Mutant of Log: the remembered hash is the one of the status.
LogEarly(s) ==
  /\ pc[s] = "log"
  /\ last' = [last EXCEPT ![s] = head[s]]
  /\ Go(s, "committed")
  /\ UNCHANGED <<repo, paths, name, target, stray, seen, head, mine>>

\* git log -1: the hash that is returned and remembered
Log(s) ==
  /\ pc[s] = "log"
  /\ last' = [last EXCEPT ![s] = Len(log)]
  /\ Go(s, "committed")
  /\ UNCHANGED <<repo, paths, name, target, stray, seen, head, mine>>

\* the caller has its answer
Return(s) ==
  /\ pc[s] \in {"committed", "failed", "tagged"}
  /\ Go(s, "idle")
  /\ UNCHANGED <<repo, paths, last, name, target, stray, seen, head, mine>>

-------------------------------------------------------------------------------
(* checkpoint *)

\* Mutant of Pick: without a remembered commit the last line of the log is taken,
\* the oldest.
PickOldest(s, n) ==
  /\ pc[s] = "idle"
  /\ name' = [name EXCEPT ![s] = n]
  /\ target' = [target EXCEPT ![s] = IF last[s] # 0 THEN last[s] ELSE 1]
  /\ head' = [head EXCEPT ![s] = Len(log)]
  /\ Go(s, "exists")
  /\ UNCHANGED <<repo, paths, last, stray, seen, mine>>

\* Mutant of Pick: checkpoint tags a commit that is to come.
PickNext(s, n) ==
  /\ pc[s] = "idle"
  /\ name' = [name EXCEPT ![s] = n]
  /\ target' = [target EXCEPT ![s] = Len(log) + 1]
  /\ head' = [head EXCEPT ![s] = Len(log)]
  /\ Go(s, "exists")
  /\ UNCHANGED <<repo, paths, last, stray, seen, mine>>

\* the remembered commit, else the latest
Pick(s, n) ==
  /\ pc[s] = "idle"
  /\ name' = [name EXCEPT ![s] = n]
  /\ target' = [target EXCEPT ![s] = IF last[s] # 0 THEN last[s] ELSE Len(log)]
  /\ head' = [head EXCEPT ![s] = Len(log)]
  /\ Go(s, "exists")
  /\ UNCHANGED <<repo, paths, last, stray, seen, mine>>

\* Mutant of Exists: checkpoint does not ask whether the name is taken.
ExistsUnasked(s) ==
  /\ pc[s] = "exists"
  /\ Go(s, "tag")
  /\ UNCHANGED <<repo, paths, last, name, target, stray, seen, head, mine>>

\* rev-parse refs/tags/<name>
Exists(s) ==
  /\ pc[s] = "exists"
  /\ Go(s, IF tag[name[s]] # 0 THEN "failed" ELSE "tag")
  /\ UNCHANGED <<repo, paths, last, name, target, stray, seen, head, mine>>

\* git tag -a fails on a name that exists
Tag(s) ==
  /\ pc[s] \in {"tag", "retag"}
  /\ IF tag[name[s]] = 0
     THEN tag' = [tag EXCEPT ![name[s]] = target[s]] /\ Go(s, "tagged")
     ELSE UNCHANGED tag /\ Go(s, IF pc[s] = "tag" THEN "untag" ELSE "failed")
  /\ UNCHANGED <<setup, work, index, log, paths, last, name, target, stray, seen, head, mine>>

\* after a failure the name is removed and the tag tried again
Untag(s) ==
  /\ pc[s] = "untag"
  /\ tag' = [tag EXCEPT ![name[s]] = 0]
  /\ Go(s, "retag")
  /\ UNCHANGED <<setup, work, index, log, paths, last, name, target, stray, seen, head, mine>>

\* the process of the agent ends; the next one remembers no commit
Crash(s) ==
  /\ pc[s] # "idle" \/ last[s] # 0
  /\ Go(s, "idle") /\ last' = [last EXCEPT ![s] = 0]
  /\ UNCHANGED <<repo, paths, name, target, stray, seen, head, mine>>

Step(s) ==
  \/ Status(s) \/ Add(s) \/ Commit(s) \/ CommitTimesOut(s) \/ StrayEnds(s) \/ Log(s) \/ Return(s)
  \/ \E n \in Name : Pick(s, n)
  \/ Exists(s) \/ Tag(s) \/ Untag(s) \/ Crash(s)

Next ==
  \/ \E f \in setup.files : (\E there \in BOOLEAN : Edit(f, there)) \/ StageRemoval(f)
  \/ ShellCommit
  \/ \E s \in setup.sessions : Step(s)

Spec == Init /\ [][Next]_vars

-------------------------------------------------------------------------------
(* Properties *)

\* the repository and the sessions have their types, and tags name commits
TypeOK ==
  /\ work \in [File -> Blob] /\ index \in [File -> Blob]
  /\ \A i \in DOMAIN log : log[i].tree \in [File -> Blob] /\ log[i].by \in Session \cup {"operator"}
  /\ tag \in [Name -> 0..Len(log)]
  /\ pc \in [Session -> {"idle", "add", "commit", "log", "committed", "failed", "exists",
                         "tag", "untag", "retag", "tagged"}]
  /\ paths \in [Session -> SUBSET File]
  /\ last \in [Session -> 0..Len(log)] /\ target \in [Session -> 0..Len(log)]

\* a commit contains every change the status saw: nothing the agent did before
\* git_commit is left for a later commit
CommitIsWhole ==
  \A s \in Session : pc[s] = "committed" =>
    \A f \in File : log[last[s]].tree[f].n >= seen[s][f].n

\* the hash that commit returns is of a commit that this session made
HashIsOwn == \A s \in Session : pc[s] = "committed" => last[s] \in mine[s]

\* a checkpoint, once made, stays where it is
TagsStay == \A n \in Name : tag[n] # 0 => tag'[n] = tag[n]
CheckpointsStay == [][TagsStay]_vars

\* a checkpoint marks the milestone that has just been completed: no commit
\* before the call is left out
CheckpointIsCurrent == \A s \in Session : pc[s] = "tagged" => target[s] >= head[s]
===============================================================================
