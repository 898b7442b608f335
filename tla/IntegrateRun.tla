---------------------------- MODULE IntegrateRun ----------------------------
(***************************************************************************)
(* gz-git integrate run (pkg/integrate): check that a task branch is ready,*)
(* push its commit to the target branch of the remote, bring the local     *)
(* target along and reclaim the task: its worktree, its branch, its remote *)
(* branch and an empty parent directory.  Every git command is one step and*)
(* may fail; between two of them the developer goes on in the same         *)
(* repository and colleagues push to the remote.  A branch is the set of   *)
(* its commits, {} when it does not exist; a SHA is the whole set.         *)
(***************************************************************************)
EXTENDS Naturals

CONSTANTS
  More,        \* commits made meanwhile on the task, here or by colleagues
  OtherSteps   \* bound: steps of the developer and the colleagues

ASSUME IntegrateAssumption ==
  More \cap {"base", "task", "other"} = {} /\ OtherSteps \in Nat

Commits == {"base", "task", "other"} \cup More

VARIABLES
  task, ltarget,    \* local branches
  ttask, ttarget,   \* remote-tracking refs
  rtask, rtarget,   \* branches of the remote
  taskIn,           \* the task is checked out in the main tree, in its own, in two, in none
  targetTree,       \* the local target is checked out somewhere
  edits,            \* uncommitted changes in the task's tree
  parent,           \* the directory around the task's tree: shared, or its own
  steps,            \* steps the others took
  pc, sha,          \* the run; plan.BranchSHA
  named, kind,      \* the target: by default, by a remote or a local name; kept (the default, the integration
                    \* or an undeclared branch) or task
  skipped, failed, exit,
  work, ready, landed   \* observed: commits of the task, what was found ready, what was pushed

remotes == <<rtask, rtarget>>
tracks  == <<ttask, ttarget>>
trees   == <<taskIn, targetTree, edits, parent>>
outcome == <<skipped, failed, exit>>
request == <<named, kind>>
vars == <<task, ltarget, tracks, remotes, trees, steps, pc, sha, request, outcome, work, ready, landed>>

Init ==
  /\ task = {"base", "task"} /\ rtarget \in {{"base"}, {}}
  /\ ltarget \in {{}, {"base"}, {"base", "other"}}
  /\ rtask \in {{}, task} /\ ttask \in {{}, rtask} /\ ttarget \in {{}, rtarget}
  /\ taskIn \in {"main", "own", "two", "none"}
  /\ targetTree \in IF ltarget = {} THEN {FALSE} ELSE BOOLEAN
  /\ edits = FALSE /\ parent \in {"shared", "own"}
  /\ steps = 0
  /\ pc = "resolve" /\ sha = {}
  /\ named \in {"default", "remote", "local"} /\ kind \in {"kept", "task"}
  /\ skipped = FALSE /\ failed = FALSE /\ exit = "none"
  /\ work = {"task"} /\ ready = {} /\ landed = {}

-----------------------------------------------------------------------------
(* The others.                                                             *)

DevEdits ==
  /\ taskIn # "none" /\ ~edits /\ edits' = TRUE
  /\ UNCHANGED <<task, tracks, remotes, work>>

(* A commit on top, or one that amends the last.                           *)
DevCommits ==
  /\ edits /\ edits' = FALSE
  /\ \E c \in More \ work :
       \/ task' = task \cup {c} /\ work' = work \cup {c}
       \/ task' = (task \ {"task"}) \cup {c} /\ work' = (work \ {"task"}) \cup {c}
  /\ UNCHANGED <<tracks, remotes>>

(* Leaves the task's branch for another one, or goes back to it.           *)
DevSwitches ==
  /\ task # {} /\ ~edits /\ taskIn # "two"
  /\ taskIn' \in {"none", "main"} \ {taskIn}
  /\ UNCHANGED <<task, tracks, remotes, edits, work>>

DevPushes ==
  /\ task # {} /\ rtask \subseteq task
  /\ rtask' = task /\ ttask' = task
  /\ UNCHANGED <<task, ttarget, rtarget, edits, work>>

DevFetches ==
  /\ ttask' = IF rtask = {} THEN ttask ELSE rtask
  /\ ttarget' = rtarget
  /\ UNCHANGED <<task, remotes, edits, work>>

ColleaguePushesTask ==
  /\ \E c \in More \ work :
       rtask' = (IF rtask = {} THEN {"base", "task"} ELSE rtask) \cup {c} /\ work' = work \cup {c}
  /\ UNCHANGED <<task, tracks, rtarget, edits>>

(* The host deletes a branch that is merged.                               *)
TaskDeletedOnRemote ==
  /\ rtask # {} /\ rtask \subseteq rtarget /\ rtask' = {}
  /\ UNCHANGED <<task, tracks, rtarget, edits, work>>

ColleaguePushesTarget ==
  /\ "other" \notin rtarget /\ rtarget # {}
  /\ rtarget' = rtarget \cup {"other"}
  /\ UNCHANGED <<task, tracks, rtask, edits, work>>

Others ==
  /\ steps < OtherSteps /\ steps' = steps + 1 /\ pc # "done"
  /\ \/ /\ DevEdits \/ DevCommits \/ DevPushes \/ DevFetches
           \/ ColleaguePushesTask \/ TaskDeletedOnRemote \/ ColleaguePushesTarget
        /\ UNCHANGED taskIn
     \/ DevSwitches
  /\ UNCHANGED <<ltarget, targetTree, parent, pc, sha, request, outcome, ready, landed>>

-----------------------------------------------------------------------------
(* Check and Run, up to the push.                                          *)

Goto(step) == pc' = step /\ UNCHANGED outcome
Exit(code) == pc' = "done" /\ exit' = code /\ UNCHANGED <<skipped, failed>>

repo == <<task, ltarget, tracks, remotes, trees>>
seen == <<work, ready, landed>>

(* resolveTarget: which branch and target, if the options allow them; a    *)
(* message that names --target or the integration branch exits 1.          *)
Resolve ==
  /\ pc = "resolve"
  /\ \/ sha' = task /\ Goto("fetch")
     \/ sha' = sha /\ \E code \in {"1", "2"} : Exit(code)
  /\ UNCHANGED <<repo, steps, request, seen>>

FetchThen(step, next) ==
  /\ pc = step
  /\ \/ ttask' = rtask /\ ttarget' = rtarget /\ Goto(next)
     \/ UNCHANGED tracks /\ Exit("2")
  /\ UNCHANGED <<task, ltarget, remotes, trees, steps, sha, request, seen>>

(* The target as planned: by default the remote's, and where there is none *)
(* the local branch of that name.                                          *)
ByLocalName == named = "local" \/ (named = "default" /\ ttarget = {})
TargetSHA   == IF ByLocalName THEN ltarget ELSE ttarget

(* The end of resolveTarget, and checkFreshness.                           *)
Freshness ==
  /\ pc = "freshness"
  /\ IF TargetSHA = {} THEN Exit("2")
     ELSE IF TargetSHA \subseteq sha THEN Goto("inspect") ELSE Exit("1")
  /\ named' = IF ByLocalName THEN "local" ELSE "remote"
  /\ UNCHANGED <<repo, steps, sha, kind, seen>>

(* checkWorkingTree, checkPushed.                                          *)
Inspect ==
  /\ pc = "inspect"
  /\ IF taskIn # "none" /\ ~edits /\ ttask # {} /\ ttask = sha THEN Goto("make") ELSE Exit("1")
  /\ UNCHANGED <<repo, steps, sha, request, seen>>

(* make check, make lint, on what is checked out now.                      *)
Make ==
  /\ pc = "make"
  /\ \/ ready' = sha /\ Goto("recheck")
     \/ UNCHANGED ready /\ Exit("1")
  /\ UNCHANGED <<repo, steps, sha, request, work, landed>>

(* Run looks at the branch again.                                          *)
Recheck ==
  /\ pc = "recheck"
  /\ sha' = task
  /\ IF task = sha THEN Goto("refetch") ELSE Exit("2")
  /\ UNCHANGED <<repo, steps, request, seen>>

(* The ancestry test of Run, against the remote's target as fetched.       *)
Compare ==
  /\ pc = "compare"
  /\ LET tip == IF ttarget # {} THEN ttarget ELSE IF named = "local" THEN ltarget ELSE {}
     IN  IF tip # {} /\ tip \subseteq sha THEN Goto("push") ELSE Exit("2")
  /\ UNCHANGED <<repo, steps, sha, request, seen>>

PushOf(source, forced, heeded) ==
  /\ pc = "push"
  /\ \/ /\ forced \/ rtarget \subseteq source
        /\ rtarget' = source /\ landed' = source
        /\ \/ ttarget' = source /\ Goto("follow")
           \/ UNCHANGED ttarget /\ Exit("2")    \* accepted, and the answer lost
     \/ UNCHANGED <<rtarget, ttarget, landed>> /\ IF heeded THEN Exit("2") ELSE Goto("follow")
  /\ UNCHANGED <<task, ltarget, ttask, rtask, trees, steps, sha, request, work, ready>>

(* Mutants: the branch's name instead of the commit; a push whose exit     *)
(* code is not looked at.                                                  *)
PushBranch  == PushOf(task, FALSE, TRUE)
PushUnheard == PushOf(sha, FALSE, FALSE)

(* pushFastForward: the remote takes only a fast-forward.                  *)
Push == PushOf(sha, FALSE, TRUE)

(* ffTargetWorktrees.                                                      *)
Follow ==
  /\ pc = "follow"
  /\ \/ ~targetTree /\ UNCHANGED ltarget /\ Goto("reclaim")
     \/ targetTree /\ ltarget \subseteq sha /\ ltarget' = sha /\ Goto("reclaim")
     \/ UNCHANGED ltarget /\ Exit("2")
  /\ UNCHANGED <<task, tracks, remotes, trees, steps, sha, request, seen>>

-----------------------------------------------------------------------------
(* reclaimAfter.                                                           *)

Finished(incomplete) ==
  /\ pc' = "done" /\ failed' = incomplete /\ skipped' = FALSE
  /\ exit' = IF incomplete THEN "3" ELSE "0"
Skip == pc' = "done" /\ exit' = "0" /\ skipped' = TRUE /\ UNCHANGED failed

(* The guards before anything is removed.                                  *)
Classify ==
  /\ pc = "reclaim"
  /\ \/ kind # "task" /\ Skip
     \/ kind = "task" /\ taskIn = "main" /\ Skip
     \/ kind = "task" /\ taskIn = "own" /\ Goto("nested")
     \/ kind = "task" /\ taskIn = "none" /\ Goto("branch")
     \/ kind = "task" /\ Finished(TRUE)     \* two worktrees, or no list of them
  /\ UNCHANGED <<repo, steps, sha, request, seen>>

(* nestedIgnoredRepos: what is found stops the reclaim.                    *)
NestedCheck ==
  /\ pc = "nested"
  /\ (Goto("worktree") \/ Finished(TRUE))
  /\ UNCHANGED <<repo, steps, sha, request, seen>>

RemoveTreeIf(ok) ==
  /\ pc = "worktree"
  /\ \/ /\ taskIn = "own" => ok
        /\ taskIn' = IF taskIn = "own" THEN "none" ELSE taskIn
        /\ edits' = (edits /\ taskIn # "own")
        /\ Goto("branch")
     \/ UNCHANGED <<taskIn, edits>> /\ Finished(TRUE)
  /\ UNCHANGED <<task, ltarget, tracks, remotes, targetTree, parent, steps, sha, request, seen>>

(* git worktree remove refuses a tree with changes, ignored files aside.   *)
RemoveTree == RemoveTreeIf(~edits)

(* git branch -d: refused for a branch that is checked out and for one that*)
(* is not merged in its upstream or, without an upstream, in the HEAD of   *)
(* the tree the run stands in, the target's or the main one.               *)
standHead == IF targetTree THEN ltarget ELSE {"base"}
Merged == task \subseteq IF ttask # {} THEN ttask ELSE standHead

DeleteBranch ==
  /\ pc = "branch"
  /\ \/ Merged /\ taskIn = "none" /\ task' = {} /\ Goto("remote")
     \/ UNCHANGED task /\ Finished(TRUE)
  /\ UNCHANGED <<ltarget, tracks, remotes, trees, steps, sha, request, seen>>

DeleteRemoteLeased(expected) ==
  /\ pc = "remote"
  /\ \/ ttask = {} /\ UNCHANGED <<rtask, ttask>> /\ Goto("parent")
     \/ ttask # {} /\ rtask = expected /\ rtask' = {} /\ ttask' = {} /\ Goto("parent")
     \/ ttask # {} /\ rtask' \in {rtask} \cup (IF rtask = expected THEN {{}} ELSE {})
        /\ UNCHANGED ttask /\ Goto("ask")
     \/ UNCHANGED <<rtask, ttask>> /\ Finished(TRUE)
  /\ UNCHANGED <<task, ltarget, ttarget, rtarget, trees, steps, sha, request, seen>>

(* Mutant: the lease is the tracking ref, --force-with-lease's default.    *)
DeleteRemoteTracked == DeleteRemoteLeased(ttask)

(* reclaimRemoteBranch: leased against the commit that landed; a failure is*)
(* looked into.                                                            *)
DeleteRemote == DeleteRemoteLeased(sha)

AskRemoteIf(gone) ==
  /\ pc = "ask"
  /\ \/ gone /\ Goto("parent")
     \/ Finished(TRUE)
  /\ UNCHANGED <<repo, steps, sha, request, seen>>

(* Mutant: an ls-remote without an answer is taken for a branch gone.      *)
AskRemoteUnheard == AskRemoteIf(TRUE)

(* ls-remote: an empty answer, and no failure, means that it is gone.      *)
AskRemote == AskRemoteIf(rtask = {})

(* reclaimEmptyParent.                                                     *)
RemoveParent ==
  /\ pc = "parent"
  /\ \/ UNCHANGED parent /\ Finished(FALSE)
     \/ parent = "own" /\ parent' = "gone" /\ Finished(FALSE)
     \/ parent = "own" /\ UNCHANGED parent /\ Finished(TRUE)
  /\ UNCHANGED <<task, ltarget, tracks, remotes, taskIn, targetTree, edits, steps, sha, request, seen>>

Run ==
  \/ Resolve \/ FetchThen("fetch", "freshness") \/ Freshness \/ Inspect \/ Make
  \/ Recheck \/ FetchThen("refetch", "compare") \/ Compare \/ Push \/ Follow
  \/ Classify \/ NestedCheck \/ RemoveTree \/ DeleteBranch \/ DeleteRemote \/ AskRemote \/ RemoveParent

Done == pc = "done" /\ UNCHANGED vars

Next == Others \/ Run \/ Done

Spec == Init /\ [][Next]_vars

-----------------------------------------------------------------------------
(* Properties.                                                             *)

Steps == {"resolve", "fetch", "freshness", "inspect", "make", "recheck", "refetch", "compare", "push", "follow",
          "reclaim", "nested", "worktree", "branch", "remote", "ask", "parent", "done"}

(* The types of the repositories' and the run's state; an exit code is set *)
(* exactly at the end, and it is 3 exactly when the reclaim failed.        *)
TypeOK ==
  /\ \A branch \in {task, ltarget, ttask, ttarget, rtask, rtarget, sha, work, ready, landed} : branch \subseteq Commits
  /\ taskIn \in {"main", "own", "two", "none"} /\ targetTree \in BOOLEAN
  /\ edits \in BOOLEAN /\ parent \in {"shared", "own", "gone"}
  /\ steps \in 0..OtherSteps /\ pc \in Steps
  /\ exit \in {"none", "0", "1", "2", "3"} /\ (pc = "done" <=> exit # "none") /\ (failed <=> exit = "3")
  /\ skipped \in BOOLEAN /\ failed \in BOOLEAN

(* Every commit anybody made on the task is still on the task, on its      *)
(* remote branch or on the remote's target, whatever was made or pushed    *)
(* while the run was checking, landing and reclaiming (the lease of        *)
(* reclaimRemoteBranch, branch -d).                                        *)
TaskWorkSurvives == work \subseteq task \cup rtask \cup rtarget

(* Only the very commit that was found ready lands on the target, whatever *)
(* was committed meanwhile (BranchSHA compared again, pushed by its SHA).  *)
LandedWasReady == landed # {} => landed = ready

(* The remote's target never loses a commit.                               *)
TargetKeepsCommits == [][rtarget \subseteq rtarget']_rtarget

(* The worktree and the local branch are only removed when what was checked*)
(* is on the remote's target, and never those of a protected branch.       *)
ReclaimsOnlyTheLanded ==
  [][task' = {} \/ (taskIn' # taskIn /\ pc' # pc) => kind = "task" /\ sha \subseteq rtarget]_<<task, taskIn, pc>>

(* Exit 0 without a skip leaves nothing of the task, though the developer  *)
(* and colleagues went on meanwhile: no branch, no work tree on it, and on *)
(* the remote not the commit that landed, only what was pushed later.      *)
ExitZeroMeansReclaimed == exit = "0" /\ ~skipped => task = {} /\ taskIn = "none" /\ rtask # sha
=============================================================================
