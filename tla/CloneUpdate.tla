---------------------------- MODULE CloneUpdate ----------------------------
(***************************************************************************)
(* One action of a sync inside its repository: the retry loop of           *)
(* runCloneOrUpdate (pkg/reposync/executor_git.go) around                  *)
(* client.CloneOrUpdate (pkg/repository/update.go), while a developer      *)
(* works in the same directory, others push to the remote and the context  *)
(* may be cancelled.  A git command is one step; it may be killed half way *)
(* (the executor's timeout, a cancelled context), and a cancelled context  *)
(* keeps every later command from starting at all.                         *)
(***************************************************************************)
EXTENDS Naturals

CONSTANTS
  Requests,   \* the actions a planner hands over: type, strategy
  Attempts,   \* max(opts.MaxRetries+1, 1)
  DevSteps    \* bound: what the developer does meanwhile

(* What the developer has not pushed: committed on the branch (mine), or   *)
(* while a rebase was in progress (amid).                                  *)
Unpushed == {"mine", "amid"}
Commits  == {"base", "theirs"} \cup Unpushed

ASSUME UpdateAssumption ==
  /\ Requests \subseteq [type : {"clone", "update"}, strategy : {"reset", "pull", "rebase", "fetch", "clone"}]
  /\ Attempts \in Nat \ {0} /\ DevSteps \in Nat

VARIABLES
  dir,                    \* the target: absent, plain (no .git), partial (a killed clone: a .git,
                          \* and no branch or no files yet) or repo
  tip, tracking, remote,  \* commits of HEAD, of origin/HEAD as last fetched, of the remote
  edits, merging,         \* uncommitted changes; a merge left half done
  rebase, orig,           \* whose rebase is in progress, and HEAD before it
  lock,                   \* .git/index.lock: none, stale, or held by a live git process
  cancelled, devSteps,
  request, pc, attempt, result, verdict,  \* executeOne's local state
  basis, work             \* observed: remote at the start of the attempt; developer's work

tree   == <<dir, tip, tracking, edits, merging, rebase, orig, lock>>
others == <<remote, cancelled, devSteps>>
local  == <<request, pc, attempt, result, verdict>>
observed == <<basis, work>>
vars == <<tree, others, local, observed>>

NoResult == [success |-> FALSE, action |-> "none"]

Init ==
  /\ dir \in {"absent", "plain", "partial", "repo"}
  /\ tip \in CASE dir = "repo" -> {{"base"}} [] dir = "partial" -> {{}, {"base"}} [] OTHER -> {{}}
  /\ tracking = tip /\ remote = {"base"}
  /\ edits = FALSE /\ merging = FALSE /\ rebase = "none" /\ orig = {}
  /\ lock \in IF dir \in {"partial", "repo"} THEN {"none", "stale"} ELSE {"none"}
  /\ cancelled = FALSE /\ devSteps = 0
  /\ request \in Requests
  /\ pc = "attempt" /\ attempt = 1 /\ result = NoResult /\ verdict = "none"
  /\ basis = remote /\ work = [commit |-> FALSE, amid |-> FALSE]

-----------------------------------------------------------------------------
(* The others.                                                             *)

Cancel ==
  /\ ~cancelled /\ pc # "done"
  /\ cancelled' = TRUE
  /\ UNCHANGED <<tree, remote, devSteps, local, observed>>

(* Somebody pushes.                                                        *)
RemoteMoves ==
  /\ "theirs" \notin remote
  /\ remote' = remote \cup {"theirs"}
  /\ UNCHANGED <<tree, cancelled, devSteps, local, observed>>

(* The developer edits, commits (amid a rebase too, their own or one the   *)
(* sync left stopped), stops in a rebase of their own with a clean tree,   *)
(* ends a rebase, or has a git command running for a while.                *)
DevEdits ==
  /\ ~edits
  /\ edits' = TRUE
  /\ UNCHANGED <<tip, rebase, orig, lock, work>>

DevCommits ==
  /\ edits /\ lock = "none" /\ ~merging
  /\ edits' = FALSE
  /\ IF rebase = "none"
     THEN tip' = tip \cup {"mine"} /\ work' = [work EXCEPT !.commit = TRUE]
     ELSE tip' = tip \cup {"amid"} /\ work' = [work EXCEPT !.amid = TRUE]
  /\ UNCHANGED <<rebase, orig, lock>>

DevRebases ==
  /\ ~edits /\ lock = "none" /\ ~merging /\ rebase = "none"
  /\ rebase' = "dev" /\ orig' = tip
  /\ UNCHANGED <<tip, edits, lock, work>>

DevContinues ==
  /\ ~edits /\ lock = "none" /\ rebase # "none"
  /\ tip' = tip \cup orig /\ rebase' = "none" /\ orig' = {}
  /\ UNCHANGED <<edits, lock, work>>

DevGitRuns ==
  /\ \/ lock = "none" /\ lock' = "live"
     \/ lock = "live" /\ lock' = "none"
  /\ UNCHANGED <<tip, edits, rebase, orig, work>>

Developer ==
  /\ devSteps < DevSteps /\ dir = "repo"
  /\ devSteps' = devSteps + 1
  /\ DevEdits \/ DevCommits \/ DevRebases \/ DevContinues \/ DevGitRuns
  /\ UNCHANGED <<dir, tracking, merging, remote, cancelled, local, basis>>

-----------------------------------------------------------------------------
(* runCloneOrUpdate: strategy and retries.                                 *)

(* toUpdateStrategy.                                                       *)
ToStrategy(r) == IF r.type = "clone" THEN "clone" ELSE r.strategy

strategy == ToStrategy(request)

Goto(step) == pc' = step /\ UNCHANGED <<request, attempt, result, verdict>>
Fail       == Goto("retry")
Result(ok, act) ==
  /\ pc' = "settle" /\ result' = [success |-> ok, action |-> act]
  /\ UNCHANGED <<request, attempt, verdict>>
Settle(v) == pc' = "done" /\ verdict' = v /\ UNCHANGED <<request, attempt, result>>

idle == <<tree, others, observed>>

(* The head of the loop, and checkTargetDirectory: a directory is a        *)
(* repository when it has a .git, finished or not.                         *)
Attempt ==
  /\ pc = "attempt"
  /\ basis' = remote
  /\ \/ cancelled /\ Settle("failed")
     \/ ~cancelled /\ dir = "absent" /\ Goto("clone")
     \/ ~cancelled /\ dir = "plain" /\ IF strategy = "clone" THEN Goto("remove") ELSE Fail
     \/ /\ ~cancelled /\ dir \in {"partial", "repo"}
        /\ Goto(CASE strategy = "clone" -> "remove" [] strategy = "fetch" -> "fetch" [] OTHER -> "lock")
  /\ UNCHANGED <<tree, others, work>>

RetryWhile(more, step) ==
  /\ pc = "retry"
  /\ IF more
     THEN pc' = "attempt" /\ attempt' = attempt + step /\ UNCHANGED <<request, result, verdict>>
     ELSE Settle("failed")
  /\ UNCHANGED idle

(* Mutant: attempts that are not counted.                                  *)
RetryUncounted == RetryWhile(attempt < Attempts, 0)

(* err # nil: again while attempts are left.                               *)
Retry == RetryWhile(attempt < Attempts, 1)

(* err = nil: result.Success is not looked at.                             *)
Accept ==
  /\ pc = "settle"
  /\ Settle("succeeded")
  /\ UNCHANGED idle

Done == pc = "done" /\ UNCHANGED vars

-----------------------------------------------------------------------------
(* CloneOrUpdate.  Every git command may fail without an effect.           *)

Opening(act) ==
  /\ pc' = "open" /\ result' = [success |-> TRUE, action |-> act]
  /\ UNCHANGED <<request, attempt, verdict>>

Emptied ==
  /\ tip' = {} /\ tracking' = {} /\ edits' = FALSE /\ merging' = FALSE
  /\ rebase' = "none" /\ orig' = {} /\ lock' = "none"

(* os.RemoveAll, which can fail half way.                                  *)
Remove ==
  /\ pc = "remove"
  /\ \/ dir' = "absent" /\ Emptied /\ Goto("clone")
     \/ dir' \in {dir, IF dir = "repo" THEN "partial" ELSE dir} /\ Fail
        /\ IF dir' = "partial" THEN Emptied ELSE UNCHANGED <<tip, tracking, edits, merging, rebase, orig, lock>>
  /\ UNCHANGED <<others, observed>>

(* git clone removes what it made when it fails, but not when it is killed,*)
(* before it has a branch or while it checks files out.                    *)
Clone ==
  /\ pc = "clone"
  /\ \/ /\ ~cancelled
        /\ dir' = "repo" /\ tip' = remote /\ tracking' = remote
        /\ UNCHANGED lock /\ Opening("cloned")
     \/ /\ ~cancelled
        /\ dir' = "partial" /\ tip' \in {{}, remote} /\ tracking' = tip' /\ lock' \in {"none", "stale"}
        /\ Fail
     \/ UNCHANGED <<dir, tip, tracking, lock>> /\ Fail
  /\ UNCHANGED <<edits, merging, rebase, orig, others, observed>>

LockRemovedThen(step) ==
  /\ pc = "lock"
  /\ \/ lock' = "none" /\ Goto(step)
     \/ lock # "none" /\ Fail /\ UNCHANGED lock
  /\ UNCHANGED <<dir, tip, tracking, edits, merging, rebase, orig, others, basis, work>>

(* Mutant: reset goes to the origin/HEAD it has, without a fetch.          *)
RemoveLockNoFetch == LockRemovedThen(IF strategy = "reset" THEN "apply" ELSE "status")

(* removeStaleIndexLock: any lock file goes, whoever holds it.             *)
RemoveLock == LockRemovedThen(IF strategy = "reset" THEN "fetch" ELSE "status")

(* c.Open and c.GetStatus of pull and rebase: a tree that is not clean     *)
(* ends the attempt, a status that cannot be read does not.  A branch with *)
(* no files yet is not clean, a repository without a branch is.            *)
Status ==
  /\ pc = "status"
  /\ LET dirty == edits \/ merging \/ (dir = "partial" /\ tip # {})
     IN  \/ dirty /\ ~cancelled /\ Result(FALSE, "dirty")
         \/ Goto(IF strategy = "pull" THEN "apply" ELSE "fetch")
  /\ UNCHANGED idle

(* git fetch asks for a .git only, a killed clone's as well.               *)
Fetch ==
  /\ pc = "fetch"
  /\ \/ /\ ~cancelled
        /\ tracking' = remote
        /\ IF strategy = "fetch" THEN Opening("fetched") ELSE Goto("apply")
     \/ UNCHANGED tracking /\ Fail
  /\ UNCHANGED <<dir, tip, edits, merging, rebase, orig, lock, others, observed>>

GitWorks == ~cancelled /\ lock = "none"

(* git reset --hard origin/HEAD, which also finishes a killed clone.       *)
Reset ==
  /\ pc = "apply" /\ strategy = "reset"
  /\ \/ GitWorks /\ dir' = "repo" /\ tip' = tracking /\ edits' = FALSE /\ merging' = FALSE /\ UNCHANGED lock /\ Opening("reset")
     \/ GitWorks /\ tip' \in {tip, tracking} /\ edits' \in {edits, FALSE} /\ lock' = "stale" /\ UNCHANGED <<dir, merging>> /\ Fail
     \/ UNCHANGED <<dir, tip, edits, merging, lock>> /\ Fail
  /\ UNCHANGED <<tracking, rebase, orig, others, observed>>

Diverged(theirs) == tip \cap Unpushed # {} /\ ~(theirs \subseteq tip)

(* git pull: a conflict leaves the merge in the tree; without a branch (a  *)
(* rebase in progress) it only fetches; a killed clone gets its files when *)
(* it has no branch yet.                                                   *)
Pull ==
  /\ pc = "apply" /\ strategy = "pull"
  /\ \/ /\ GitWorks /\ ~merging
        /\ tracking' = remote
        /\ \/ /\ rebase = "none"
              /\ tip' = tip \cup remote /\ dir' = IF tip = {} THEN "repo" ELSE dir
              /\ UNCHANGED <<merging, lock>> /\ Opening("pulled")
           \/ rebase = "none" /\ Diverged(remote) /\ ~edits /\ merging' = TRUE /\ UNCHANGED <<dir, tip, lock>> /\ Fail
           \/ lock' \in {"none", "stale"} /\ UNCHANGED <<dir, tip, merging>> /\ Fail
     \/ UNCHANGED <<dir, tip, tracking, merging, lock>> /\ Fail
  /\ UNCHANGED <<edits, rebase, orig, others, observed>>

(* git rebase origin/HEAD: refused in a tree that is not clean or where a  *)
(* rebase is in progress; stopped by a conflict or a kill it is in progress*)
Rebase ==
  /\ pc = "apply" /\ strategy = "rebase"
  /\ \/ /\ GitWorks /\ dir = "repo" /\ ~edits /\ ~merging /\ rebase = "none"
        /\ \/ tip' = tip \cup tracking /\ UNCHANGED <<rebase, orig, lock>> /\ Opening("rebased")
           \/ /\ Diverged(tracking)
              /\ tip' = tracking /\ rebase' = "ours" /\ orig' = tip
              /\ lock' \in {"none", "stale"} /\ Goto("abort")
     \/ UNCHANGED <<tip, rebase, orig, lock>> /\ Goto("abort")
  /\ UNCHANGED <<dir, tracking, edits, merging, others, observed>>

AbortTo(head) ==
  /\ pc = "abort"
  /\ \/ /\ GitWorks /\ rebase # "none"
        /\ tip' = head /\ rebase' = "none" /\ orig' = {} /\ edits' = FALSE
     \/ /\ ~GitWorks \/ rebase = "none"
        /\ UNCHANGED <<tip, rebase, orig, edits>>
  /\ Result(FALSE, "conflict")
  /\ UNCHANGED <<dir, tracking, merging, lock, others, observed>>

(* Mutant: git rebase --quit.                                              *)
AbortQuit == AbortTo(tip)

(* git rebase --abort after any failure, whosever rebase it is: what was   *)
(* committed amid it leaves the branch.  Its own failure is only logged.   *)
Abort == AbortTo(orig)

(* c.Open only looks for the .git.                                         *)
Open ==
  /\ pc = "open"
  /\ IF dir \in {"partial", "repo"} THEN Goto("settle") ELSE Fail
  /\ UNCHANGED idle

Sync ==
  \/ Attempt \/ Retry \/ Accept
  \/ Remove \/ Clone \/ RemoveLock \/ Status \/ Fetch
  \/ Reset \/ Pull \/ Rebase \/ Abort \/ Open

Next == Cancel \/ RemoteMoves \/ Developer \/ Sync \/ Done

Spec == Init /\ [][Next]_vars

(* The worker is scheduled, and the executor's timeout ends every command. *)
FairSpec == Spec /\ WF_vars(Sync)

-----------------------------------------------------------------------------
(* Properties.                                                             *)

(* The types of the repository's and the action's state.                   *)
TypeOK ==
  /\ dir \in {"absent", "plain", "partial", "repo"}
  /\ tip \subseteq Commits /\ tracking \subseteq Commits /\ remote \subseteq Commits /\ orig \subseteq Commits
  /\ edits \in BOOLEAN /\ merging \in BOOLEAN /\ cancelled \in BOOLEAN
  /\ rebase \in {"none", "ours", "dev"} /\ lock \in {"none", "stale", "live"}
  /\ request \in Requests /\ attempt \in 1..Attempts /\ devSteps \in 0..DevSteps
  /\ verdict \in {"none", "succeeded", "failed"}

(* Under fetch, pull and rebase a commit the developer made on the branch  *)
(* and has not pushed is still on it, or kept by a rebase in progress,     *)
(* whatever fails, is killed or cancelled.  One made amid a rebase is on   *)
(* the branch under fetch and pull; under rebase the abort drops it.       *)
LocalCommitsSurvive ==
  /\ strategy \in {"fetch", "pull", "rebase"} /\ work.commit => "mine" \in tip \cup orig
  /\ strategy \in {"fetch", "pull"} /\ work.amid => "amid" \in tip

(* An update that reports success has everything the remote had when its   *)
(* last attempt began: a fetch in the tracking ref, the others on the      *)
(* branch; after a reset, a rebase or a clone in a complete repository.  A *)
(* fetch, or a pull with nothing new, also succeeds in what a killed clone *)
(* has left.                                                               *)
SuccessIsCurrent ==
  verdict = "succeeded" /\ result.success =>
    /\ basis \subseteq IF strategy = "fetch" THEN tracking ELSE tip \cup orig
    /\ strategy \in {"reset", "rebase", "clone"} => dir = "repo"

(* Every action settles.                                                   *)
ActionSettles == <>(pc = "done")
=============================================================================
