------------------------------- MODULE Handoff -------------------------------
(***************************************************************************)
(* gz-git handoff check, end and start, and gz-git commit, over a          *)
(* workspace of repositories: the scan and its verdict, the plan, the      *)
(* guard, BulkCommit with its two phases, BulkPush, the second scan whose  *)
(* verdict is the exit code, and the fetch and pull of an arrival.  The    *)
(* developer goes on working in the repositories, and colleagues push.     *)
(*                                                                         *)
(* A piece of work is an item: it is in the files of the tree, in the      *)
(* stash, or in a commit of a branch, local, tracking or on the remote.    *)
(***************************************************************************)
EXTENDS Integers, FiniteSets

CONSTANTS
  Repos,                    \* the repositories of the workspace
  Items, Marker, Secrets,   \* pieces of work; conflict markers; what the guard knows for a credential
  Tracked,                  \* items that change a tracked file
  Starts,                   \* states the repositories may be found in
  Requests,                 \* command lines
  OtherSteps                \* bound: actions of the developer and of colleagues

Branches == {"work", "main", "none"}   \* main is protected, none is a detached HEAD
Protected == {"main"}

(* What a branch tracks is what was fetched from the remote or pushed to it.*)
States ==
  [on : Branches, url : BOOLEAN, upstream : BOOLEAN, files : SUBSET Items, stash : SUBSET Items,
   merging : {"no", "conflict", "resolved"}, local : [Branches -> SUBSET Items],
   tracking : [Branches -> SUBSET Items], remote : [Branches -> SUBSET Items]]
Tracks(s) == \A b \in Branches : s.tracking[b] \subseteq s.remote[b]

CommandLines == [cmd : {"check", "end", "start", "commit"}, dry : BOOLEAN, force : BOOLEAN, push : BOOLEAN,
                 yes : BOOLEAN, edit : BOOLEAN, allow : BOOLEAN]

ASSUME HandoffAssumption ==
  /\ Marker \in Items /\ Secrets \cup Tracked \subseteq Items
  /\ OtherSteps \in Nat /\ Requests \subseteq CommandLines
  /\ \A found \in Starts : found \in [Repos -> States] /\ \A r \in Repos : Tracks(found[r])

VARIABLES
  repo,      \* per repository: branch checked out, branches, files, stash, state of a merge
  moves,     \* actions of everybody else so far
  pc, req,   \* the command: its phase, its options
  todo,      \* repositories the phase still has to deal with
  job,       \* per repository: place in the phase, what was read, report and status
  plan,      \* repositories to check in or to update
  bad,       \* repositories that failed, were skipped or were in conflict
  exit,
  seen       \* observed: touched, blind, guarded and unmerged items, items committed, remote pulled, editor closed

vars == <<repo, moves, pc, req, todo, job, plan, bad, exit, seen>>

NoJob == [at |-> "branch", branch |-> "none", upstream |-> FALSE, ahead |-> FALSE, stash |-> FALSE,
          report |-> {}, status |-> "none"]
Unseen == [touched |-> {}, blind |-> {}, held |-> [r \in Repos |-> {}], swept |-> [r \in Repos |-> {}],
           pulled |-> [r \in Repos |-> {}], edited |-> FALSE]

Init ==
  /\ repo \in Starts /\ moves = 0
  /\ req \in Requests /\ pc = (IF req.cmd = "commit" THEN "analyze" ELSE "scan")
  /\ todo = Repos /\ job = [r \in Repos |-> NoJob]
  /\ plan = {} /\ bad = {} /\ exit = -1 /\ seen = Unseen

-----------------------------------------------------------------------------
(* The developer and colleagues.                                           *)

Held(s) == s.files \cup s.stash \cup UNION {s.local[b] \cup s.remote[b] : b \in Branches}
HasUpstream(s) == s.on = "main" \/ (s.on = "work" /\ s.upstream)
Ahead(s) == HasUpstream(s) /\ ~ s.local[s.on] \subseteq s.tracking[s.on]

DevEdits(r) == \E i \in Items \ (Held(repo[r]) \cup {Marker}) : repo' = [repo EXCEPT ![r].files = @ \cup {i}]

DevCommits(r) ==
  /\ repo[r].merging # "conflict" /\ repo[r].files # {}
  /\ repo' = [repo EXCEPT ![r].local[repo[r].on] = @ \cup repo[r].files, ![r].files = {}, ![r].merging = "no"]

DevStashes(r) ==
  /\ repo[r].merging = "no" /\ repo[r].files # {}
  /\ repo' = [repo EXCEPT ![r].stash = @ \cup repo[r].files, ![r].files = {}]

DevPops(r) ==
  /\ repo[r].merging = "no" /\ repo[r].stash # {}
  /\ repo' = [repo EXCEPT ![r].files = @ \cup repo[r].stash, ![r].stash = {}]

DevSwitches(r) ==
  /\ repo[r].merging = "no"
  /\ \E b \in Branches \ {repo[r].on} :
       repo' = [repo EXCEPT ![r].on = b, ![r].local["none"] = IF b = "none" THEN repo[r].local[repo[r].on] ELSE {}]

MergeStops(r) ==
  /\ repo[r].merging = "no" /\ Marker \notin Held(repo[r])
  /\ repo' = [repo EXCEPT ![r].merging = "conflict", ![r].files = @ \cup {Marker}]

DevResolves(r) ==
  /\ repo[r].merging = "conflict"
  /\ repo' = [repo EXCEPT ![r].merging = "resolved", ![r].files = @ \ {Marker}]

ColleaguePushes(r) ==
  /\ repo[r].url /\ repo[r].remote["work"] # {}
  /\ \E i \in Items \ (Held(repo[r]) \cup {Marker}) : repo' = [repo EXCEPT ![r].remote["work"] = @ \cup {i}]

Others ==
  /\ moves < OtherSteps /\ moves' = moves + 1
  /\ \E r \in Repos :
       /\ \/ DevEdits(r) \/ DevCommits(r) \/ DevStashes(r) \/ DevPops(r) \/ DevSwitches(r)
          \/ MergeStops(r) \/ DevResolves(r) \/ ColleaguePushes(r)
       /\ seen' = [seen EXCEPT !.touched = @ \cup {r}]
  /\ UNCHANGED <<pc, req, todo, job, plan, bad, exit>>

-----------------------------------------------------------------------------
(* Scan and verdict: processStatusRepository and Assess.                   *)

At(place, r) == pc = place /\ r \in todo /\ UNCHANGED <<moves, pc, req, exit>>
In(r, place) == job[r].at = place

Dealt(r) == todo' = todo \ {r}

Scans == {"scan", "rescan"}

Blockers(j, s) ==
  {x \in {"detached", "conflict", "in-progress", "uncommitted", "unpushed", "stashed"} :
     CASE x = "detached"    -> j.branch = "none"
       [] x = "conflict"    -> s.merging = "conflict"
       [] x = "in-progress" -> s.merging # "no"
       [] x = "uncommitted" -> s.files # {}
       [] x = "unpushed"    -> j.ahead
       [] x = "stashed"     -> j.stash}

(* A branch with no upstream is one only in a clean repository.            *)
NoUpstream(j, s) == ~j.upstream /\ s.files = {} /\ s.merging = "no"

(* Mutant: a missing upstream is no blocker.                               *)
AssessTracked(r, s) == Blockers(job[r], s) \cup (IF s.url THEN {} ELSE {"no-remote"})

(* assessRepository.                                                       *)
Assess(r, s) ==
  Blockers(job[r], s)
    \cup (IF ~s.url THEN {"no-remote"} ELSE IF NoUpstream(job[r], s) THEN {"no-upstream"} ELSE {})

ReadBranch(r) ==
  /\ pc \in Scans /\ At(pc, r) /\ In(r, "branch")
  /\ \/ job' = [job EXCEPT ![r].at = "ahead", ![r].branch = repo[r].on] /\ UNCHANGED todo
     \/ job' = [job EXCEPT ![r].report = {"error"}] /\ Dealt(r)
  /\ UNCHANGED <<repo, plan, bad, seen>>

(* Upstream and count, each left out when git fails; r is then not known.  *)
ReadAhead(r) ==
  /\ pc \in Scans /\ At(pc, r) /\ In(r, "ahead")
  /\ \/ job' = [job EXCEPT ![r].at = "stash", ![r].upstream = HasUpstream(repo[r]), ![r].ahead = Ahead(repo[r])]
        /\ UNCHANGED seen
     \/ job' = [job EXCEPT ![r].at = "stash", ![r].upstream = HasUpstream(repo[r]), ![r].ahead = FALSE]
        /\ seen' = [seen EXCEPT !.blind = IF Ahead(repo[r]) THEN @ \cup {r} ELSE @]
     \/ job' = [job EXCEPT ![r].at = "stash", ![r].upstream = FALSE, ![r].ahead = FALSE] /\ UNCHANGED seen
  /\ UNCHANGED <<repo, todo, plan, bad>>

ReadStash(r) ==
  /\ pc \in Scans /\ At(pc, r) /\ In(r, "stash")
  /\ \/ job' = [job EXCEPT ![r].at = "tree", ![r].stash = repo[r].stash # {}] /\ UNCHANGED seen
     \/ job' = [job EXCEPT ![r].at = "tree", ![r].stash = FALSE]
        /\ seen' = [seen EXCEPT !.blind = IF repo[r].stash # {} THEN @ \cup {r} ELSE @]
  /\ UNCHANGED <<repo, todo, plan, bad>>

ReadTree(r) ==
  /\ pc \in Scans /\ At(pc, r) /\ In(r, "tree") /\ Dealt(r)
  /\ \E report \in {Assess(r, repo[r]), {"error"}} :
       job' = [job EXCEPT ![r] = [NoJob EXCEPT !.branch = job[r].branch, !.report = report]]
  /\ UNCHANGED <<repo, plan, bad, seen>>

Verdict == IF \A r \in Repos : job[r].report = {} THEN "ready" ELSE "outstanding"

-----------------------------------------------------------------------------
(* From one phase to the next.                                             *)

Fixed == UNCHANGED <<repo, moves, req>>
Goto(place, repos) == pc' = place /\ todo' = repos /\ UNCHANGED exit
Leave(code) == pc' = "done" /\ todo' = {} /\ exit' = code

Hard    == {"conflict", "in-progress", "detached", "no-remote", "error"}
Movable == {"uncommitted", "unpushed", "no-upstream"}

(* PlanCheckpoint.                                                         *)
Checkpoint == {r \in Repos : job[r].report \cap Hard = {} /\ job[r].report \cap Movable # {}}

(* applyPushPolicy.                                                        *)
Allowed(repos) == {r \in repos : job[r].branch \notin Protected}

StartBlockers == (Hard \cup {"no-upstream", "uncommitted"})

(* PlanStart.                                                              *)
Updatable == {r \in Repos : job[r].report \cap StartBlockers = {}}

ByVerdict == Leave(IF Verdict = "ready" THEN 0 ELSE 1)

(* What is judged from here on is judged anew.                             *)
Afresh == job' = [r \in Repos |-> NoJob] /\ seen' = [seen EXCEPT !.touched = {}, !.blind = {}]

CheckpointOrRescan(repos) ==
  IF repos # {} THEN Goto("analyze", repos) /\ UNCHANGED <<job, seen>>
                ELSE Goto("rescan", Repos) /\ Afresh

Scanned ==
  /\ pc = "scan" /\ todo = {} /\ Fixed /\ UNCHANGED bad
  /\ CASE req.cmd = "check" -> ByVerdict /\ UNCHANGED <<plan, job, seen>>
       [] req.cmd = "end" ->
            /\ plan' = Allowed(Checkpoint)
            /\ IF ~req.force THEN Goto("guard", plan') /\ UNCHANGED <<job, seen>>
               ELSE IF req.dry THEN ByVerdict /\ UNCHANGED <<job, seen>>
               ELSE CheckpointOrRescan(plan')
       [] OTHER ->
            /\ plan' = Updatable /\ UNCHANGED <<job, seen>>
            /\ IF req.dry THEN Leave(IF plan' = Repos THEN 0 ELSE 1) ELSE Goto("fetch", Repos)

(* Guard: git status, then a look at each file.                            *)
Guard(r) ==
  /\ At("guard", r) /\ Dealt(r)
  /\ \/ plan' = plan \ {r} /\ UNCHANGED seen
     \/ /\ plan' = (IF repo[r].files \cap Secrets = {} THEN plan ELSE plan \ {r})
        /\ seen' = [seen EXCEPT !.held[r] = @ \cup (repo[r].files \cap Secrets)]
  /\ UNCHANGED <<repo, job, bad>>

(* Mutant: what the guard held is reported, and checked in all the same.   *)
ScreenedAnyway == Checkpoint

(* What is left of the plan after screenCheckpoint.                        *)
Screened == plan

Guarded ==
  /\ pc = "guard" /\ todo = {} /\ Fixed /\ UNCHANGED <<plan, bad>>
  /\ IF req.dry THEN ByVerdict /\ UNCHANGED <<job, seen>> ELSE CheckpointOrRescan(Screened)

-----------------------------------------------------------------------------
(* BulkCommit: every repository is analysed before any is committed.       *)

(* analyzeRepositoryForCommit; without the diff a change of tracked files  *)
(* only reads as nothing to commit.                                        *)
Status(s, diffed) ==
  CASE s.files = {} /\ s.merging # "conflict" -> "clean"
    [] s.merging = "conflict" /\ ~req.allow -> "conflicted"
    [] ~diffed /\ s.files \subseteq Tracked /\ s.merging # "conflict" -> "clean"
    [] OTHER -> "dirty"

Analyze(r) ==
  /\ At("analyze", r) /\ Dealt(r)
  /\ \/ /\ \E diffed \in BOOLEAN : job' = [job EXCEPT ![r].status = Status(repo[r], diffed)]
        /\ bad' = (IF job'[r].status = "conflicted" THEN bad \cup {r} ELSE bad)
        /\ seen' = IF job'[r].status = "conflicted" THEN [seen EXCEPT !.held[r] = @ \cup {Marker}] ELSE seen
     \/ job' = [job EXCEPT ![r].status = "error"] /\ UNCHANGED <<bad, seen>>
  /\ UNCHANGED <<repo, plan>>

Dirty == {r \in Repos : job[r].status = "dirty"}

(* Neither --yes nor --edit asks for a preview; the second time, after the *)
(* editor, it is never one.                                                *)
Preview == req.cmd = "commit" /\ ~seen.edited /\ (req.dry \/ (~req.yes /\ ~req.edit))

(* errPartialFailure.                                                      *)
CommitExit(failed) == Leave(IF failed = {} THEN 0 ELSE 1)

(* The editor is opened for what the analysis called dirty.                *)
AfterCommit ==
  CASE req.cmd = "end" /\ req.push -> Goto("push", Screened) /\ job' = [r \in Repos |-> NoJob] /\ UNCHANGED seen
    [] req.cmd = "end" /\ ~req.push -> Goto("rescan", Repos) /\ Afresh
    [] req.cmd = "commit" /\ req.edit /\ ~seen.edited /\ \E r \in Repos : job[r].status \in {"dirty", "success", "failed"} ->
         Goto("editor", {}) /\ UNCHANGED <<job, seen>>
    [] OTHER -> CommitExit(bad) /\ UNCHANGED <<job, seen>>

Analyzed ==
  /\ pc = "analyze" /\ todo = {} /\ Fixed /\ UNCHANGED <<plan, bad>>
  /\ IF Preview THEN AfterCommit ELSE Goto("commit", Dirty) /\ UNCHANGED <<job, seen>>

(* git add -A, whose exit code is not looked at: then only what is staged  *)
(* is committed.  An unmerged file that add has not taken stops git.       *)
Commit(r) ==
  /\ At("commit", r) /\ Dealt(r)
  /\ \/ /\ \E staged \in SUBSET repo[r].files :
             /\ staged # {} \/ repo[r].merging = "resolved"
             /\ repo[r].merging = "conflict" => staged = repo[r].files
             /\ repo' = [repo EXCEPT ![r].local[repo[r].on] = @ \cup staged, ![r].files = @ \ staged,
                                     ![r].merging = "no"]
             /\ seen' = [seen EXCEPT !.swept[r] = @ \cup staged]
        /\ job' = [job EXCEPT ![r].status = "success"] /\ UNCHANGED bad
     \/ job' = [job EXCEPT ![r].status = "failed"] /\ bad' = bad \cup {r} /\ UNCHANGED <<repo, seen>>
  /\ UNCHANGED plan

Committed ==
  /\ pc = "commit" /\ todo = {} /\ Fixed /\ UNCHANGED <<plan, bad>> /\ AfterCommit

(* commitEditorResult: the template names what is still dirty.  An empty   *)
(* file cancels, and the command ends well.  What is held and committed is *)
(* counted from here on.                                                   *)
Editor ==
  /\ pc = "editor" /\ Fixed /\ UNCHANGED plan
  /\ \/ Leave(0) /\ UNCHANGED <<job, bad>>
     \/ Leave(1) /\ UNCHANGED <<job, bad>>
     \/ Goto("analyze", Repos) /\ job' = [r \in Repos |-> NoJob] /\ bad' = {}
  /\ seen' = [seen EXCEPT !.edited = TRUE, !.held = Unseen.held, !.swept = Unseen.swept]

-----------------------------------------------------------------------------
(* BulkPush with --set-upstream, as BulkPush models it in full.            *)

(* Mutant: the policy looks at the branch of the plan only.                *)
DeniedOnce(s) == FALSE

(* The policy, asked again about the branch checked out now.               *)
Denied(s) == s.on \in Protected

PushLook(r) ==
  /\ At("push", r) /\ In(r, "branch")
  /\ LET s == repo[r]
         refused == Denied(s) \/ s.merging # "no" \/ s.on = "none"
     IN  \/ Dealt(r) /\ UNCHANGED job
         \/ /\ ~refused /\ ~(HasUpstream(s) /\ ~Ahead(s))
            /\ job' = [job EXCEPT ![r].at = "send", ![r].branch = s.on, ![r].upstream = HasUpstream(s)]
            /\ UNCHANGED todo
  /\ UNCHANGED <<repo, plan, bad, seen>>

(* The push names the branch read before; it may arrive and its answer not.*)
PushSend(r) ==
  /\ At("push", r) /\ In(r, "send") /\ Dealt(r)
  /\ LET b == job[r].branch
         sent == [repo EXCEPT ![r].remote[b] = repo[r].local[b]]
     IN  \/ UNCHANGED repo
         \/ /\ repo[r].remote[b] \subseteq repo[r].local[b]
            /\ \/ repo' = sent
               \/ repo' = [sent EXCEPT ![r].tracking[b] = repo[r].local[b],
                                       ![r].upstream = @ \/ (b = "work" /\ ~job[r].upstream)]
  /\ UNCHANGED <<job, plan, bad, seen>>

Pushed == pc = "push" /\ todo = {} /\ Fixed /\ Goto("rescan", Repos) /\ Afresh /\ UNCHANGED <<plan, bad>>

Rescanned == pc = "rescan" /\ todo = {} /\ Fixed /\ ByVerdict /\ UNCHANGED <<job, plan, bad, seen>>

-----------------------------------------------------------------------------
(* handoff start: updateRepositories.                                      *)

Fetched(s) == [s EXCEPT !.tracking = s.remote]

(* Of the bulk fetch nothing is looked at.                                 *)
Fetch(r) ==
  /\ At("fetch", r) /\ Dealt(r)
  /\ repo' \in {repo, [repo EXCEPT ![r] = Fetched(repo[r])]}
  /\ UNCHANGED <<job, plan, bad, seen>>

FetchDone ==
  /\ pc = "fetch" /\ todo = {} /\ Fixed /\ Goto("pull", plan)
  /\ seen' = [seen EXCEPT !.touched = {}] /\ UNCHANGED <<job, plan, bad>>

(* Mutant: a refusal is put with what was skipped because it was current.  *)
RefusedQuietly(r) == bad' = bad

(* Any status but pulled, up to date and skipped is a failure.             *)
Refused(r) == bad' = bad \cup {r}

(* git pull --rebase, or a status that kept it from running.               *)
Pull(r) ==
  /\ At("pull", r) /\ Dealt(r)
  /\ LET s == repo[r]
         able == HasUpstream(s) /\ s.merging = "no" /\ s.files \cap Tracked = {} /\ s.remote[s.on] # {}
     IN  \/ Refused(r) /\ UNCHANGED <<repo, seen>>
         \/ /\ able /\ UNCHANGED bad
            /\ repo' = [repo EXCEPT ![r] = [Fetched(s) EXCEPT !.local[s.on] = @ \cup s.remote[s.on]]]
            /\ seen' = [seen EXCEPT !.pulled[r] = s.remote[s.on]]
  /\ UNCHANGED <<job, plan>>

PullDone ==
  /\ pc = "pull" /\ todo = {} /\ Fixed
  /\ Leave(IF plan = Repos /\ bad = {} THEN 0 ELSE 1) /\ UNCHANGED <<job, plan, bad, seen>>

Command ==
  \/ \E r \in Repos : \/ ReadBranch(r) \/ ReadAhead(r) \/ ReadStash(r) \/ ReadTree(r) \/ Guard(r)
                      \/ Analyze(r) \/ Commit(r) \/ PushLook(r) \/ PushSend(r) \/ Fetch(r) \/ Pull(r)
  \/ Scanned \/ Guarded \/ Analyzed \/ Committed \/ Editor \/ Pushed \/ Rescanned \/ FetchDone \/ PullDone

Next == Command \/ Others

Spec == Init /\ [][Next]_vars

-----------------------------------------------------------------------------
(* Properties.                                                             *)

(* When check or end exits with 0, every repository the developer left     *)
(* alone during the scan that decided it, and of which git told ahead and  *)
(* stash, has everything of the branch checked out on the remote, and      *)
(* nothing in its files or its stash ("every repository is now safe to     *)
(* leave").                                                                *)
ReadyMeansNothingOnlyHere ==
  pc = "done" /\ exit = 0 /\ req.cmd \in {"check", "end"} =>
    \A r \in Repos \ (seen.touched \cup seen.blind) :
      LET s == repo[r]
      IN  s.files = {} /\ s.stash = {} /\ s.merging = "no" /\ s.on # "none" /\ s.local[s.on] \subseteq s.remote[s.on]

(* What the guard found to be a credential, and the markers of a conflict  *)
(* the analysis found unresolved, no later step commits until the editor   *)
(* leads to a new analysis, whatever the developer does meanwhile.         *)
HeldItemsStay ==
  \A r \in Repos : seen.held[r] \cap seen.swept[r] = {}

(* No step of handoff end changes a protected branch of the remote, though *)
(* the developer may switch to it after the plan was made.                 *)
ProtectedRemoteStays ==
  [][req.cmd = "end" /\ moves' = moves =>
       \A r \in Repos, b \in Protected : repo'[r].remote[b] = repo[r].remote[b]]_vars

(* When start exits with 0, every repository has what its remote had when  *)
(* it was pulled, if the developer has left it alone since the fetch.      *)
ArrivedMeansAligned ==
  pc = "done" /\ exit = 0 /\ req.cmd = "start" /\ ~req.dry =>
    \A r \in Repos \ seen.touched :
      /\ seen.pulled[r] # {} /\ seen.pulled[r] \subseteq repo[r].local[repo[r].on]

=============================================================================
