# A formal model of gz-git

TLA+ modules of the parts of `gzh-cli-gitforge` (the `gz-git` command and its Go library) that carry its logic:
the sync engine with its worker pool, state file and terminal UI, the workspace sync that feeds it, the clone-or-update
of one repository, the bulk commands (pull, push, commit, update, switch, stash, tag, clean, branch cleanup),
`integrate run`, `handoff` and `watch`. TLC checks each module on small instances; TLAPS proves the properties that
matter most for every instance. `PROJECT.json` holds the runs, the mutants that show each property can fail, the
map from definitions to source lines, the hazards, the findings and the theorems. Paths below are relative to the
repository.

To check: `tlc -config MCSyncExecutor.cfg MCSyncExecutor.tla`, and likewise for the other `.cfg` files; to prove:
`tlapm SyncProofs.tla`, and likewise for the other `*Proofs.tla`.

## Inventory of the system

Two engines share one git layer. The ad-hoc engine scans a directory and runs one handler per repository found
(`pkg/repository`, `cmd/gz-git/cmd`). The declarative engine turns a configuration or a forge's listing into a plan
and executes it (`pkg/reposync`, `pkg/reposynccli`, `pkg/workspacecli`). Around them stand the workflows for one
task branch (`pkg/integrate`, `pkg/handoff`, `pkg/branch`), the watcher, and the forge clients. Everything runs in
one process; the state that outlives it is git's, a sync state file and configuration files.

| component | state it keeps | operations | interacts with | hard behaviour | what makes it correct |
| --- | --- | --- | --- | --- | --- |
| sync executor, `pkg/reposync/executor_git.go` | channels `jobs`, `results`, wait group, result list | `Execute`, `executeOne`, retry loop, SSH keys | planner hands over the plan; progress sink; state store; client | feeder, workers, collector and caller interleave; cancellation at any point; close of channels | each action settled once, none lost, sink told once, no send after close, returns |
| orchestrator, state store, `orchestrator.go`, `state_file.go` | the state file and its `.tmp` | load, plan, `filterCompleted`, execute, save | executor; the UI's context | crash between any two steps, resume over a chain of runs | file whole, never claims too much, resume leaves nothing out |
| sync terminal UI bridge, `pkg/workspacecli/sync_progress_tui.go` | counter of completions, program, quit flag | `OnComplete`, `Send`, `runSyncTUI` | executor's sink; Bubble Tea loop; orchestrator's goroutine | completion count against a filtered plan, ctrl+c against the end | closes when all is shown, exit code says the truth, ends |
| clone or update, `pkg/repository/update.go` | the clone: HEAD, refs, index lock, rebase or merge in progress | clone, fetch, pull, reset, rebase, lock removal, retry | developer in the same tree; remote | commands killed half way, retries on what a predecessor left | unpushed work survives, success means current |
| bulk pull, `bulk.go` 1545-1851 | working trees, `refs/stash` | stash, pull, abort, pop | pool of workers; developer; linked worktrees share the stash | five commands in a row, each may fail | no uncommitted work lost or misplaced |
| bulk push, `bulk.go` 2051-2425, `push_policy.go`, `foreign.go` | branch, remotes, tracking refs, upstream | policy, foreign-work check, pushes | colleagues, other machines, editors that fetch | check before push, several remotes, lost answers | nobody's work dropped without leave, success means pushed |
| integrate run, `pkg/integrate` | task and target branches, worktrees, exit code | check, gates, push, reclaim | developer, colleagues, host that deletes branches | minutes of gates between check and landing; six removals in order | only what was checked lands, nothing unlanded is removed |
| bulk update, switch, stash, tag, clean, `bulk*.go` | working trees, refs, `refs/stash` | look, then one or two git commands | pool; developer; linked worktrees share refs and stash | probes that fail read as "not there"; a rebase left behind by one command is found by the next | no work, branch or tag lost, exit 0 leaves no tree half way |
| branch cleanup, `pkg/branch/cleanup.go`, `bulk_cleanup*.go`, wizard | local and remote branches, a report | analyse, confirm, delete with a lease, look again | remote that moves; other worktrees | report older than the branches; two reads that belong together | no commit goes but where that was accepted |
| handoff and commit, `pkg/handoff`, `handoff_*.go`, `commit.go` | trees, stashes, remotes, a verdict | scan, guard, commit, push, scan again; fetch, pull | bulk status, commit, push; developer, colleagues | verdict from reads at different moments; files written after the guard | "ready" means nothing is only here; held items stay |
| configuration chain, `pkg/config/recursive.go` | calls in progress, set of files visited | load a file, its parents, its workspaces | workspace sync | cycles, depth, missing parents | every loaded file has the settings of its whole chain |
| workspace sync, `sync_command.go`, `planner_forge.go` | disk, plan, results, workspaces still to do | load, bootstrap, plan, ask, execute, recurse, push | configuration, forge listing, executor, developer | plan older than the disk; partial failure; workspaces naming each other | only orphans are deleted, a dry run keeps repositories, exit 0 means mirrored |
| watcher, `pkg/watch`, `watch.go` | channels, last states, debounce table | `Start`, poll, fsnotify, `Stop` | consumer of its channels | full channels, debounce, `Stop` against a blocked loop | a lasting change reaches the reader, `Stop` returns |
| diagnostics, `diagnostic_executor.go` | results | a pool like the executor's | cancellation | a cancelled check drops a row of the report | changes nothing; not modelled |
| bulk clone, diff, exec, status, branch list | none | the same pool round one read or one command | | | not modelled beyond `CloneUpdate` |
| forge clients, rate limiter, other configuration, doctor, history, TUI drawing, wizards, templates, tags, hooks | none, or one file | reads, single git commands | network, user | none between processes | out of scope, reasons in `PROJECT.json` |

`PROJECT.json` lists every package under "components", modelled or not, with the reason. The hazards list there is
what the properties below were chosen for.

## The modules

| module | stands for | its theorems | instance |
| --- | --- | --- | --- |
| `SyncRun` | what `Executor.Execute` promises, without goroutines: the abstract specification | | |
| `SyncExecutor` | `GitExecutor.Execute` and `executeOne` | `SyncProofs` | `MCSyncExecutor` |
| `SyncSession` | a user's series of sync invocations over one state file, with the UI | `SyncProofs` | `MCSyncSession` |
| `CloneUpdate` | `runCloneOrUpdate` and `client.CloneOrUpdate` in one repository | `CloneUpdateProofs` | `MCCloneUpdate` |
| `BulkPull` | `processPullRepository` over the trees of a repository | `PullAndCleanupProofs` | `MCBulkPull` |
| `BulkPush` | `processPushRepository`, repeated | `BulkPushProofs` | `MCBulkPush` |
| `IntegrateRun` | `Check`, `Run`, `reclaimAfter`, the exit codes | `IntegrateRunProofs` | `MCIntegrateRun` |
| `BulkOps` | bulk update, switch, stash, tag create, clean, one after another | `BulkOpsProofs` | `MCBulkOps` |
| `BranchCleanup` | `cleanup branch` (bulk and single), the wizard, worktree commands | `PullAndCleanupProofs` | `MCBranchCleanup` |
| `Handoff` | `handoff check`, `end`, `start`, and `commit` | `HandoffProofs` | `MCHandoff` |
| `ConfigLoad` | `LoadConfigRecursive` | `WorkspaceSyncProofs` | `MCWorkspaceSync` |
| `WorkspaceSync` | `workspace sync`, which extends `ConfigLoad` | `WorkspaceSyncProofs` | `MCWorkspaceSync` |
| `Watcher` | `pkg/watch` and `runWatch` | | `MCWatcher` |

They form layers. `WorkspaceSync` loads its configuration by `ConfigLoad` and has the execution of a plan as one step per
action; `Handoff` has the push and the pull as a step or two, where `BulkPush` and `BulkPull` have their commands. `SyncSession` uses a pool seen per target, where `SyncExecutor` has the channels, and
`SyncExecutor` has the call to git as one step, where `CloneUpdate` has its commands. The layers are separate models
and not composed by `INSTANCE`; the one refinement stated and proved is `SyncExecutor` implements `SyncRun`.

Conventions, the same in all modules. `pc` (or `stage`, `orch`, `phase`) is the place in the Go function. A git command is one
step: it works, it fails, or it is killed half way, and the context may be cancelled between two steps. A branch is
the set of its commits; a file's contents are a piece of work that is either there or not. What the code does with
an answer is the code's; which answer comes is chosen by `\E`. The developer, colleagues and the git host are
*external*: what they do is what git lets them do, not this repository's code. Variables marked *observed* record what
happened for the properties and no action of the code reads them. A definition headed "Mutant" is a plausible bug, used
only to show that a property notices it.

### SyncExecutor

One feeder goroutine, a set of workers, the collector, and the caller of `wg.Wait`. An unbuffered send and its receive
are one step (`Handoff`, `Deliver`); the collector's append is a step of its own (`Record`), so a worker can receive its
next job before its result is recorded. `feeder`, `fed` are the loop over `plan.Actions` with `close(jobs)`; `pc`, `job`,
`tries`, `verdict` are the locals of `executeOne`; `inHand`, `items` are the collector's loop variable and `state.Items`;
`main` is the caller (`wait`, `drain` after `close(results)`, `save`, `returned`). `keys` are temporary SSH keys on disk.

### SyncSession

`Invoke` is a command line; `Kill` ends the process and `Fresh` forgets its memory; only `file` and `tmp` survive.
`orch` walks through `Orchestrator.Run` (`load`, `plan`, `execute`, `save`, `write`, `rename`, `ended`), `stage` walks each
target through the pool and the bridge (`telling` is `program.Send`, `counting` is `done.Add`, `closing` is the last
message), `screen` is the Bubble Tea program. `owed` and `synced` are observed: what the sync owes and what was ever done.

### CloneUpdate

`dir` (absent, plain, partial, repo), HEAD as `tip`, `tracking` and `remote` as commit sets, the index lock, a rebase or merge
in progress. A partial directory is what a killed clone left: it has a `.git`, which is all that `checkTargetDirectory` and
`IsGitRepository` look for, so `Attempt`, `Status`, `Fetch`, `Pull` and `Open` take it for a repository. `Attempt` is the head of the retry
loop; `Remove`, `Clone`, `RemoveLock`, `Status`, `Fetch`, `Reset`, `Pull`, `Rebase`, `Abort`, `Open` are the commands; `Retry` and
`Accept` the two ways an attempt ends. The developer may commit while stopped in a rebase, their own or the command's: that commit is
`amid`, one on the branch is `mine`.

### BulkPull

A handler per working tree, in any order, because the pool is wider than the trees and the handlers share nothing but
git. Trees of one repository share `stash`; the scan appends a linked worktree before it asks whether a `.git` file is a
submodule's, so a pull over a directory reaches both. `git stash pop` is `Apply` then `Drop`, as in git. The developer edits at any moment,
also while the command's own rebase stands at a conflict; `amid` (observed) has the trees edited in the middle of a rebase.
`CheckState` is one read, where the code stats the rebase directories just before `git status`.
The context can be cancelled only by a caller of the library: the command itself uses `context.Background()`.

### BulkPush

One repository at a time. `Info` reads branch, upstream and the number of commits ahead and asks the policy;
`CheckForeign`, `CheckState`, then `Push` once per remote. `Accepts` is git's: a fast-forward, a lease against the
tracking ref, or a `+` refspec; a push may be taken and its answer lost.

### IntegrateRun

`pc` walks through `Check` (`resolve` to `make`), `Run` (`recheck` to `follow`) and `reclaimAfter` (`reclaim` to `parent`).
The verdicts of the make gates and of the search for nested repositories are choices. The developer commits, amends,
switches branches, pushes and fetches between any two steps; colleagues push to both branches; the host deletes
a merged branch.

### BulkOps

`Begin` is a command line: one handler per working tree, all at the same time, and a tree may be a linked worktree. `pc` is the
place in the handler (`look`, `state`, `probe`, `act`, and `drop` between the halves of a pop), `arm` the branch of `switch`'s
`switch`, `result` the status counted by `errPartialFailure` in `Finish`. Trees share `local`, `tip`, `tag` and `stash`, because git
does. `op` is a rebase in progress, or one left behind by a checkout; `RebaseSeen` is where the code looks for it. `made`, `forgone`,
`raced`, `early` and `halted` are observed. A pull that fails may be taken for a failed authentication whatever else it left, because `isAuthenticationError`
only reads what it wrote.

### BranchCleanup

`req.mode` is the way in. The bulk command analyses (`BulkOpen` to `ReadTip`) in a pass for the preview and again in the real one; the
single command and the wizard analyse into a report (`AnalyzeList` to `Classified`) and execute that. `plan` is the list of
entries with the tip each was judged by, `done` and `failed` what became of them. `DeleteRemote` is the push with a lease, `LookAgain` the
second look when it failed. `waived` is observed: commits whose loss was accepted, those
a fetched branch had and its remote no longer has at the start included. `judged` is observed too: the tip an entry's verdict was read from. Versions of bot branches are compared as in
`bot_version.go`.

### Handoff

`repo` is the state of each repository, `job` what the program read of it, each read a step of its own (`ReadBranch`, `ReadAhead`,
`ReadStash`, `ReadTree`). `check` ends in `Verdict`; `end` goes through `Guard`, `Screened`, `Analyze`, `Commit`, `PushLook`, `PushSend` to the second
scan; `start` through `Fetch` and `Pull`. `commit` shares the two phases of `BulkCommit` (`Analyze`, `Commit`) with `end`. `seen` is observed; what the analysis
held back counts until the editor leads to a new analysis. A repository is found in any state in which the remote has what its branches track.

### ConfigLoad and WorkspaceSync

`stack` are the calls of `LoadConfigRecursive` in progress, `ret` what the last one returned. Then `pc` walks through the phases of
`runSync`: `Bootstrap`, `PlanForge`, `PlanGit`, `PlanConfig`, `SelfSynced` (`executeSelfSync`, before preview and question), `Ready`, `Ask`, `Execute` per
action, then the children, `PushSynced`. An action has its place (`at`) and the way its path is spelled (`as`): a listed repository's is relative, a workspace's
is absolute, and `Deduplicated` compares spellings as `deduplicateActions` does, so a place that is both listed and a workspace's has two actions, executed in any
order. A child is a frame on the
stack `kids`: `RunChild` puts it there, `SyncListed` takes what it lists one by one in any order, `CollectChildren` looks for workspaces in what
succeeded, all at once as the code does, and `ChildrenDone` returns. `disk` holds
directories, repositories and configuration files; orphans are found in `PlanForge` and removed in `Execute`, and the developer may
create or remove directories in between. Paths are sequences of names, so a flat layout and a nested one differ.

### Watcher

`loop` is the goroutine of `eventLoop`, in its `select` or in one of the three git commands and the sends of a look; `main` is
`runWatch` and the deferred `Stop`. `events` and `errors` are the bounded channels, `known` the recorded states, `recent` the debounce table. An event
has what `Event` has and `runWatch` prints: the repository, the type and the files. `picture` (observed) is the work tree a reader has put together from these;
the branch is not in it, because no event says it. `ReadInfo` that fails records "no branch", as `GetInfo` returns "" without an error. A select with several
ready cases is a choice.

## What each run checks

Every property has a mutant of the code that breaks it under the same configuration.

| run | instance | what it shows |
| --- | --- | --- |
| `executor` | 2 workers, all plans of up to 2 actions of 3 kinds and one of 3, 2 attempts | accounting of every action through both channels, the sink's calls, `SyncRun` implemented, `Execute` returns |
| `session` | 2 targets, 2 workers, 2 invocations, disk that may fail | resume complete, the UI's count, exit code 0, every unfiltered invocation ends |
| `session_hang` | resumed runs under the UI | violation: the UI never closes |
| `update` | 2 attempts, 5 steps of a developer, all strategies | commits on the branch survive, success means current, every action settles |
| `pull` | a main and a linked worktree, all flags, 2 steps of the developer | uncommitted work kept and brought home, a rebase left alone |
| `push` | 2 remotes, 2 runs, 10 kinds of request, 3 steps of others | leases, foreign work fetched before the push, success on every remote |
| `integrate` | 3 steps of others, 2 further commits | work kept, only the checked commit lands, order and guards of the reclaim, exit 0 |
| `bulk` | a main and a linked worktree, 2 commands in a row out of 15, 2 steps of the developer | work, branches, tags and a rebase survive, exit 0 leaves no tree half way |
| `cleanup` | base, topic and bot branch, 4 situations, 8 command lines, 2 steps of others | commits, unfetched tips, branches in use or protected |
| `handoff` | 2 repositories, 5 situations, 13 command lines, 1 step of others | "ready", held items, arrivals, protected branches |
| `workspace` | 7 workspaces of all kinds, flat and nested with cleanup, 6 configuration files, 2 disks, 4 command lines, 1 step of a developer | settings resolved, only orphans deleted, dry run, exit 0, no workspace within itself |
| `watcher` | 2 repositories, channels of one place, 2 changes | changes reach the reader, `Stop` returns |

A type invariant is checked only where it says more than types (`WorkspaceSync`); those of other modules are proved, below.

### Why the bounds are enough

Bounds are named constants. Two workers and two actions are the smallest pool in which a result and a job are under
way at once; the plan of three keeps an action waiting for a busy pool. `Attempts = 2` is one retry, so that a second attempt
meets what the first one left; the loop treats every later attempt like the second. Two invocations are the shortest chain
in which a file written by one is read by another. Five steps of the developer are an edit and a commit on the branch, a rebase, and an
edit and a commit in it; three in `integrate` are enough for commit, push and fetch, which is what it takes to move a lease. `DevSteps = 2` in `pull`
is an edit before the command and one while its rebase stands at a conflict, or an edit in each tree; the second tree's worker is the other actor there. Two remotes are
what it takes for the checked and the pushed one to differ. Two commands in `bulk` are what it takes for one to find what another left;
two trees, of which one is linked, for two pops and two creations of the same branch to meet. In `cleanup` two steps of others
are a push and a fetch, or a commit and a checkout, between the analysis and the delete. In `handoff` one step of somebody falls into
every gap between two reads; the second repository is what makes a verdict partial. The disks of `workspace` hold a repository, an orphan,
a file's directory and a directory that is missing, and its workspaces contain each other in both layouts. Channels of one place are
full after one event. The theorems drop the bounds for what they state.

### Fairness

`SyncExecutor`: weak fairness of every goroutine's step; the Go scheduler runs a goroutine that can run, a git command is
ended by the command runner's timeout, and the retry's sleep is finite. Nobody has to cancel. `SyncSession`: weak fairness of
the process' steps together; neither ctrl+c, a kill nor another call is needed. `CloneUpdate`: weak fairness of the worker
alone. `Watcher`: weak fairness of the loop's step, of time and of the reader, and strong fairness of the loop's leaving when the context
is cancelled: Go's `select` picks at random among ready cases, so a case that is ready again and again is taken. No fairness of
changes or of the signal. The other modules state safety only and have no fairness.

### Where the code disagrees with itself

One run ends in a violation, listed with the line it contradicts under "findings": with `--resume` the terminal UI waits for
completions that cannot come. Modelling showed more, recorded here without a run of its own.

Sync, pull, push and integrate:

- A dry run saves its targets as done (`executor_git.go:123`, `from_forge_command.go:140`), so the next `--resume` skips them.
- A refused or conflicted update counts as succeeded: `executor_git.go:277` looks at the error only, and `update.go:89` has the rest.
- `integrate check` reads HEAD before the fetch (`check.go:102`) and the gates run on whatever is checked out, so a commit no gate ran on may land.
- `pull --stash --dry-run` stashes (`bulk.go:1682`) before it returns for the dry run (1699).
- The foreign-work check looks at one remote (`foreign.go:174`), a force push goes to all of them.

- A killed or interrupted sync saves nothing (`state_file.go:35` refuses a cancelled context), so `--resume` reads the file
  of an earlier sync and can leave out what the interrupted one still owed.
- `update.go:441` aborts after every failure of `git rebase`, so a rebase the developer was stopped in is ended by the sync, and the commits made
  in it leave every branch; its own failure is only logged while the result says "aborted". `LocalCommitsSurvive` keeps what was committed on the branch, and
  keeps what was committed amid a rebase under fetch and pull only.
- A killed clone's directory passes `checkTargetDirectory` (`update.go:485`), and `git fetch` works in it, so the retry with the fetch strategy reports success in a repository
  without files or branch; so does a pull with nothing new. `SuccessIsCurrent` asks for a complete repository after reset, rebase and clone only.
- Between the conflict of `pull --rebase` and the command's `git rebase --abort` (`bulk.go:1767`, `bulk.go:1949`) an edit of the developer's goes with the abort, though the
  message is "repository restored to previous state". `WorkSurvives` excepts exactly that (`Forfeit`).
- A `git stash pop` that fails after a pull that worked is a warning (`bulk.go:1837`): the result is still "pulled", and the work stays in the stash. `EditsComeHome` is
  about pops that worked.
- `update.go:586` removes `index.lock` as stale because it exists, also when a git process holds it.
- `bulk.go:1753` returns on an authentication error without popping the stash it made (`docs/usage/pull-command.md:106`
  promises the automatic restore).
- `git stash push` without `-u` succeeds without an entry when only new files changed; the pop then takes an older entry
  that has nothing to do with the pull. `EditsComeHome` excludes such trees by name.
- Two linked worktrees of one repository pulled with `--stash` at once can swap their changes, or drop them if git runs its
  pop between the other's two halves; the properties of `pull` hold as long as stashes do not overlap.
- `bulk.go:1777` says "repository restored to previous state" also for a merge, which is not aborted.
- `state.go:13` looks for `.git/rebase-merge` below a `.git` that is a file in a linked worktree, and finds nothing.
- After a push that reached the upstream and failed at another remote, a second run answers "Nothing to push"
  (`bulk.go:2208` counts against the upstream only).
- The foreign-work check fails open: a `git log` that cannot run is a warning (`bulk.go:2138`). It reads the tracking ref, so a
  fetch between check and push satisfies the lease for commits nobody looked at, and they are lost; `ForeignWorkSurvives` covers what had been fetched when
  the push was begun.
- `integrate run` exits 2 for a push that failed and for a branch that moved, where its help (`integrate_run.go:40`) says 1, "the
  integrate itself failed"; and 2, not 3, when the push landed and the local target could not follow.

Bulk update, switch, stash, tag, clean, commit:

- `gz-git commit --edit` commits every dirty repository with its generated message (`commit.go:95`, `commit.go:187`) before the editor is
  opened on a template that is empty by then; the flag says "edit messages in $EDITOR before committing" (`commit.go:71`).
- `switch --force` is said to discard uncommitted changes (`docs/usage/switch-command.md:51` to 66 and 126, and its help, `switch.go:38`) and runs a plain
  `git checkout` (`bulk_switch.go:329`), which carries them along or refuses. `EditsSurvive` takes neither side: what a `switch --force` finds
  is in `forgone`.
- `stash save` and `stash pop` over a repository and its linked worktrees exchange the trees' edits, and two pops at once can drop
  an entry neither applied; `EditsSurvive` is stated for pops that do not overlap. `stash save` on a tree with only new files reports "stashed" with nothing stashed.
- A rebase in a linked worktree is not seen (`state.go:13`), so `switch` leaves it; `RebaseStays` excludes linked worktrees.
- `update` never fetches (`NoFetch` is not read), so "up-to-date" is of the last fetch; no-upstream cannot be reported, because a branch without
  one is behind by 0 and that is asked first; a pull that stops in a conflict leaves its rebase in progress.
- A pull that stopped or was killed, and wrote something that matches the patterns of a failed authentication, is reported as `auth-required` (`bulk.go:1193`): exit
  code 0, and the rebase is left in the tree. `HalfWayIsReported` excepts it.
- The exit code counts `error` only: `auth-required`, `dirty`, `rebase-in-progress` and `branch-not-found` end with 0.
- `clean --force --watch` never asks (`clean.go:138`), and files created after the preview are removed as well.
- `tag create` over linked worktrees tags whichever handler came first.

Branch cleanup:

- The bulk command reads the ancestor check and the tip of the lease in two commands (`bulk_cleanup_candidates.go:221`); a fetch between them
  leases a tip nobody judged, and what came with it is lost (`CommitsSurvive` counts it as `waived`). Its confirmation covers a preview and the run analyses again; in a machine format an empty preview is not asked about at all.
- It exits with 0 though deletes failed. The wizard ignores gone and superseded. With `--base trunk`, trunk is not protected from stale or gone.
- A remote branch is judged merged against the local base.

Handoff:

- A `rev-list` or `stash list` that fails reads as 0, so the verdict can be "ready" (excluded by `blind`).
- A file written between the guard and the commit is committed unguarded; `HeldItemsStay` is about what the guard found.
- `executeCommit` ignores the exit code of `git add`.

Workspace sync and configuration:

- Workspaces of configurations start with a fresh visited set and depth, so a cycle through workspaces is not limited, though `recursive.go:17`
  says `MaxConfigDepth` prevents it. A missing parent of a workspace's file reads as a missing file and the file is left out.
- With the nested layout the orphan search compares base names (`planner_forge.go:340` against 373) and plans the deletion of group directories.
  With groups it removes the repositories in them, though `planner_forge.go:340` says that filters "must not make valid forge repositories look like local orphans";
  `OnlyOrphansGo` says of that layout only that what goes was no repository's place. An organisation of which all repositories are filtered gets no cleanup.
- `executeSelfSync` (`sync_command.go:234`) fetches or pulls the repository of the configuration before the preview and the question, so a "Sync canceled." comes after it.
  `DryRunKeepsRepositories` excepts that repository, and only when the developer says no.
- `deduplicateActions` "removes duplicate actions targeting the same path" (`sync_command.go:1247`) and compares spellings: relative for lists
  (`config_loader.go:117`), absolute for workspaces. Two spellings of one directory give two actions, run in parallel in it.
- The first action of a path wins, and the forge's come first: a git workspace inside a cleaned forge workspace that is none of the forge's repositories is deleted as an
  orphan instead of synced.
- A git workspace with `configLink` gets its directory and the link before the clone (`sync_command.go:789`), and the clone refuses a directory that is not a repository.
- A dry run runs hooks and writes child configurations and links, and then says that no changes were made; `DryRunKeepsRepositories` is about repositories.
- Failures of children and of the push after the sync are not in the exit code. `enabled: false` is not looked at. A workspace may be synced twice at one level.
- A `--strategy` override is not applied to flat repositories; relative paths of a list are resolved against the current directory (`config_loader.go:117`).

Watcher:

- `EventTypeCommit` is documented and never sent; conflicts are not compared, so a tree with nothing but a conflict is reported by other kinds or not at all (`Compared`).
- When git cannot tell the branch, `GetInfo` returns "" without an error (`client.go:282`), `watcher.go:278` records it, and the next look sends a branch event
  for a branch that did not change. A branch event does not say which branch.
- `findRepoForPath` matches a prefix and may look at another repository; the ticker catches up. Becoming clean is silent without `--include-clean`, the default; `Current` allows for it.
- A second `Stop` would close closed channels (`watcher.go:171`); `runWatch` calls it once.

## What is proved

Proofs are in the `*Proofs` modules, from the assumptions named in the modules (`ExecutorAssumption`, `SessionAssumption`,
`PushAssumption`, and the others), for any plan, pool, number of attempts, invocations, remotes, commits and steps of others.

- **`SyncProofs`**, the pool: `TypeCorrect`, `EachActionOnceHolds`, `NoSendOnClosedChannelHolds`, `UncancelledRunIsCompleteHolds`,
  `CancelStopsTheFeederHolds`, `RefinesSyncRun`, `SinkHearsEachActionOnceHolds`. `EachActionOnce` is not inductive: that a result is delivered only
  once needs to know which places of a worker hold a job, and that nothing is lost needs to know how the run shuts down (workers leave
  only after `jobs` is closed, `results` is closed only after all have left, `drain` ends only with an empty hand). `IInv` is the type
  invariant, the shutdown order and the accounting, each preserved by every action in a lemma of its own. The refinement maps an
  outcome to the recorded item: `Record` is a `Settle`, `CollectorDone`, `Save` and all worker steps stutter except the return,
  which needs completeness or a cancellation. For the sink (`SinkInv`) an action counts as announced from the moment its worker is past
  "start" and as completed from "deliver" on, in the collector's hand and in the record.
- **`SyncProofs`**, the session: `SessionTypeCorrect`, `AllDoneMeansAllShownHolds`, `FileIsWholeHolds`, `CleanExitMeansSyncedHolds`, and, for sessions without dry
  runs (`NoDryRuns`, an assumption the first divergence above shows to be needed), `FileNeverOverclaimsHolds` and `ResumeKeepsTheUnsyncedHolds`. The
  counter's invariant equates `counted` with the number of targets past the counting step, with the library's theorems on
  cardinalities; the file's invariant follows claims from `outcome` through `tmp` to `file` to `previous`. `CleanInv` says of a run that is
  neither resumed nor dry that no target is left out of its plan, that what is done is not owed, and, unless the user quits, that without an error
  the file ends as exactly what the targets came to.
- **`CloneUpdateProofs`**: `LocalCommitsSurviveHolds`, strengthened by where the commit is: on the branch outside a rebase,
  in `orig` during one, and by the strategies that never come to the steps which remove, reset or abort. `SuccessIsCurrentHolds`: `CurrentInv` follows what the remote
  had at the start of the attempt into the tracking ref by the fetch and into the branch, or the rebase in progress, by each strategy, whatever a killed
  clone left; and that a reset, a rebase and a clone which work end in a complete repository. `TypeHolds`.
- **`IntegrateRunProofs`**: `TaskWorkSurvivesHolds`, `LandedWasReadyHolds`, `TargetKeepsCommitsHolds`, `ReclaimsOnlyTheLandedHolds`.
  The invariant adds that from the landing on the planned commit is within the remote's target, that what the task's
  tracking ref holds is on the remote, and that the ready commit is the planned one up to the push. `ExitZeroMeansReclaimedHolds`: `GoneInv` says that past
  the deletion of the branch nothing of the task is left here, that a worktree that is gone holds no edits, and that past the deletion on the remote its task branch is
  not the commit that landed; somebody may have pushed another, which stays. `TypeHolds` says when an exit code is given.
- **`PullAndCleanupProofs`**, pull: `DevRebaseSurvivesHolds`, by where a worker can be while the developer's rebase is in progress; in a linked
  worktree, where the check is blind, by git's own refusal. `WorkSurvivesHolds` and `EditsComeHomeHolds`: as long as no two stashes overlap, at most one worker
  holds a stash, its entry is on top unless git made none, and what is on top when it drops is what it applied (`AloneInv`); a tree alone has only its own
  edits until a pop, and a rebase begins only where nothing is uncommitted, so its abort takes away what was edited in its midst and nothing else (`TreeInv`). `TypeHolds`.
- **`PullAndCleanupProofs`**, cleanup: all three properties of `cleanup`, for any command line; `--base` may name any branch, protected or not (`CleanupAssumption` has the
  base protected for the wizard alone, which takes no `--base` and finds main, master, develop or development, all protected). `InUseOrProtectedStaysHolds`: what is planned or being looked at, in every phase, is no
  protected branch (`PlanInv`), and git keeps what is checked out. `CommitsSurviveHolds` and `UnfetchedTipsStayHolds` rest on `TipInv`: a
  tracking ref has nothing its remote lacks but what was given up, the commits of a tip read for a lease are somewhere or given up, while the
  remote still has that tip the tracking ref has it as well, and the base keeps what an entry planned as merged was judged by. A colleague can
  never bring a branch back to such a tip, because what they push is new. The attempt showed that a verdict on a bot branch already planned as
  merged must not replace the tip it was judged by; TLC confirms it on the instance with a merged bot branch.
- **`BulkPushProofs`**: `UnfetchedWorkSurvivesHolds`, `ForeignWorkSurvivesHolds`, `SuccessMeansEverywhereHolds`. Strengthened by what the
  policy let through, by what the check read, and by which remotes of the loop are done. Foreign work fetched when the command began is owed until it comes
  to the branch: the invariant says that up to the check all of it is at stake, so that a check which lets the push pass leaves nothing owed. `TypeHolds`.
- **`BulkOpsProofs`**: all four properties of `bulk`, for any trees, worktrees, commands in a row and steps of the developer. `EditsSurvive` needs
  that while one tree is between the halves of its pop no other is and the entry on top is among its edits (`DropsItsOwn`), and that
  a clean without a dry run was agreed to; what a `switch --force` finds is left out by `forgone`. `RebaseStays` needs that a tree in a rebase never passes `checkRepositoryState`
  and that no command ends a rebase; `HalfWayIsReported`, that a handler which leaves its tree half way has ended with "error", or, after a pull, with "auth-required".
- **`HandoffProofs`**: all four properties of `handoff`. `ReadyMeansNothingOnlyHereHolds`: every read of the scan holds on in a repository nobody has touched
  (`ReadSoFar`), a verdict with nothing in it is right about what was read (`AssessSound`), and what a branch tracks is on the remote.
  `HeldItemsStayHolds`: a repository with something held is out of the plan before the analysis and not dirty after it; the attempt showed that an
  editor session which analyses again has to forget what the first analysis held. `ProtectedRemoteStaysHolds` is an action property: a push is begun only
  where the policy allows it, and it pushes the branch it was begun for. `ArrivedMeansAlignedHolds`.
- **`WorkspaceSyncProofs`**: `TypeHolds` for `TypeOK`, which says that the disk stays a tree, so it rests on lemmas about prefixes and about every operation on the disk, and
  that a plan has one action per path as it is spelled (`ForgePlan` names a place once, `Deduplicated` keeps it so); a place spelled in two ways has two. `DryRunHolds`, by which
  phases come before the execution and what a dry run never reaches: in a dry run no repository changes, and when the developer says no, none but the configuration's own. `NoWorkspaceWithinItselfHolds`, by the stack of children (`Nested`): every workspace in progress was visited, and is not
  among the directories a workspace in progress inside it has still to sync. `OnlyOrphansGoHolds`: whatever the plan deletes or clones was seen to be
  loose when it was planned, and only such an action takes a directory away. It has no hypothesis on layouts, and of a nested one with groups it says less: there a
  group directory is loose, because the code compares base names and takes it for an orphan, with the repositories in it (above).
  `LoadedMeansResolvedHolds`: the calls in progress are a chain of parents (`Chained`), each has met the files below it, and what the last one returned is the answer for
  its file (`Answers`); the length of a chain is bounded by the number of files, so no induction over data is needed, only the invariant.
  `SuccessMeansMirroredHolds` speaks of workspaces whose cleanup cannot reach a group (`Flat`) and has the hypothesis `PlacesApart`: nothing the configurations name is, or lies in, what the cleanup of a forge
  workspace would take for an orphan, and no wanted repository's place lies inside another's. The instance satisfies it but for the group of its nested workspace, which its
  cleanup does take, so that there the run shows more than the theorem; and it is needed: when a child
  configuration lists a path that the forge cleanup has just deleted, the child's sync clones it again and TLC finds the run that
  ends with 0 and an orphan. The invariant bounds every list on the disk (`ListsInv`), so that no later step makes an orphan, and follows the plan (`MirrorInv`):
  once a workspace is planned, every wanted repository and every orphan still there has an action (`Covered`), an action that succeeded left its
  repository in place (`InPlace`), and the command ends with 0 only when each action has succeeded (`Ended`).

Only model-checked: liveness (`ExecuteReturns`, `UnfilteredInvocationEnds`, `ActionSettles`, `ReaderCatchesUp`, `StopReturns`), which is out of the
prover's reach together with `ENABLED`. Every safety property of a passing run is stated by a theorem.

## What is not modelled, and why

Within the modelled parts: log lines, messages and formatting; the contents of files; submodules, tags, prune flags and sparse
clones; `StrategySkip`, `Force` and a chosen branch in `CloneOrUpdate`, which no planner of the sync sets; a push whose refspec
names two different branches; a repository without a remote in the push; the scan for repositories and its filters; the
integrate queue. The pool around push is left out because its handlers share no state; the pools around pull and `BulkOps`
are kept because their trees share refs and the stash. Of the bulk operations: `tag push`, `tag auto`, the lists, watch modes, ignored files and a
merge in progress. Of cleanup: the walk over repositories and the spelling of names. Of handoff: exit code 2, the
hint of `start` about shared branches, and commit messages. Of the workspace sync: hooks, authentication and profile
precedence, workspaces discovered on disk, the forge and git workspaces of a child, and what the preview prints. Of the watcher: sound
and formatting.

Components outside: forge clients, the files of the configuration and their validation, doctor, history, drawing and wizards read and print, or wrap one
command, and have no step whose order or failure another part depends on; the rate limiter is constructed but never waited on by
the program; the diagnosis is a report, whose pool loses a row when it is cancelled (`diagnostic_executor.go:49`) and changes nothing. Commands
and views are flags and text round what is modelled. These are most of the lines that the map does not name.

## Plan

Done: the sync executor with its abstract specification, the session, clone or update, integrate, pull, push, branch cleanup, handoff
with commit, the configuration chain, the workspace sync, the watcher, the other bulk operations, and the proofs above. What is left, most important first:

1. **Proofs**: type invariants of the watcher and of the cleanup's options.
2. **Composition**: `SyncSession`'s pool as an abstraction of `SyncExecutor`'s, `CloneUpdate` under `SyncExecutor`'s step `GitReturns`, and
   `BulkPush` under `Handoff`'s `PushSend`.
3. **Abstract specifications** of pull and push (a command that keeps all work and moves some refs), shown to be implemented.
4. **Diagnostics pool** against an abstract specification like `SyncRun`.
