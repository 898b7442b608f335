------------------------------ MODULE BulkPull ------------------------------
(***************************************************************************)
(* gz-git pull [--stash] over the working trees of one repository:         *)
(* processPullRepository for each tree, in a pool of workers, with a       *)
(* developer at work meanwhile.  The scan finds linked worktrees as it     *)
(* finds repositories; those of one repository share one stash.  A         *)
(* repository without linked worktrees is the case of a single tree.       *)
(*                                                                         *)
(* Uncommitted work is a set of pieces: what was edited in a tree is named *)
(* by the tree, what was in the stash before by Older.  git stash pop is   *)
(* two steps, as in git: apply the entry stash@{0}, then drop the entry    *)
(* that is stash@{0} by then.                                              *)
(***************************************************************************)
EXTENDS Naturals, Sequences, SequencesExt

CONSTANTS
  Trees,      \* the working trees
  Linked,     \* those that are linked worktrees: .git is a file
  Older,      \* what an earlier stash entry holds
  Requests,   \* flags: merge strategy, --stash, --dry-run
  DevSteps    \* bound: actions of the developer

ASSUME PullAssumption ==
  /\ Linked \subseteq Trees /\ Older \notin Trees /\ DevSteps \in Nat
  /\ Requests \subseteq [strategy : {"merge", "rebase", "ff-only"}, stash : BOOLEAN, dryRun : BOOLEAN]

VARIABLES
  stash,                             \* refs/stash, the newest entry last
  edits, untracked, op, conflict,    \* per tree: uncommitted work, all of it in new files, operation in progress, unmerged files
  request, cancelled, devSteps,
  pc, dirty, stashed, result,        \* per tree: the worker's place, status.IsClean, result.Stashed and .Status
  made, amid,                        \* observed: all work; what was edited in the middle of a rebase
  popped, early, overlapped          \* observed: pops that worked; rebases begun before the check; stashes that met

shared   == <<untracked, request, made, amid>>
repo     == <<stash, edits, op, conflict>>
worker   == <<pc, dirty, stashed, result>>
observed == <<popped, early, overlapped>>
vars == <<shared, repo, cancelled, devSteps, worker, observed>>

(* What git stash push takes along, called without -u.                     *)
Tracked(t) == IF t \in untracked THEN edits[t] \ {t} ELSE edits[t]

AtAll(value) == [t \in Trees |-> value]

Init ==
  /\ stash \in {<<>>, <<{Older}>>}
  /\ edits \in [Trees -> SUBSET Trees] /\ \A t \in Trees : edits[t] \subseteq {t}
  /\ untracked \in SUBSET Trees
  /\ op = AtAll("none") /\ conflict = AtAll(FALSE)
  /\ request \in Requests /\ cancelled = FALSE /\ devSteps = 0
  /\ pc = AtAll("status") /\ dirty = AtAll(FALSE) /\ stashed = AtAll(FALSE) /\ result = AtAll("none")
  /\ made = (UNION {edits[t] : t \in Trees}) \cup (IF stash = <<>> THEN {} ELSE {Older})
  /\ amid = {} /\ popped = {} /\ early = {} /\ overlapped = FALSE

-----------------------------------------------------------------------------
(* The developer, and the caller.                                          *)

(* At any time: while the tree stands at a conflict of the pull's own      *)
(* rebase, too.                                                            *)
DevEdits(t) ==
  /\ t \notin made
  /\ edits' = [edits EXCEPT ![t] = @ \cup {t}] /\ made' = made \cup {t}
  /\ amid' = IF op[t] \in {"rebase", "dev"} THEN amid \cup {t} ELSE amid
  /\ UNCHANGED <<stash, untracked, request, op, conflict, early>>

(* git rebase, stopped for an edit or at a conflict; it wants a clean tree.*)
DevRebases(t) ==
  /\ op[t] = "none" /\ ~conflict[t] /\ Tracked(t) = {}
  /\ op' = [op EXCEPT ![t] = "dev"]
  /\ \E stopped \in BOOLEAN : conflict' = [conflict EXCEPT ![t] = stopped]
  /\ early' = IF pc[t] \in {"status", "state"} THEN early \cup {t} ELSE early
  /\ UNCHANGED <<shared, stash, edits>>

Developer ==
  /\ devSteps < DevSteps /\ devSteps' = devSteps + 1
  /\ \E t \in Trees : DevEdits(t) \/ DevRebases(t)
  /\ UNCHANGED <<cancelled, worker, popped, overlapped>>

(* A caller of BulkPull cancels its context: no git command starts any     *)
(* more.  gz-git pull itself runs without one that can be cancelled.       *)
Cancel ==
  /\ ~cancelled /\ cancelled' = TRUE
  /\ UNCHANGED <<shared, repo, devSteps, worker, observed>>

-----------------------------------------------------------------------------
(* The worker of a tree.                                                   *)

At(t, place) == pc[t] = place /\ UNCHANGED <<shared, cancelled, devSteps, early>>

Goto(t, place) == pc' = [pc EXCEPT ![t] = place] /\ UNCHANGED result

Leave(t, status) ==
  /\ pc' = [pc EXCEPT ![t] = "done"] /\ result' = [result EXCEPT ![t] = status]

(* Open, GetInfo and GetStatus.                                            *)
Inspect(t) ==
  /\ At(t, "status")
  /\ \/ \E status \in {"error", "no-remote", "no-upstream"} : Leave(t, status) /\ UNCHANGED dirty
     \/ ~cancelled /\ Goto(t, "state") /\ dirty' = [dirty EXCEPT ![t] = edits[t] # {} \/ conflict[t]]
  /\ UNCHANGED <<repo, stashed, popped, overlapped>>

(* Where a linked worktree has its .git file, a stat below .git fails.     *)
RebaseSeen(t) == op[t] \in {"rebase", "dev"} /\ t \notin Linked

(* --dry-run ends here, whatever was stashed.                              *)
Proceed(t) == IF request.dryRun THEN Leave(t, "would-pull") ELSE Goto(t, "pull")

(* The check before the pull, on the conflicts and the rebase it reports.  *)
CheckStateOf(t, conflicts, rebase) ==
  /\ At(t, "state")
  /\ \/ Leave(t, "error")
     \/ ~cancelled /\ conflicts /\ Leave(t, "conflict")
     \/ ~cancelled /\ ~conflicts /\ rebase /\ Leave(t, "rebase-in-progress")
     \/ /\ ~cancelled /\ ~conflicts /\ ~rebase
        /\ IF dirty[t] /\ request.stash THEN Goto(t, "stash") ELSE Proceed(t)
  /\ UNCHANGED <<repo, dirty, stashed, popped, overlapped>>

(* Mutant: a failed git status reads as a clean repository.                *)
CheckStateBlind(t) == CheckStateOf(t, FALSE, FALSE)

(* checkRepositoryState before the pull.  The rebase directories are read  *)
(* just before git status: what begins between the two is begun after the  *)
(* check, or a conflict.                                                   *)
CheckState(t) == CheckStateOf(t, conflict[t], RebaseSeen(t))

Store(t) == stash' = Append(stash, Tracked(t))

(* Another tree has stashed and not popped.                                *)
Meets(t) == \E u \in Trees \ {t} : stashed[u] /\ pc[u] # "done"

(* git stash push.  It succeeds without an entry when only new files are   *)
(* there; killed half way it has stored the entry and not reset the tree.  *)
StashOr(t, Failed) ==
  /\ At(t, "stash")
  /\ \/ Failed /\ UNCHANGED <<stash, edits, overlapped>>
     \/ /\ ~cancelled /\ ~conflict[t] /\ Tracked(t) # {} /\ Store(t)
        /\ Failed /\ UNCHANGED edits /\ overlapped' = (overlapped \/ Meets(t))
     \/ /\ ~cancelled /\ ~conflict[t] /\ overlapped' = (overlapped \/ Meets(t))
        /\ IF Tracked(t) = {} THEN UNCHANGED <<stash, edits>>
           ELSE Store(t) /\ edits' = [edits EXCEPT ![t] = @ \ Tracked(t)]
        /\ stashed' = [stashed EXCEPT ![t] = TRUE] /\ Proceed(t)
  /\ UNCHANGED <<op, conflict, dirty, popped>>

(* Mutant: only the error of Run is looked at, not git's exit code.        *)
StashUnchecked(t) == StashOr(t, stashed' = [stashed EXCEPT ![t] = TRUE] /\ Proceed(t))

Stash(t) == StashOr(t, Leave(t, "error") /\ UNCHANGED stashed)

(* After the pull the stash is popped if one was made.                     *)
PopNext(t) == IF stashed[t] THEN "pop" ELSE "done"

(* git pull: refuses in the middle of another operation, and to rebase a   *)
(* tree with changes.                                                      *)
CanPull(t) == op[t] = "none" /\ ~conflict[t] /\ (request.strategy = "rebase" => Tracked(t) = {})

Pull(t) ==
  /\ At(t, "pull")
  /\ \/ ~cancelled /\ Leave(t, "auth-required") /\ UNCHANGED <<op, conflict>>
     \/ Goto(t, "failed") /\ UNCHANGED <<op, conflict>>
     \/ /\ ~cancelled /\ CanPull(t)
        /\ pc' = [pc EXCEPT ![t] = PopNext(t)]
        /\ \E status \in {"pulled", "up-to-date"} : result' = [result EXCEPT ![t] = status]
        /\ UNCHANGED <<op, conflict>>
     \/ /\ ~cancelled /\ CanPull(t) /\ request.strategy \in {"merge", "rebase"}   \* stopped at a conflict, or killed
        /\ op' = [op EXCEPT ![t] = request.strategy]
        /\ \E stopped \in BOOLEAN : conflict' = [conflict EXCEPT ![t] = stopped]
        /\ Goto(t, "failed")
  /\ UNCHANGED <<stash, edits, dirty, stashed, popped, overlapped>>

(* The failure of a pull.                                                  *)
FailAs(t, status) ==
  /\ result' = [result EXCEPT ![t] = status] /\ pc' = [pc EXCEPT ![t] = PopNext(t)]

(* checkRepositoryState after a failed pull.                               *)
CheckFailure(t) ==
  /\ At(t, "failed")
  /\ \/ FailAs(t, "error")
     \/ /\ ~cancelled /\ conflict[t]
        /\ IF request.strategy = "rebase" /\ RebaseSeen(t) THEN Goto(t, "abort") ELSE FailAs(t, "conflict")
  /\ UNCHANGED <<repo, dirty, stashed, popped, overlapped>>

(* git rebase --abort; its own failure is only logged.  What is edited in  *)
(* tracked files by then goes with it.                                     *)
Abort(t) ==
  /\ At(t, "abort") /\ FailAs(t, "conflict")
  /\ \/ UNCHANGED <<edits, op, conflict>>
     \/ /\ ~cancelled /\ op' = [op EXCEPT ![t] = "none"] /\ conflict' = [conflict EXCEPT ![t] = FALSE]
        /\ edits' = [edits EXCEPT ![t] = @ \ Tracked(t)]
  /\ UNCHANGED <<stash, dirty, stashed, popped, overlapped>>

(* git stash pop, first half.  It refuses with unmerged files; at a        *)
(* conflict it applies and keeps the entry.                                *)
ApplyElse(t, place) ==
  /\ At(t, "pop")
  /\ \/ Goto(t, place) /\ UNCHANGED <<edits, conflict>>
     \/ /\ ~cancelled /\ stash # <<>> /\ ~conflict[t]
        /\ edits' = [edits EXCEPT ![t] = @ \cup Last(stash)]
        /\ \/ Goto(t, "drop") /\ UNCHANGED conflict
           \/ Goto(t, "done") /\ conflict' = [conflict EXCEPT ![t] = TRUE]
  /\ UNCHANGED <<stash, op, dirty, stashed, popped, overlapped>>

(* Mutant: git stash apply, then git stash drop in any case.               *)
ApplyAndDrop(t) == ApplyElse(t, "drop")

Apply(t) == ApplyElse(t, "done")

(* Second half.                                                            *)
Drop(t) ==
  /\ At(t, "drop") /\ Goto(t, "done")
  /\ \/ UNCHANGED <<stash, popped>>
     \/ ~cancelled /\ stash # <<>> /\ stash' = Front(stash) /\ popped' = popped \cup {t}
  /\ UNCHANGED <<edits, op, conflict, dirty, stashed, overlapped>>

Worker(t) ==
  Inspect(t) \/ CheckState(t) \/ Stash(t) \/ Pull(t) \/ CheckFailure(t) \/ Abort(t) \/ Apply(t) \/ Drop(t)

Done == (\A t \in Trees : pc[t] = "done") /\ UNCHANGED vars

Next == Developer \/ Cancel \/ (\E t \in Trees : Worker(t)) \/ Done

Spec == Init /\ [][Next]_vars

-----------------------------------------------------------------------------
(* Properties.                                                             *)

Places   == {"status", "state", "stash", "pull", "failed", "abort", "pop", "drop", "done"}
Statuses == {"none", "error", "no-remote", "no-upstream", "conflict", "rebase-in-progress", "would-pull", "auth-required", "pulled", "up-to-date"}
Pieces   == Trees \cup {Older}

(* The types of the trees' and the workers' state.  A worker past its pull *)
(* has a result.                                                           *)
TypeOK ==
  /\ stash \in Seq(SUBSET Pieces) /\ edits \in [Trees -> SUBSET Pieces]
  /\ op \in [Trees -> {"none", "merge", "rebase", "dev"}] /\ conflict \in [Trees -> BOOLEAN]
  /\ untracked \subseteq Trees /\ request \in Requests /\ cancelled \in BOOLEAN /\ devSteps \in 0..DevSteps
  /\ pc \in [Trees -> Places] /\ dirty \in [Trees -> BOOLEAN] /\ stashed \in [Trees -> BOOLEAN]
  /\ result \in [Trees -> Statuses] /\ \A t \in Trees : pc[t] \in {"pop", "drop", "done"} => result[t] # "none"
  /\ made \subseteq Pieces /\ amid \subseteq Trees /\ popped \subseteq Trees /\ early \subseteq Trees /\ overlapped \in BOOLEAN

InStash(work) == \E k \in DOMAIN stash : work \in stash[k]

(* git rebase --abort has its way with what is edited in the middle of a   *)
(* rebase; the command reports the tree as a conflict then.                *)
Forfeit(work) == work \in amid /\ result[work] = "conflict"

(* As long as no two trees of the repository have work in the stash at the *)
(* same time, no uncommitted work is lost, whatever fails or is cancelled: *)
(* it is in a tree or in the stash.  Only what was edited in the middle of *)
(* a rebase goes with the rebase the command aborts.                       *)
WorkSurvives ==
  ~overlapped => \A work \in made : InStash(work) \/ Forfeit(work) \/ \E t \in Trees : work \in edits[t]

(* Then, too, a pop that worked put the tree's own work back and none of   *)
(* another's ("pop stash if we stashed earlier"), unless the stash was of  *)
(* new files only, which git stash push leaves where they are.             *)
EditsComeHome ==
  ~overlapped => \A t \in popped \ untracked : edits[t] = {t}

(* A rebase the developer was in the middle of when the state was checked  *)
(* is left alone (StatusRebaseInProgress).                                 *)
DevRebaseSurvives == \A t \in early : op[t] = "dev"
=============================================================================
