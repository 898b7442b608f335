------------------------------- MODULE BulkOps -------------------------------
(***************************************************************************)
(* gz-git update, switch, stash, tag create and clean, one command after   *)
(* another over the working trees of one repository, with a developer at   *)
(* work in them meanwhile.  A command is BulkUpdate, BulkSwitch, BulkStash,*)
(* BulkTag or BulkClean: one handler per tree, all at the same time, whose *)
(* git commands are the steps here; each may fail or be killed.            *)
(*                                                                         *)
(* Commits are named by the branch they were made for and by whether they  *)
(* are on its upstream; a branch is the set of commits it holds.  Work not *)
(* committed is a set of pieces: changes of tracked files and new files.   *)
(***************************************************************************)
EXTENDS Integers, Sequences, SequencesExt

CONSTANTS
  Trees,        \* the working trees
  Linked,       \* those that are linked worktrees: .git is a file
  Branches, None,
  Target,       \* the branch asked of switch
  Home,         \* tree -> the branch it starts on
  Commands,     \* what may be called: operation and flags
  MaxCommands,  \* bound: commands in a row
  DevSteps      \* bound: actions of the developer

Operations == {"update", "switch", "save", "pop", "apply", "tag", "clean"}

ASSUME BulkOpsAssumption ==
  /\ Linked \subseteq Trees /\ Target \in Branches /\ Home \in [Trees -> Branches]
  /\ \A t, u \in Trees : t # u => Home[t] # Home[u]
  /\ Commands \subseteq [op : Operations, dryRun : BOOLEAN, force : BOOLEAN, create : BOOLEAN, untracked : BOOLEAN]
  /\ MaxCommands \in Nat /\ DevSteps \in Nat

VARIABLES
  local, tip,              \* the local branches and what each holds
  origin,                  \* those with an origin/<branch>
  tag,                     \* what the tag of tag create holds, or None
  stash,                   \* refs/stash, the newest entry last
  head, edits, op, merge,  \* per tree: its branch, work, rebase in progress, and its unmerged or resolved files
  cmd, main, exit,         \* the command, where its caller is, its exit code or -1
  calls, devSteps,
  pc, arm, result,         \* per tree: the handler's place, switch's choice, result.Status
  made, forgone,           \* observed: all work; what a clean that was agreed to or switch --force may take
  raced, early, halted     \* observed: two pops at once; rebases older than the command; trees it left half way

refs     == <<local, tip, tag>>
repo     == <<refs, stash, head, edits, op, merge>>
caller   == <<cmd, main, exit, calls>>
handler  == <<pc, arm, result>>
observed == <<made, forgone, raced, early, halted>>
vars == <<repo, origin, caller, devSteps, handler, observed>>

Mine(b) == <<b, "mine">>
Theirs(b) == <<b, "theirs">>
Commits == Branches \X {"mine", "theirs"}

NoCommand == [op |-> "none", dryRun |-> FALSE, force |-> FALSE, create |-> FALSE, untracked |-> FALSE]
AtAll(value) == [t \in Trees |-> value]
Homes == {Home[t] : t \in Trees}

Init ==
  /\ local \in {Homes, Homes \cup {Target}}
  /\ origin \in {Homes, Homes \cup {Target}}
  /\ tip = [b \in Branches |-> IF b \in local THEN {Mine(b)} ELSE {}]
  /\ tag = None /\ stash = <<>>
  /\ head = Home /\ edits = AtAll({}) /\ op = AtAll("none") /\ merge = AtAll("none")
  /\ cmd = NoCommand /\ main = "idle" /\ exit = -1 /\ calls = 0 /\ devSteps = 0
  /\ pc = AtAll("done") /\ arm = AtAll(None) /\ result = AtAll("none")
  /\ made = {} /\ forgone = {} /\ raced = FALSE /\ early = {} /\ halted = {}

-----------------------------------------------------------------------------
(* The developer.                                                          *)

Tracked(t) == {p \in edits[t] : p[2] = "tracked"}
Fresh(t)   == {p \in edits[t] : p[2] = "new"}

DevEdits(t) ==
  /\ \E kind \in {"tracked", "new"} :
       /\ <<t, kind>> \notin made
       /\ edits' = [edits EXCEPT ![t] = @ \cup {<<t, kind>>}] /\ made' = made \cup {<<t, kind>>}
  /\ UNCHANGED <<refs, op, merge>>

(* git rebase, stopped for an edit or at a conflict; it wants a clean tree.*)
DevRebases(t) ==
  /\ op[t] = "none" /\ merge[t] = "none" /\ Tracked(t) = {}
  /\ op' = [op EXCEPT ![t] = "rebase"]
  /\ \E files \in {"none", "unmerged"} : merge' = [merge EXCEPT ![t] = files]
  /\ UNCHANGED <<refs, edits, made>>

DevResolves(t) ==
  /\ merge[t] = "unmerged" /\ merge' = [merge EXCEPT ![t] = "resolved"]
  /\ UNCHANGED <<refs, edits, op, made>>

(* Another terminal creates the branch or the tag a command is about to.   *)
DevRefs ==
  /\ \/ /\ Target \notin local /\ local' = local \cup {Target}
        /\ tip' = [tip EXCEPT ![Target] = {Mine(Target)}] /\ UNCHANGED tag
     \/ tag = None /\ (\E t \in Trees : tag' = tip[head[t]]) /\ UNCHANGED <<local, tip>>
  /\ UNCHANGED <<edits, op, merge, made>>

Developer ==
  /\ devSteps < DevSteps /\ devSteps' = devSteps + 1
  /\ DevRefs \/ \E t \in Trees : DevEdits(t) \/ DevRebases(t) \/ DevResolves(t)
  /\ UNCHANGED <<origin, stash, head, caller, handler, forgone, raced, early, halted>>

-----------------------------------------------------------------------------
(* The caller: the command line, the pool and the exit code.               *)

Begin ==
  /\ main = "idle" /\ calls < MaxCommands /\ calls' = calls + 1
  /\ cmd' \in Commands /\ exit' = -1
  /\ pc' = AtAll("look") /\ result' = AtAll("none") /\ UNCHANGED arm
  /\ main' = IF cmd'.op = "clean" /\ ~cmd'.dryRun THEN "ask" ELSE "run"
  /\ early' = {t \in Trees : op[t] # "none"} /\ halted' = {}
  /\ UNCHANGED <<repo, origin, devSteps, made, forgone, raced>>

(* confirmBulkClean: a dry run, and a question when it found something.    *)
Ask ==
  /\ main = "ask"
  /\ \/ main' = "idle" /\ exit' \in {0, 1} /\ pc' = AtAll("done")
     \/ (\E t \in Trees : Fresh(t) # {}) /\ main' = "agreed" /\ UNCHANGED <<exit, pc>>
  /\ UNCHANGED <<repo, origin, cmd, calls, devSteps, arm, result, observed>>

(* errPartialFailure over the summary.                                     *)
ExitCode == IF \E t \in Trees : result[t] = "error" THEN 2 ELSE 0

Running == main \in {"run", "agreed"}

(* g.Wait, the summary and the exit code.                                  *)
Finish ==
  /\ Running /\ (\A t \in Trees : pc[t] = "done")
  /\ main' = "idle" /\ exit' = ExitCode
  /\ UNCHANGED <<repo, origin, cmd, calls, devSteps, handler, observed>>

-----------------------------------------------------------------------------
(* A tree's handler.                                                       *)

At(t, ops, place) ==
  /\ Running /\ cmd.op \in ops /\ pc[t] = place
  /\ UNCHANGED <<origin, caller, devSteps, made, early>>

Goto(t, place) == pc' = [pc EXCEPT ![t] = place] /\ UNCHANGED <<arm, result>>

Leave(t, status) ==
  /\ pc' = [pc EXCEPT ![t] = "done"] /\ result' = [result EXCEPT ![t] = status]
  /\ arm' = [arm EXCEPT ![t] = None]

Unless(t, dry, place) == IF cmd.dryRun THEN Leave(t, dry) ELSE Goto(t, place)

Halt(t) == halted' = halted \cup {t}

Reads   == UNCHANGED <<repo, forgone, raced, halted>>
IsClean(t) == edits[t] = {} /\ merge[t] = "none"

(* BehindBy, of the refs of the last fetch; a rebase detaches HEAD, until  *)
(* something is checked out and the rebase is left behind.                 *)
Behind(t) == op[t] # "rebase" /\ head[t] \in origin /\ Theirs(head[t]) \notin tip[head[t]]

(* processRepository up to the pull.                                       *)
UpdateLook(t) ==
  /\ At(t, {"update"}, "look") /\ Reads
  /\ \/ Leave(t, "error")
     \/ ~IsClean(t) /\ Leave(t, "skipped")
     \/ IsClean(t) /\ Leave(t, "up-to-date")          \* a rev-list that fails counts 0
     \/ IsClean(t) /\ Behind(t) /\ Unless(t, "would-update", "act")

CanRebase(t) == op[t] = "none" /\ merge[t] = "none" /\ Tracked(t) = {} /\ head[t] \in origin

(* Whatever went wrong, what git wrote decides between the two statuses.   *)
UpdateOr(t, conflict) ==
  /\ At(t, {"update"}, "act")
  /\ \/ (\E status \in {"auth-required", "error"} : Leave(t, status)) /\ UNCHANGED <<tip, op, merge, halted>>
     \/ /\ CanRebase(t) /\ tip' = [tip EXCEPT ![head[t]] = @ \cup {Theirs(head[t])}]
        /\ Leave(t, "pulled") /\ UNCHANGED <<op, merge, halted>>
     \/ /\ CanRebase(t) /\ op' = [op EXCEPT ![t] = "rebase"] /\ Halt(t)   \* a conflict, or killed: nothing ends the rebase
        /\ \E files \in {"none", "unmerged"} : merge' = [merge EXCEPT ![t] = files]
        /\ (\E status \in {"auth-required", conflict} : Leave(t, status)) /\ UNCHANGED tip
  /\ UNCHANGED <<local, tag, stash, head, edits, forgone, raced>>

(* Mutant: a conflict has a status of its own, as in bulk pull.            *)
UpdateConflict(t) == UpdateOr(t, "conflict")

(* git pull --rebase.                                                      *)
Update(t) == UpdateOr(t, "error")

(* processSwitchRepository: the branch and the status.                     *)
SwitchLook(t) ==
  /\ At(t, {"switch"}, "look") /\ Reads
  /\ LET there == head[t] = Target /\ op[t] # "rebase"
     IN  \/ Leave(t, "error")
         \/ there /\ Leave(t, "already-on-branch")
         \/ ~there /\ ~IsClean(t) /\ ~cmd.force /\ Leave(t, "dirty")
         \/ ~there /\ (IsClean(t) \/ cmd.force) /\ Goto(t, "state")

(* Where a linked worktree has its .git file, a stat below .git fails.     *)
RebaseSeen(t) == op[t] # "none" /\ t \notin Linked

SwitchStateIf(t, rebase) ==
  /\ At(t, {"switch"}, "state") /\ Reads
  /\ \/ Leave(t, "error")
     \/ rebase /\ Leave(t, "rebase-in-progress")
     \/ ~rebase /\ Goto(t, "probe")

(* Mutant: only unmerged files stop a switch.                              *)
SwitchStateConflicts(t) == SwitchStateIf(t, merge[t] = "unmerged")

(* checkRepositoryState.                                                   *)
SwitchState(t) == SwitchStateIf(t, RebaseSeen(t))

(* The two rev-parse: an error of git reads as "no such branch".           *)
SwitchProbe(t) ==
  /\ At(t, {"switch"}, "probe") /\ Reads
  /\ \E here \in {FALSE, (Target \in local)}, there \in {FALSE, (Target \in origin)} :
       IF ~here /\ ~there /\ ~cmd.create THEN Leave(t, "branch-not-found")
       ELSE IF cmd.dryRun THEN Leave(t, "would-switch")
       ELSE /\ pc' = [pc EXCEPT ![t] = "act"] /\ UNCHANGED result
            /\ arm' = [arm EXCEPT ![t] = IF here THEN "switch" ELSE IF cmd.create THEN "create" ELSE "track"]

HeadMoves(t) ==
  /\ head' = [head EXCEPT ![t] = Target]
  /\ op' = [op EXCEPT ![t] = IF @ = "rebase" THEN "left" ELSE @]

(* git checkout carries changes along or refuses, --force or not; it wants *)
(* a branch no other worktree is on.                                       *)
Checkout(t) == merge[t] # "unmerged" /\ (\A u \in Trees \ {t} : head[u] # Target) /\ HeadMoves(t)

NewBranch(commits) == local' = local \cup {Target} /\ tip' = [tip EXCEPT ![Target] = commits]

SwitchWhere(t, mayCreate) ==
  /\ At(t, {"switch"}, "act")
  /\ \/ Leave(t, "error") /\ UNCHANGED <<local, tip, head, op>>
     \/ /\ arm[t] \in {"switch", "track"} /\ Target \in local
        /\ Checkout(t) /\ Leave(t, "switched") /\ UNCHANGED <<local, tip>>
     \/ /\ arm[t] \in {"switch", "track"} /\ Target \notin local /\ Target \in origin
        /\ Checkout(t) /\ NewBranch({Theirs(Target)}) /\ Leave(t, "switched")
     \/ /\ arm[t] = "create" /\ mayCreate /\ HeadMoves(t)
        /\ NewBranch(tip[head[t]]) /\ Leave(t, "branch-created")
  /\ forgone' = IF cmd.force THEN forgone \cup edits[t] ELSE forgone
  /\ UNCHANGED <<tag, stash, edits, merge, raced, halted>>

(* Mutant: git checkout -B, which takes a branch that exists along.        *)
SwitchReset(t) == SwitchWhere(t, \A u \in Trees \ {t} : head[u] # Target)

(* git checkout, checkout -b, or checkout --track and then checkout.       *)
Switch(t) == SwitchWhere(t, Target \notin local)

-----------------------------------------------------------------------------
(* stash: the handlers count the entries first; an error reads as none.    *)

Counted == stash # <<>>

SaveLook(t) ==
  /\ At(t, {"save"}, "look") /\ Reads
  /\ \/ Leave(t, "error")
     \/ IsClean(t) /\ Leave(t, "no-changes")
     \/ ~IsClean(t) /\ Unless(t, "would-stash", "act")

Taken(t) == IF cmd.untracked THEN edits[t] ELSE Tracked(t)

(* git stash push.  It succeeds with nothing to take; killed half way it   *)
(* has stored the entry and not reset the tree.                            *)
Save(t) ==
  /\ At(t, {"save"}, "act")
  /\ \/ Leave(t, "error") /\ UNCHANGED <<stash, edits, merge, halted>>
     \/ /\ merge[t] # "unmerged" /\ Taken(t) # {} /\ stash' = Append(stash, Taken(t))
        /\ Leave(t, "error") /\ Halt(t) /\ UNCHANGED <<edits, merge>>
     \/ /\ merge[t] # "unmerged" /\ Leave(t, "stashed") /\ UNCHANGED halted
        /\ stash' = IF Taken(t) = {} /\ merge[t] = "none" THEN stash ELSE Append(stash, Taken(t))
        /\ edits' = [edits EXCEPT ![t] = @ \ Taken(t)] /\ merge' = [merge EXCEPT ![t] = "none"]
  /\ UNCHANGED <<refs, head, op, forgone, raced>>

PopLook(t) ==
  /\ At(t, {"pop", "apply"}, "look") /\ Reads
  /\ \/ Leave(t, "error")
     \/ Leave(t, "no-stash")
     \/ Counted /\ Unless(t, "would-pop", "act")

(* git stash apply refuses with unmerged files; at a conflict it applies   *)
(* and keeps the entry.                                                    *)
ApplyOr(t, refused) ==
  /\ At(t, {"pop", "apply"}, "act")
  /\ \/ refused /\ UNCHANGED <<edits, merge, raced, halted>>
     \/ /\ stash # <<>> /\ merge[t] # "unmerged"
        /\ edits' = [edits EXCEPT ![t] = @ \cup Last(stash)]
        /\ raced' = (raced \/ \E u \in Trees \ {t} : pc[u] = "drop")
        /\ \/ /\ UNCHANGED <<merge, halted>>
              /\ IF cmd.op = "pop" THEN Goto(t, "drop") ELSE Leave(t, "popped")
           \/ Leave(t, "error") /\ Halt(t) /\ merge' = [merge EXCEPT ![t] = "unmerged"]
  /\ UNCHANGED <<refs, stash, head, op, forgone>>

(* Mutant: git stash apply and then git stash drop, whatever apply said.   *)
ApplyAndDrop(t) == ApplyOr(t, IF cmd.op = "pop" THEN Goto(t, "drop") ELSE Leave(t, "error"))

(* git stash apply, and the first half of git stash pop.                   *)
Apply(t) == ApplyOr(t, Leave(t, "error"))

(* The second half of pop: stash@{0} by now.                               *)
Drop(t) ==
  /\ At(t, {"pop"}, "drop")
  /\ \/ Leave(t, "error") /\ UNCHANGED stash
     \/ stash # <<>> /\ stash' = Front(stash) /\ Leave(t, "popped")
  /\ UNCHANGED <<refs, head, edits, op, merge, forgone, raced, halted>>

-----------------------------------------------------------------------------
(* tag create and clean.                                                   *)

TagProbe(t) ==
  /\ At(t, {"tag"}, "look") /\ Reads
  /\ \/ Leave(t, "error")
     \/ \E exists \in {tag # None, FALSE} :
          IF exists /\ ~cmd.force THEN Leave(t, "tag-exists") ELSE Unless(t, "would-create", "act")

TagIf(t, allowed) ==
  /\ At(t, {"tag"}, "act")
  /\ \/ Leave(t, "error") /\ UNCHANGED tag
     \/ allowed /\ tag' = tip[head[t]] /\ Leave(t, "tag-created")
  /\ UNCHANGED <<local, tip, stash, head, edits, op, merge, forgone, raced, halted>>

(* git tag, with -f under --force.                                         *)
TagCreate(t) == TagIf(t, tag = None \/ cmd.force)

(* git clean -n or -f; killed it has removed some of the files.            *)
Clean(t) ==
  /\ At(t, {"clean"}, "look")
  /\ \E gone \in SUBSET Fresh(t), status \in {"error", "would-clean", "cleaned", "nothing-to-clean"} :
       /\ cmd.dryRun => gone = {} /\ status # "cleaned"
       /\ ~cmd.dryRun => status # "would-clean" /\ (status # "error" => gone = Fresh(t))
       /\ (status = "nothing-to-clean") = (Fresh(t) = {} /\ status # "error")
       /\ Leave(t, status) /\ edits' = [edits EXCEPT ![t] = @ \ gone]
       /\ forgone' = IF main = "agreed" THEN forgone \cup gone ELSE forgone
  /\ UNCHANGED <<refs, stash, head, op, merge, raced, halted>>

Handler(t) ==
  \/ UpdateLook(t) \/ Update(t)
  \/ SwitchLook(t) \/ SwitchState(t) \/ SwitchProbe(t) \/ Switch(t)
  \/ SaveLook(t) \/ Save(t) \/ PopLook(t) \/ Apply(t) \/ Drop(t)
  \/ TagProbe(t) \/ TagCreate(t) \/ Clean(t)

Done == main = "idle" /\ calls = MaxCommands /\ UNCHANGED vars

Next == Developer \/ Begin \/ Ask \/ Finish \/ (\E t \in Trees : Handler(t)) \/ Done

Spec == Init /\ [][Next]_vars

-----------------------------------------------------------------------------
(* Properties.                                                             *)

InStash(p) == \E k \in DOMAIN stash : p \in stash[k]

(* Whatever fails or is killed, no piece of work is lost by a switch, an   *)
(* update, or a stash saved, applied or popped: it is in a tree or in the  *)
(* stash.  Not so what a clean that was agreed to removes and what a       *)
(* switch --force finds, which it is documented to discard, nor once two   *)
(* pops of the repository were in git at the same time.                    *)
EditsSurvive ==
  ~raced => \A p \in made \ forgone : InStash(p) \/ \E t \in Trees : p \in edits[t]

(* No command drops a local branch or a commit from it, and without --force*)
(* none moves a tag, though a probe for either that fails reads as "not    *)
(* there" and another terminal may create it after the probe.              *)
RefsStay ==
  [][/\ \A b \in local : b \in local' /\ tip[b] \subseteq tip'[b]
     /\ tag # None /\ ~cmd.force => tag' = tag]_vars

(* A tree in the middle of a rebase when the command began stays in it     *)
(* (StatusRebaseInProgress), with --force too, but for a linked worktree,  *)
(* where the check looks in the wrong place.                               *)
RebaseStays == [][\A t \in early \ Linked : head'[t] = head[t]]_vars

(* Exit code 0 is never given after a tree was left half way: in a rebase, *)
(* in a conflict of a stash, or with the stash stored and not taken away,  *)
(* but for a pull that wrote something like a failed authentication.       *)
HalfWayIsReported == exit = 0 => \A t \in halted : cmd.op = "update" /\ result[t] = "auth-required"
=============================================================================
