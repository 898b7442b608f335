--------------------------- MODULE BranchCleanup ---------------------------
(***************************************************************************)
(* gz-git cleanup branch, cleanup wizard and the worktree commands, in one *)
(* repository.  Three ways lead to a delete: the bulk command looks twice  *)
(* (a preview to confirm, then the run itself), the single command and the *)
(* wizard analyse into a report and execute the report.  The developer and *)
(* colleagues work on the same branches meanwhile.                         *)
(*                                                                         *)
(* A branch is the set of its commits, {} where the ref does not exist.    *)
(* The repositories of a bulk run share nothing, so there is one of them.  *)
(***************************************************************************)
EXTENDS Integers, FiniteSets

CONSTANTS
  Names, Base, Protected, Bots,   \* branch names; the base (--base or detected); built-in or --protect patterns; bot prefixes
  Following,                      \* names whose local branch has an upstream configured
  Commits, None,
  Starts,                         \* repositories a run may find
  CleanupRequests,                \* command lines
  OtherSteps                      \* bound: actions of everybody else

Types == {"merged", "stale", "gone", "superseded"}
Modes == {"bulk", "single", "wizard"}

CleanupOptions == [mode : Modes, types : SUBSET Types, remote : BOOLEAN, bots : BOOLEAN, dry : BOOLEAN,
                   force : BOOLEAN, confirm : {"yes", "ask", "refuse"}]

(* The wizard passes neither gone nor superseded on, and has no dry run.   *)
WizardOptions == {o \in CleanupOptions : o.types \subseteq {"merged", "stale"} /\ ~o.dry /\ ~o.bots}

(* The wizard has no --base, and every base it detects is protected.       *)
ASSUME CleanupAssumption ==
  /\ Base \in Names /\ Protected \subseteq Names /\ Bots \subseteq Names /\ Following \subseteq Names
  /\ None \notin Names /\ OtherSteps \in Nat /\ CleanupRequests \subseteq CleanupOptions
  /\ \A r \in CleanupRequests : r.types # {} /\ (r.mode = "wizard" => r \in WizardOptions /\ Base \in Protected)
  /\ \A s \in Starts : /\ {s.head, s.tracking, s.remote} \subseteq [Names -> SUBSET Commits]
                        /\ s.old \subseteq Names /\ s.linked \in Names \cup {None}

VARIABLES
  head, tracking, remote,  \* local branches, remote-tracking refs, the remote's branches
  current, linked, linkedEdits,  \* branch checked out; branch of a linked worktree or None; that tree has changes
  old, target,             \* local branches without recent commits; what a bot branch was opened to deliver
  moves,                   \* actions of everybody else so far
  phase, req, pass,        \* the command: where it is, its options, "preview" or "real"
  seen, todo, checking,    \* answers of git kept in locals; names still to look at; the name being looked at
  plan, done, failed,      \* toDelete, and the account of it
  judged, waived           \* observed: the tips verdicts were read from; commits and edits given up

refs     == <<head, tracking, remote>>
trees    == <<current, linked, linkedEdits>>
command  == <<phase, req, pass, seen, todo, checking, plan, done, failed>>
account  == <<judged, waived>>
cleanupVars == <<refs, trees, old, target, moves, command, account>>

Fresh == [current |-> None, gone |-> {}, superseded |-> {}]

CleanupInit ==
  /\ \E s \in Starts : /\ head = s.head /\ tracking = s.tracking /\ remote = s.remote
                       /\ old = s.old /\ linked = s.linked /\ target = s.target
  /\ current = Base /\ linkedEdits = FALSE /\ moves = 0
  /\ phase = "begin" /\ req \in CleanupRequests /\ pass = (IF req.dry THEN "real" ELSE "preview")
  /\ seen = Fresh /\ todo = {} /\ checking = None
  /\ plan = {} /\ done = {} /\ failed = {}
  /\ judged = [b \in Names |-> {}] /\ waived = UNION {tracking[b] \ remote[b] : b \in Names}

-----------------------------------------------------------------------------
(* Version targets of bot branches.                                        *)

AtLeast(v, w) == v.major > w.major \/ (v.major = w.major /\ v.minor >= w.minor)

(* A pin that is a SHA, a branch or a floating tag has major 0; v4 is bare.*)
Comparable(v, w) == v.major > 0 /\ w.major > 0 /\ ((v.bare \/ w.bare) => v.major = w.major)

GoModuleSuperseded(t) == t.pins # {} /\ \A v \in t.pins : AtLeast(v, t.version)

(* Every pin of the action in the base's workflows has to be there.        *)
ActionsSuperseded(t) == t.pins # {} /\ \A v \in t.pins : Comparable(v, t.version) /\ AtLeast(v, t.version)

Landed(b) ==
  \/ target[b].kind = "go_modules" /\ GoModuleSuperseded(target[b])
  \/ target[b].kind = "github_actions" /\ ActionsSuperseded(target[b])

-----------------------------------------------------------------------------
(* The developer, with git and with gz-git branch and worktree; colleagues *)
(* and the host.                                                           *)

InUse(b) == b \in {current, linked}

Everywhere == UNION {head[b] \cup tracking[b] \cup remote[b] : b \in Names}

DevCommits ==
  /\ \E b \in {current, linked} \ {None, Base}, c \in Commits \ (Everywhere \cup waived) :
       head' = [head EXCEPT ![b] = @ \cup {c}] /\ old' = old \ {b}
  /\ UNCHANGED <<tracking, remote, trees, waived>>

DevPushes ==
  /\ \E b \in Following : /\ remote[b] \subseteq head[b] /\ remote[b] # head[b]
                        /\ remote' = [remote EXCEPT ![b] = head[b]]
                        /\ tracking' = [tracking EXCEPT ![b] = head[b]]
  /\ UNCHANGED <<head, trees, old, waived>>

DevFetches ==
  /\ tracking' = [b \in Names |-> IF remote[b] # {} THEN remote[b] ELSE tracking[b]]
  /\ UNCHANGED <<head, remote, trees, old, waived>>

DevSwitches ==
  /\ \E b \in Names : ~InUse(b) /\ head[b] # {} /\ current' = b
  /\ UNCHANGED <<refs, linked, linkedEdits, old, waived>>

(* Manager.Create: an existing branch is refused without --force.          *)
Create ==
  /\ \E b \in Names : /\ head[b] = {} /\ head' = [head EXCEPT ![b] = head[current]]
                      /\ old' = IF current \in old THEN old \cup {b} ELSE old \ {b}
  /\ UNCHANGED <<tracking, remote, trees, waived>>

(* WorktreeManager.Add: a branch in use is refused.                        *)
WorktreeAdd ==
  /\ linked = None /\ \E b \in Names : ~InUse(b) /\ head[b] # {} /\ linked' = b
  /\ UNCHANGED <<refs, current, linkedEdits, old, waived>>

DevEditsLinked ==
  /\ linked # None /\ ~linkedEdits /\ linkedEdits' = TRUE
  /\ UNCHANGED <<refs, current, linked, old, waived>>

(* WorktreeManager.Remove: without --force a tree with changes stays.      *)
WorktreeRemove(force) ==
  /\ linked # None /\ (linkedEdits => force)
  /\ linked' = None /\ linkedEdits' = FALSE
  /\ waived' = IF linkedEdits /\ force THEN waived \cup {"edits"} ELSE waived
  /\ UNCHANGED <<refs, current, old>>

ColleaguePushes ==
  /\ \E b \in Names \ {Base}, c \in Commits \ (Everywhere \cup waived) :
       remote[b] # {} /\ remote' = [remote EXCEPT ![b] = @ \cup {c}]
  /\ UNCHANGED <<head, tracking, trees, old, waived>>

(* The host deletes a branch when its pull request is closed.              *)
HostDeletes ==
  /\ \E b \in Names \ {Base} : remote[b] # {} /\ remote' = [remote EXCEPT ![b] = {}]
                               /\ waived' = waived \cup remote[b]
  /\ UNCHANGED <<head, tracking, trees, old>>

Others ==
  /\ moves < OtherSteps /\ moves' = moves + 1
  /\ \/ DevCommits \/ DevPushes \/ DevFetches \/ DevSwitches \/ DevEditsLinked
     \/ Create \/ WorktreeAdd \/ WorktreeRemove(FALSE) \/ WorktreeRemove(TRUE)
     \/ ColleaguePushes \/ HostDeletes
  /\ UNCHANGED <<target, command, judged>>

-----------------------------------------------------------------------------
(* Reading.                                                                *)

InPhase(place) == phase = place /\ UNCHANGED <<trees, old, target, moves, req>>
Reads == UNCHANGED <<refs, done, failed, waived>>

Merged(tip) == tip # {} /\ tip \subseteq head[Base]
IsProtected(b) == b \in Protected
(* Mutant: only the current branch is kept from the lists.                 *)
ScreenedByCurrent(b) == b # seen.current /\ (req.bots => b \in Bots)

Screened(b) == b # seen.current /\ ~IsProtected(b) /\ (req.bots => b \in Bots)

Entries == [name : Names, where : {"local", "remote"}, reason : Types \cup {"none"}, sha : SUBSET Commits]

Entry(b, where, reason, sha) == [name |-> b, where |-> where, reason |-> reason, sha |-> sha]
Planned(b, where) == \E e \in plan : e.name = b /\ e.where = where

(* A list that git would not give counts as empty.                         *)
AddLocal(list, reason) ==
  \E answer \in {{}, list} :
    plan' = plan \cup {Entry(b, "local", reason, {}) : b \in {b \in answer : Screened(b) /\ ~Planned(b, "local")}}

BulkOpen ==
  /\ InPhase("begin") /\ req.mode = "bulk" /\ Reads
  /\ \/ phase' = "merged" /\ seen' \in {[Fresh EXCEPT !.current = c] : c \in {current, None}}
     \/ phase' = "error" /\ UNCHANGED seen
  /\ UNCHANGED <<pass, todo, checking, plan, judged>>

(* git branch --merged lists the branch of a linked worktree under another *)
(* name, which no later command finds.                                     *)
BulkMerged ==
  /\ InPhase("merged") /\ Reads /\ phase' = "stale"
  /\ IF "merged" \in req.types
       THEN AddLocal({b \in Names \ {Base, linked} : Merged(head[b])}, "merged") ELSE UNCHANGED plan
  /\ UNCHANGED <<pass, seen, todo, checking, judged>>

BulkStale ==
  /\ InPhase("stale") /\ Reads /\ phase' = "prune"
  /\ IF "stale" \in req.types THEN AddLocal({b \in old : head[b] # {}}, "stale") ELSE UNCHANGED plan
  /\ UNCHANGED <<pass, seen, todo, checking, judged>>

(* git fetch --prune, whose failure is not looked at.                      *)
Prune ==
  /\ InPhase("prune")
  /\ tracking' \in IF "gone" \in req.types THEN {remote, tracking} ELSE {tracking}
  /\ phase' = (IF req.mode = "bulk" THEN "gone" ELSE "analyze gone")
  /\ UNCHANGED <<head, remote, done, failed, pass, seen, todo, checking, plan, account>>

Gone == {b \in Following : head[b] # {} /\ tracking[b] = {}}

BulkGone ==
  /\ InPhase("gone") /\ Reads
  /\ IF "gone" \in req.types THEN AddLocal(Gone, "gone") ELSE UNCHANGED plan
  /\ phase' = (IF req.remote THEN "remote merged" ELSE "decide")
  /\ todo' = IF "merged" \in req.types THEN {b \in Names : tracking[b] # {}} ELSE {}
  /\ UNCHANGED <<pass, seen, checking, judged>>

(* merge-base --is-ancestor of one tracking ref: appendRemoteMerged.       *)
JudgeMerged ==
  /\ InPhase("remote merged") /\ checking = None /\ todo # {} /\ Reads
  /\ \E b \in todo :
       /\ todo' = todo \ {b}
       /\ IF Screened(b) /\ Merged(tracking[b])
            THEN checking' = b /\ judged' = [judged EXCEPT ![b] = tracking[b]]
            ELSE UNCHANGED <<checking, judged>>
  /\ UNCHANGED <<phase, pass, seen, plan>>

Superseded(b) == /\ b \in Bots /\ ~IsProtected(b) /\ tracking[b] # {}
                 /\ ~Merged(tracking[b]) /\ Landed(b)

(* BotRemoteBranches, for the bulk command and for Analyze.                *)
JudgeSuperseded ==
  /\ \/ InPhase("remote merged") /\ checking = None /\ todo = {} /\ phase' = "remote superseded"
     \/ InPhase("analyze superseded") /\ phase' = "classify"
  /\ Reads
  /\ LET wanted == "superseded" \in req.types
         names  == IF wanted THEN {b \in Names : Superseded(b)} ELSE {}
     IN  /\ todo' = IF req.mode # "bulk" THEN todo ELSE {b \in names : Screened(b)}
         /\ seen' = [seen EXCEPT !.superseded = names]
         /\ judged' = [b \in Names |-> IF b \in names /\ ~Planned(b, "remote") THEN tracking[b] ELSE judged[b]]
  /\ UNCHANGED <<pass, checking, plan>>

PickSuperseded ==
  /\ InPhase("remote superseded") /\ checking = None /\ Reads
  /\ \/ \E b \in todo : todo' = todo \ {b} /\ UNCHANGED phase
                        /\ checking' = IF Planned(b, "remote") THEN None ELSE b
     \/ todo = {} /\ phase' = "decide" /\ UNCHANGED <<todo, checking>>
  /\ UNCHANGED <<pass, seen, plan, judged>>

(* rev-parse of the tracking ref, for the lease: remoteDeleteCandidate.    *)
ReadTip ==
  /\ phase \in {"remote merged", "remote superseded"} /\ InPhase(phase) /\ checking # None /\ Reads
  /\ plan' = IF tracking[checking] = {} THEN plan
             ELSE plan \cup {Entry(checking, "remote", IF phase = "remote merged" THEN "merged" ELSE "superseded",
                                   tracking[checking])}
  /\ checking' = None
  /\ UNCHANGED <<phase, pass, seen, todo, judged>>

(* Manager.List, without what normalizeCleanupBranch leaves out.           *)
Listed == {<<b, "local">> : b \in {b \in Names : head[b] # {} /\ ~InUse(b)}}
          \cup {<<b, "remote">> : b \in {b \in Names : req.remote /\ tracking[b] # {}}}

(* Analyze: List, then findGoneBranches, then BotRemoteBranches.           *)
AnalyzeList ==
  /\ InPhase("begin") /\ req.mode # "bulk" /\ Reads
  /\ \/ /\ phase' = "prune"
        /\ todo' = Listed
     \/ phase' = "error" /\ UNCHANGED todo
  /\ UNCHANGED <<pass, seen, checking, plan, judged>>

AnalyzeGone ==
  /\ InPhase("analyze gone") /\ Reads
  /\ \/ phase' = "analyze superseded" /\ seen' = [seen EXCEPT !.gone = IF "gone" \in req.types THEN Gone ELSE {}]
     \/ phase' = "error" /\ "gone" \in req.types /\ UNCHANGED seen
  /\ UNCHANGED <<pass, todo, checking, plan, judged>>

(* classifyCleanupBranch of a local branch.                                *)
ClassifyLocal ==
  /\ InPhase("classify") /\ checking = None /\ Reads
  /\ \E b \in Names :
       /\ <<b, "local">> \in todo /\ todo' = todo \ {<<b, "local">>}
       /\ LET reasons == {r \in req.types : \/ r = "merged" /\ b # linked /\ Merged(head[b])
                                            \/ r = "stale" /\ b \in old /\ head[b] # {}
                                            \/ r = "gone" /\ b \in seen.gone}
              reason  == CASE "merged" \in reasons -> "merged" [] "stale" \in reasons -> "stale" [] OTHER -> "gone"
          IN  plan' = IF Screened(b) /\ reasons # {} THEN plan \cup {Entry(b, "local", reason, {})} ELSE plan
  /\ UNCHANGED <<phase, pass, seen, checking, judged>>

(* captureRemoteBranchSHA comes before any verdict.                        *)
CaptureTip ==
  /\ InPhase("classify") /\ checking = None /\ Reads
  /\ \E b \in Names :
       /\ <<b, "remote">> \in todo /\ todo' = todo \ {<<b, "remote">>}
       /\ IF Screened(b) THEN checking' = Entry(b, "remote", "none", tracking[b]) ELSE UNCHANGED checking
  /\ UNCHANGED <<phase, pass, seen, plan, judged>>

ClassifyRemote ==
  /\ InPhase("classify") /\ checking # None /\ Reads
  /\ LET b == checking.name
         merged == "merged" \in req.types /\ Merged(tracking[b])
     IN  /\ plan' = CASE merged -> plan \cup {[checking EXCEPT !.reason = "merged"]}
                      [] ~merged /\ b \in seen.superseded -> plan \cup {[checking EXCEPT !.reason = "superseded"]}
                      [] OTHER -> plan
         /\ judged' = IF merged THEN [judged EXCEPT ![b] = tracking[b]] ELSE judged
  /\ checking' = None
  /\ UNCHANGED <<phase, pass, seen, todo>>

Classified ==
  /\ InPhase("classify") /\ checking = None /\ todo = {} /\ Reads
  /\ phase' = "decide"
  /\ UNCHANGED <<pass, seen, todo, checking, plan, judged>>

-----------------------------------------------------------------------------
(* Deciding and deleting.                                                  *)

(* The bulk command asks on its preview, and then looks again from the     *)
(* start; a machine format asks nothing when there is nothing to delete.   *)
ConfirmBulk ==
  \/ req.confirm \in {"yes", "ask"} /\ phase' = "begin" /\ pass' = "real" /\ plan' = {}
  \/ req.confirm = "ask" /\ phase' = "end" /\ UNCHANGED <<pass, plan>>
  \/ req.confirm = "refuse" /\ phase' = "error" /\ UNCHANGED <<pass, plan>>

(* The wizard offers names; a name stands for all its entries, the remote  *)
(* one only where it was found first.                                      *)
Choose ==
  /\ \E chosen \in SUBSET {e.name : e \in plan} :
       plan' = {e \in plan : /\ e.name \in chosen
                             /\ e.where = "remote" => ~ \E l \in plan : /\ l.name = e.name /\ l.where = "local"
                                                                        /\ l.reason = e.reason}
  /\ phase' = "delete" /\ UNCHANGED pass

Decide ==
  /\ InPhase("decide") /\ Reads
  /\ LET idle    == req.dry \/ plan = {}
         preview == req.mode = "bulk" /\ pass = "preview"
     IN  \/ idle /\ phase' = "end" /\ UNCHANGED <<pass, plan>>
         \/ plan = {} /\ preview /\ phase' = "begin" /\ pass' = "real" /\ UNCHANGED plan
         \/ ~idle /\ preview /\ ConfirmBulk
         \/ ~idle /\ req.mode = "wizard" /\ Choose
         \/ ~idle /\ ~preview /\ req.mode # "wizard" /\ phase' = "delete" /\ UNCHANGED <<pass, plan>>
  /\ UNCHANGED <<seen, todo, checking, judged>>

Open == plan \ (done \cup failed)
Settle(e, ok) == /\ done' = IF ok THEN done \cup {e} ELSE done
                 /\ failed' = IF ok THEN failed ELSE failed \cup {e}

Forced(e) == CASE req.mode = "bulk" -> e.reason \in {"stale", "gone"}
               [] req.mode = "single" -> TRUE
               [] OTHER -> req.force

(* Mutant: a branch merged anywhere is deleted as if it were merged here.  *)
SafeAnywhere(b) == TRUE

(* git branch -d: merged into the upstream's tracking ref, or into HEAD.   *)
Safe(b) == head[b] \subseteq (IF b \in Following /\ tracking[b] # {} THEN tracking[b] ELSE head[current])

(* git branch -d or -D; git itself keeps what is checked out.              *)
DeleteLocal ==
  /\ InPhase("delete") /\ checking = None
  /\ \E e \in Open :
       /\ e.where = "local"
       /\ \/ /\ head[e.name] # {} /\ ~InUse(e.name) /\ (Forced(e) \/ Safe(e.name))
             /\ head' = [head EXCEPT ![e.name] = {}] /\ Settle(e, TRUE)
             /\ waived' = IF Forced(e) THEN waived \cup head[e.name] ELSE waived
          \/ Settle(e, FALSE) /\ UNCHANGED <<head, waived>>
  /\ UNCHANGED <<tracking, remote, phase, pass, seen, todo, checking, plan, judged>>

(* Mutant: push --delete, without the lease.                               *)
LeaseForgotten(e) == remote[e.name] # {}

(* The remote answers a leased delete.                                     *)
LeaseHolds(e) == remote[e.name] # {} /\ remote[e.name] = e.sha

(* The push of :refs/heads/name; without an answer there is a second look. *)
DeleteRemote ==
  /\ InPhase("delete") /\ checking = None
  /\ \E e \in Open :
       /\ e.where = "remote"
       /\ \/ /\ LeaseHolds(e) /\ e.sha # {}
             /\ remote' = [remote EXCEPT ![e.name] = {}] /\ tracking' = [tracking EXCEPT ![e.name] = {}]
             /\ waived' = waived \cup CASE e.reason = "superseded" -> e.sha
                                             [] e.reason = "merged" /\ req.mode = "bulk" -> e.sha \ judged[e.name]
                                             [] OTHER -> {}
             /\ \/ Settle(e, TRUE) /\ UNCHANGED checking
                \/ checking' = e /\ UNCHANGED <<done, failed>>
          \/ /\ IF e.sha = {} THEN Settle(e, FALSE) /\ UNCHANGED checking
                              ELSE checking' = e /\ UNCHANGED <<done, failed>>
             /\ UNCHANGED <<remote, tracking, waived>>
  /\ UNCHANGED <<head, phase, pass, seen, todo, plan, judged>>

(* git ls-remote --heads.                                                  *)
LookAgain ==
  /\ InPhase("delete") /\ checking # None
  /\ \/ Settle(checking, remote[checking.name] = {})
     \/ Settle(checking, FALSE)
  /\ checking' = None
  /\ UNCHANGED <<refs, phase, pass, seen, todo, plan, account>>

Finish ==
  /\ InPhase("delete") /\ checking = None /\ Open = {} /\ phase' = "end"
  /\ UNCHANGED <<refs, pass, seen, todo, checking, plan, done, failed, account>>

Cleanup ==
  \/ BulkOpen \/ BulkMerged \/ BulkStale \/ Prune \/ BulkGone
  \/ JudgeMerged \/ JudgeSuperseded \/ PickSuperseded \/ ReadTip
  \/ AnalyzeList \/ AnalyzeGone \/ ClassifyLocal \/ CaptureTip \/ ClassifyRemote \/ Classified
  \/ Decide \/ DeleteLocal \/ DeleteRemote \/ LookAgain \/ Finish

CleanupNext == Cleanup \/ Others

CleanupSpec == CleanupInit /\ [][CleanupNext]_cleanupVars

-----------------------------------------------------------------------------
(* A step of the command or of anyone else takes a commit out of every ref *)
(* only where that was accepted: a branch deleted with -D, a bot branch    *)
(* whose version has landed, a tip the bulk command read only after its    *)
(* verdict, and what the host or the developer threw away.                 *)
CommitsSurvive == [][Everywhere \ Everywhere' \subseteq waived']_cleanupVars

(* A branch the command takes off the remote has no commit this clone has  *)
(* never fetched, whatever colleagues pushed since the analysis.           *)
UnfetchedTipsStay ==
  [][\A b \in Names : phase = "delete" /\ phase' = phase /\ moves' = moves /\ remote[b] # remote'[b]
                        => remote[b] \subseteq UNION {head[n] \cup tracking[n] : n \in Names} ]_cleanupVars

(* What is checked out, in the main tree or in a linked one, and what the  *)
(* patterns protect stays, whatever was switched after the branches were   *)
(* listed and whichever list named it.                                     *)
InUseOrProtectedStays ==
  [][\A b \in Names : /\ head[b] # {} /\ head'[b] = {} => b \notin {current, linked} \cup Protected
                      /\ moves' = moves /\ remote[b] # {} /\ remote'[b] = {} => b \notin Protected]_cleanupVars
=============================================================================
