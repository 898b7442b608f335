------------------------------ MODULE BulkPush ------------------------------
(***************************************************************************)
(* gz-git push of one repository (processPushRepository), run again and    *)
(* again: the push policy, the check for another writer's work, the pushes *)
(* to one or several remotes.  The developer commits, rewrites, merges and *)
(* fetches meanwhile, and colleagues and other machines push.              *)
(*                                                                         *)
(* A branch is the set of its commits, {} where the ref does not exist; a  *)
(* push fast-forwards when the remote's branch is a subset of ours.  A     *)
(* refspec is taken to name the current branch on both sides.              *)
(***************************************************************************)
EXTENDS Naturals, Sequences, FiniteSets, Functions

CONSTANTS
  Remotes, Origin,         \* the remotes, one of them called origin
  Root,                    \* the commit every branch starts from
  Mine, Foreign, Unsigned, \* commits of the developer, of another machine that signs, of people who do not
  Requests,                \* flags and policy of a push
  MaxRuns, OtherSteps      \* bounds: pushes; actions of everybody else

Commits == {Root} \cup Mine \cup Foreign \cup Unsigned

ASSUME PushAssumption ==
  /\ Origin \in Remotes /\ "none" \notin Remotes
  /\ MaxRuns \in Nat /\ OtherSteps \in Nat
  /\ Requests \subseteq
       [force : BOOLEAN, refspec : {"none", "plain", "plus"}, targets : Seq(Remotes) \ {<<>>}, setUpstream : BOOLEAN,
        dryRun : BOOLEAN, protected : BOOLEAN, mode : {"lease-only", "allow", "deny"}, foreign : {"block", "allow"}]

VARIABLES
  local, upstream,      \* the branch and the remote it tracks
  remote, tracking,     \* per remote: its branch and our remote-tracking ref
  runs, steps,          \* pushes begun; actions of everybody else
  pc, request, info,    \* the handler, its options, what GetInfo said
  todo, failed, news,   \* remotes still to push to, pushErrors # {}, whether the count of commits is positive
  result,
  blind, basis, owed, discarded   \* observed: git log failed; commits the run began with; see StillOwed; what pushes dropped

refs     == <<local, upstream, remote, tracking>>
handler  == <<request, info, todo, failed, news>>
observed == <<blind, basis, owed, discarded>>
vars == <<refs, runs, steps, pc, handler, result, observed>>

Init ==
  /\ local = {Root} /\ remote \in [Remotes -> {{}, {Root}}] /\ tracking = remote
  /\ upstream \in {"none"} \cup {r \in Remotes : remote[r] # {}}
  /\ runs = 0 /\ steps = 0 /\ pc = "done" /\ request \in Requests
  /\ info = [ahead |-> FALSE, upstream |-> "none"]
  /\ todo = <<>> /\ failed = FALSE /\ news = FALSE /\ result = "none"
  /\ blind = FALSE /\ basis = {} /\ owed = [r \in Remotes |-> {}] /\ discarded = {}

-----------------------------------------------------------------------------
(* The developer, colleagues, other machines.                              *)

Everywhere == local \cup UNION (Range(remote) \cup Range(tracking))

(* Per remote, the work of other machines that has been fetched from it    *)
(* and not been on the branch ever since the run began.                    *)
StillOwed == [r \in Remotes |-> (owed[r] \cap tracking'[r]) \ local']

DevCommits ==
  /\ \E c \in Mine \ Everywhere : local' = local \cup {c}
  /\ UNCHANGED <<remote, tracking, basis>>

(* git reset or rebase drops commits from the branch.                      *)
DevRewrites ==
  /\ \E kept \in SUBSET local : Root \in kept /\ kept # local /\ local' = kept
  /\ basis' = basis \cap local'
  /\ UNCHANGED <<remote, tracking>>

DevMerges ==
  /\ \E r \in Remotes : ~ tracking[r] \subseteq local /\ local' = local \cup tracking[r]
  /\ UNCHANGED <<remote, tracking, basis>>

(* git fetch, by hand, by an editor or by gz-git fetch.                    *)
Fetch ==
  /\ \E r \in Remotes : tracking[r] # remote[r] /\ tracking' = [tracking EXCEPT ![r] = remote[r]]
  /\ UNCHANGED <<local, remote, basis>>

OthersPush ==
  /\ \E r \in Remotes, c \in (Foreign \cup Unsigned) \ Everywhere :
       remote' = [remote EXCEPT ![r] = @ \cup {Root, c}]
  /\ UNCHANGED <<local, tracking, basis>>

Others ==
  /\ steps < OtherSteps /\ steps' = steps + 1
  /\ DevCommits \/ DevRewrites \/ DevMerges \/ Fetch \/ OthersPush
  /\ owed' = StillOwed
  /\ UNCHANGED <<upstream, runs, pc, handler, result, blind, discarded>>

-----------------------------------------------------------------------------
(* processPushRepository.                                                  *)

Invoke ==
  /\ pc = "done" /\ runs < MaxRuns
  /\ runs' = runs + 1 /\ pc' = "info" /\ request' \in Requests
  /\ todo' = <<>> /\ failed' = FALSE /\ news' = FALSE /\ result' = "none"
  /\ blind' = FALSE /\ basis' = local /\ owed' = [r \in Remotes |-> (tracking[r] \ local) \cap Foreign]
  /\ UNCHANGED <<refs, steps, info, discarded>>

At(place) == pc = place /\ UNCHANGED <<runs, steps, request, basis>>
Goto(place) == pc' = place /\ UNCHANGED result
Leave(status) == pc' = "done" /\ result' = status

Forces == request.force \/ request.refspec = "plus"

(* Mutant: the policy knows --force only.                                  *)
DeniedUnlessAsked == request.protected \/ (request.mode = "deny" /\ request.force)

(* PushPolicy.Check.                                                       *)
Denied ==
  \/ request.protected
  \/ request.mode = "deny" /\ Forces
  \/ request.mode = "lease-only" /\ request.refspec = "plus"

(* Open, GetInfo, the refspec's source, the policy.                        *)
Info ==
  /\ At("info")
  /\ info' = [ahead |-> upstream # "none" /\ ~ local \subseteq tracking[upstream], upstream |-> upstream]
  /\ \/ Leave("error")
     \/ Denied /\ Leave("blocked")
     \/ ~Denied /\ Goto("foreign")
  /\ UNCHANGED <<refs, todo, failed, news, blind, owed, discarded>>

(* The remote whose branch a force push is taken to replace: the upstream, *)
(* or with a refspec the first remote asked for.                           *)
Checked == IF request.refspec = "none" THEN info.upstream ELSE Head(request.targets)

(* Mutant: the range is the wrong way round.                               *)
AtStakeReversed(r) == (local \ tracking[r]) \cap Foreign

(* findForeignCommits: local..remote, signed by another.                   *)
AtStake(r) == (tracking[r] \ local) \cap Foreign

(* checkForeignWork; when git log fails the push goes on unchecked.  A     *)
(* machine without an identity does not check: the case of "allow".        *)
CheckForeign ==
  /\ At("foreign")
  /\ IF Forces /\ request.foreign = "block" /\ Checked # "none"
     THEN \/ Goto("state") /\ blind' = TRUE
          \/ AtStake(Checked) = {} /\ Goto("state") /\ UNCHANGED blind
          \/ AtStake(Checked) # {} /\ Leave("blocked") /\ UNCHANGED blind
     ELSE Goto("state") /\ UNCHANGED blind
  /\ UNCHANGED <<refs, info, todo, failed, news, owed, discarded>>

SetUpstreamMissing == request.setUpstream /\ info.upstream = "none"

(* checkRepositoryState, upstream, anything to push, --dry-run.            *)
CheckState ==
  /\ At("state")
  /\ \/ Leave("in-progress") /\ UNCHANGED <<todo, news>>
     \/ info.upstream = "none" /\ ~SetUpstreamMissing /\ Leave("no-upstream") /\ UNCHANGED <<todo, news>>
     \/ /\ info.upstream # "none" \/ SetUpstreamMissing
        /\ IF ~info.ahead /\ request.refspec = "none" /\ ~SetUpstreamMissing
           THEN Leave("up-to-date") /\ UNCHANGED <<todo, news>>
           ELSE IF request.dryRun THEN Leave("would-push") /\ UNCHANGED <<todo, news>>
           ELSE /\ Goto("push") /\ todo' = request.targets
                /\ news' = (request.refspec # "none" => ~ local \subseteq tracking[Head(request.targets)])
  /\ UNCHANGED <<refs, info, failed, blind, owed, discarded>>

(* What the remote does with our push: --force-with-lease compares with    *)
(* the tracking ref of that remote, a "+" refspec with nothing.            *)
Accepts(r) ==
  CASE request.refspec = "plus" -> TRUE
    [] request.refspec # "plus" /\ request.force -> remote[r] = tracking[r]
    [] ~Forces -> remote[r] \subseteq local

Dropped(r) ==
  {[commit |-> c, leased |-> request.mode # "allow", fetched |-> c \in tracking[r],
    owed |-> c \in owed[r] /\ request.foreign = "block" /\ r = Checked /\ ~blind] : c \in remote[r] \ local}

Primary == IF Origin \in Range(request.targets) THEN Origin ELSE Head(request.targets)

(* Mutant: a later success forgets an earlier failure.                     *)
ErrorsLast(ok) == ~ok

(* pushErrors.                                                             *)
Errors(ok) == failed \/ ~ok

(* The next remote of the loop has been dealt with.                        *)
Dealt(ok) ==
  /\ todo' = Tail(todo) /\ failed' = Errors(ok)
  /\ IF todo' # <<>> THEN Goto("push")
     ELSE Leave(IF failed' THEN "error" ELSE IF news THEN "pushed" ELSE "up-to-date")

(* pushToRemote.  The remote may take the push and its answer be lost.     *)
Push ==
  /\ At("push")
  /\ LET r == Head(todo)
     IN  \/ Dealt(FALSE) /\ UNCHANGED <<refs, discarded>>
         \/ /\ Accepts(r) /\ remote' = [remote EXCEPT ![r] = local] /\ discarded' = discarded \cup Dropped(r)
            /\ \/ Dealt(FALSE) /\ UNCHANGED <<tracking, upstream>>
               \/ /\ Dealt(TRUE) /\ tracking' = [tracking EXCEPT ![r] = local]
                  /\ upstream' = IF SetUpstreamMissing /\ r = Primary THEN r ELSE upstream
            /\ UNCHANGED local
  /\ owed' = StillOwed /\ UNCHANGED <<info, news, blind>>

Run == Info \/ CheckForeign \/ CheckState \/ Push

Done == pc = "done" /\ runs = MaxRuns /\ UNCHANGED vars

Next == Others \/ Invoke \/ Run \/ Done

Spec == Init /\ [][Next]_vars

-----------------------------------------------------------------------------
(* Properties.                                                             *)

Results == {"none", "error", "blocked", "in-progress", "no-upstream", "up-to-date", "would-push", "pushed"}

Branches ==
  /\ local \in SUBSET Commits /\ Root \in local /\ basis \subseteq Commits
  /\ remote \in [Remotes -> SUBSET Commits] /\ tracking \in [Remotes -> SUBSET Commits]

Handler ==
  /\ upstream \in Remotes \cup {"none"} /\ info.upstream \in Remotes \cup {"none"}
  /\ runs \in 0..MaxRuns /\ steps \in 0..OtherSteps
  /\ pc \in {"info", "foreign", "state", "push", "done"} /\ (pc = "push" <=> todo # <<>>)
  /\ todo \in Seq(Remotes) /\ request \in Requests /\ result \in Results

(* The types of the refs and of the handler's state; a run that has pushed *)
(* to every remote has none left, one still pushing has.                   *)
TypeOK == Branches /\ Handler

(* Unless the policy allows force pushes without a lease, no push drops a  *)
(* commit that this clone had never fetched, whoever wrote it.             *)
UnfetchedWorkSurvives == \A d \in discarded : d.leased => d.fetched

(* "A multi-device workflow fetches on arrival": what another machine had  *)
(* pushed to the remote a force push is checked for, and this clone had    *)
(* fetched when the push was begun, is not dropped by it, whatever is      *)
(* fetched, merged, rewritten or pushed between the check and the push,    *)
(* unless it came to the branch meanwhile and the developer took it off    *)
(* again, or git log failed.  What is fetched after the check is lost.     *)
ForeignWorkSurvives == \A d \in discarded : ~d.owed

(* A push reported as done has brought what the branch had when it began,  *)
(* less what the developer dropped meanwhile, to every remote asked for,   *)
(* whichever of several pushes failed before it.                           *)
SuccessMeansEverywhere ==
  pc = "done" /\ result = "pushed" => \A r \in Range(request.targets) : basis \subseteq remote[r]
=============================================================================
