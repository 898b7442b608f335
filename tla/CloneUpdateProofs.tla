------------------------- MODULE CloneUpdateProofs -------------------------
(***************************************************************************)
(* What a sync leaves of the developer's work, the types, and what the     *)
(* success of an update means, for any number of attempts and developer    *)
(* steps.                                                                  *)
(***************************************************************************)
EXTENDS CloneUpdate, TLAPS

(* Strategies that never reach the steps that remove a repository or reset *)
(* it.                                                                     *)
Gentle == strategy \in {"fetch", "pull", "rebase"}

(* While a rebase is in progress it keeps the HEAD it started from, so a   *)
(* commit made on the branch is in orig; outside a rebase it is on the     *)
(* branch.  One made amid a rebase is on HEAD, and only the rebase         *)
(* strategy comes to the abort that would take it away.                    *)
WorkInv ==
  /\ rebase \in {"none", "ours", "dev"}
  /\ Gentle =>
       /\ pc # "remove"
       /\ pc = "clone" => dir # "repo" /\ dir # "partial"
       /\ work.commit => dir = "repo" /\ IF rebase = "none" THEN "mine" \in tip ELSE "mine" \in orig
       /\ rebase # "none" \/ work.amid => dir = "repo"
       /\ pc = "abort" => strategy = "rebase"
       /\ strategy # "rebase" /\ work.amid => "amid" \in tip
  /\ work \in [commit : BOOLEAN, amid : BOOLEAN]

USE DEF tree, others, local, observed, idle, vars, Goto, Fail, Result, Settle, Opening, Emptied

LEMMA InitWork == Init => WorkInv
  BY DEF Init, WorkInv

LEMMA OthersWork ==
  ASSUME WorkInv, Cancel \/ RemoteMoves \/ Developer
  PROVE  WorkInv'
<1>1. CASE Cancel \/ RemoteMoves
  BY <1>1 DEF Cancel, RemoteMoves, WorkInv, Gentle, strategy, ToStrategy
<1>2. CASE Developer
  BY <1>2 DEF Developer, DevEdits, DevCommits, DevRebases, DevContinues, DevGitRuns, WorkInv, Gentle, strategy, ToStrategy
<1> QED
  BY <1>1, <1>2

LEMMA SyncWork ==
  ASSUME WorkInv, Sync
  PROVE  WorkInv'
<1> USE DEF WorkInv, Gentle, strategy, ToStrategy
<1>1. CASE Attempt
  BY <1>1 DEF Attempt
<1>2. CASE Retry \/ Accept \/ Open
  BY <1>2 DEF Retry, RetryWhile, Accept, Open
<1>3. CASE Remove
  BY <1>3 DEF Remove
<1>4. CASE Clone
  BY <1>4 DEF Clone
<1>5. CASE RemoveLock \/ Status \/ Fetch
  BY <1>5 DEF RemoveLock, LockRemovedThen, Status, Fetch
<1>6. CASE Reset
  BY <1>6 DEF Reset
<1>7. CASE Pull
  BY <1>7 DEF Pull, GitWorks, Diverged
<1>8. CASE Rebase
  BY <1>8 DEF Rebase, GitWorks, Diverged
<1>9. CASE Abort
  BY <1>9 DEF Abort, AbortTo, GitWorks
<1> QED
  BY <1>1, <1>2, <1>3, <1>4, <1>5, <1>6, <1>7, <1>8, <1>9 DEF Sync

(* Under fetch, pull and rebase a commit the developer made on the branch  *)
(* survives every failure, kill and cancellation, and under fetch and pull *)
(* one made amid a rebase as well (update.go).                             *)
THEOREM LocalCommitsSurviveHolds == Spec => []LocalCommitsSurvive
<1>1. WorkInv /\ [Next]_vars => WorkInv'
  <2> SUFFICES ASSUME WorkInv, [Next]_vars PROVE WorkInv'
    OBVIOUS
  <2>1. CASE Done \/ UNCHANGED vars
    BY <2>1 DEF Done, WorkInv, Gentle, strategy, ToStrategy
  <2> QED
    BY <2>1, OthersWork, SyncWork DEF Next
<1>2. WorkInv => LocalCommitsSurvive
  BY DEF WorkInv, Gentle, LocalCommitsSurvive
<1> QED
  BY InitWork, <1>1, <1>2, PTL DEF Spec

(* TypeOK in two parts: what the references hold, and the rest.            *)
RefsOK == tip \subseteq Commits /\ tracking \subseteq Commits /\ remote \subseteq Commits /\ orig \subseteq Commits

PlaceOK ==
  /\ dir \in {"absent", "plain", "partial", "repo"}
  /\ edits \in BOOLEAN /\ merging \in BOOLEAN /\ cancelled \in BOOLEAN
  /\ rebase \in {"none", "ours", "dev"} /\ lock \in {"none", "stale", "live"}
  /\ request \in Requests /\ attempt \in 1..Attempts /\ devSteps \in 0..DevSteps
  /\ verdict \in {"none", "succeeded", "failed"}

LEMMA TypeParts == (TypeOK <=> RefsOK /\ PlaceOK) /\ (TypeOK' <=> RefsOK' /\ PlaceOK')
  BY DEF TypeOK, RefsOK, PlaceOK

(* The repository and the action keep their types, and no attempt is made  *)
(* beyond the last (max(opts.MaxRetries+1, 1)).                            *)
THEOREM TypeHolds == Spec => []TypeOK
<1> USE DEF TypeOK, RefsOK, PlaceOK, Commits, Unpushed
<1>1. ASSUME Init PROVE TypeOK
  <2>1. lock \in {"none", "stale"} /\ tip \in {{"base"}, {}}
    BY <1>1 DEF Init
  <2>2. attempt \in 1..Attempts /\ devSteps \in 0..DevSteps
    BY <1>1, UpdateAssumption DEF Init
  <2>3. tip \subseteq Commits /\ tracking \subseteq Commits /\ remote \subseteq Commits /\ orig \subseteq Commits
    BY <1>1, <2>1 DEF Init
  <2> QED
    BY <1>1, <2>1, <2>2, <2>3 DEF Init
<1>2. ASSUME TypeOK, Sync PROVE TypeOK'
  <2>1. CASE Attempt \/ Accept \/ Status \/ Open
    BY <1>2, <2>1 DEF Attempt, Accept, Status, Open
  <2>2. CASE Retry
    BY <1>2, <2>2, UpdateAssumption DEF Retry, RetryWhile
  <2>3. CASE Remove
    <3>1. RefsOK'
      <4>1. tip' \in {tip, {}} /\ tracking' \in {tracking, {}} /\ orig' \in {orig, {}} /\ remote' = remote
        BY <2>3 DEF Remove
      <4> QED
        BY <1>2, <4>1
    <3>2. PlaceOK'
      <4>1. dir' \in {"absent", "plain", "partial", "repo"} /\ edits' \in {edits, FALSE} /\ merging' \in {merging, FALSE}
        BY <1>2, <2>3 DEF Remove
      <4>2. rebase' \in {rebase, "none"} /\ lock' \in {lock, "none"}
        BY <2>3 DEF Remove
      <4>3. cancelled' = cancelled /\ devSteps' = devSteps /\ request' = request /\ attempt' = attempt /\ verdict' = verdict
        BY <2>3 DEF Remove
      <4> QED
        BY <1>2, <4>1, <4>2, <4>3
    <3> QED
      BY <3>1, <3>2, TypeParts
  <2>4. CASE Clone
    <3>1. RefsOK'
      BY <1>2, <2>4 DEF Clone
    <3>2. PlaceOK'
      BY <1>2, <2>4 DEF Clone
    <3> QED
      BY <3>1, <3>2, TypeParts
  <2>5. CASE RemoveLock
    <3>1. RefsOK'
      BY <1>2, <2>5 DEF RemoveLock, LockRemovedThen
    <3>2. PlaceOK'
      BY <1>2, <2>5 DEF RemoveLock, LockRemovedThen
    <3> QED
      BY <3>1, <3>2, TypeParts
  <2>6. CASE Fetch
    <3>1. RefsOK'
      BY <1>2, <2>6 DEF Fetch
    <3>2. PlaceOK'
      BY <1>2, <2>6 DEF Fetch
    <3> QED
      BY <3>1, <3>2, TypeParts
  <2>7. CASE Reset
    <3>1. RefsOK'
      BY <1>2, <2>7 DEF Reset
    <3>2. PlaceOK'
      <4>1. lock' \in {"none", "stale", "live"} /\ rebase' = rebase /\ dir' \in {dir, "repo"}
        BY <1>2, <2>7 DEF Reset
      <4>2. edits' \in BOOLEAN /\ merging' \in BOOLEAN
        BY <1>2, <2>7 DEF Reset
      <4>3. request' = request /\ attempt' = attempt /\ verdict' = verdict
        BY <1>2, <2>7 DEF Reset
      <4> QED
        BY <1>2, <2>7, <4>1, <4>2, <4>3 DEF Reset
    <3> QED
      BY <3>1, <3>2, TypeParts
  <2>8. CASE Pull
    <3>1. RefsOK'
      BY <1>2, <2>8 DEF Pull
    <3>2. PlaceOK'
      <4>1. lock' \in {"none", "stale", "live"} /\ rebase' = rebase /\ dir' \in {dir, "repo"}
        BY <1>2, <2>8 DEF Pull
      <4>2. edits' \in BOOLEAN /\ merging' \in BOOLEAN
        BY <1>2, <2>8 DEF Pull
      <4>3. request' = request /\ attempt' = attempt /\ verdict' = verdict
        BY <1>2, <2>8 DEF Pull
      <4> QED
        BY <1>2, <2>8, <4>1, <4>2, <4>3 DEF Pull
    <3> QED
      BY <3>1, <3>2, TypeParts
  <2>9. CASE Rebase
    <3>1. RefsOK'
      BY <1>2, <2>9 DEF Rebase
    <3>2. PlaceOK'
      BY <1>2, <2>9 DEF Rebase
    <3> QED
      BY <3>1, <3>2, TypeParts
  <2>10. CASE Abort
    <3>1. RefsOK'
      BY <1>2, <2>10 DEF Abort, AbortTo
    <3>2. PlaceOK'
      BY <1>2, <2>10 DEF Abort, AbortTo
    <3> QED
      BY <3>1, <3>2, TypeParts
  <2> QED
    BY <1>2, <2>1, <2>2, <2>3, <2>4, <2>5, <2>6, <2>7, <2>8, <2>9, <2>10 DEF Sync
<1>3. ASSUME TypeOK, Developer PROVE TypeOK'
  <2>1. devSteps' \in 0..DevSteps
    BY <1>3, UpdateAssumption DEF Developer
  <2>2. CASE DevEdits
    BY <1>3, <2>1, <2>2 DEF Developer, DevEdits
  <2>3. CASE DevCommits
    BY <1>3, <2>1, <2>3 DEF Developer, DevCommits
  <2>4. CASE DevRebases
    BY <1>3, <2>1, <2>4 DEF Developer, DevRebases
  <2>5. CASE DevGitRuns
    BY <1>3, <2>1, <2>5 DEF Developer, DevGitRuns
  <2>6. CASE DevContinues
    BY <1>3, <2>1, <2>6 DEF Developer, DevContinues
  <2> QED
    BY <1>3, <2>2, <2>3, <2>4, <2>5, <2>6 DEF Developer
<1>4. ASSUME TypeOK, Cancel \/ RemoteMoves PROVE TypeOK'
  <2>1. CASE Cancel
    BY <1>4, <2>1 DEF Cancel
  <2>2. CASE RemoteMoves
    BY <1>4, <2>2 DEF RemoteMoves
  <2> QED
    BY <1>4, <2>1, <2>2
<1>5. ASSUME TypeOK, UNCHANGED vars PROVE TypeOK'
  BY <1>5
<1> HIDE DEF TypeOK, RefsOK, PlaceOK, vars
<1>6. TypeOK /\ [Next]_vars => TypeOK'
  BY <1>2, <1>3, <1>4, <1>5 DEF Next, Done
<1> QED
  BY <1>1, <1>6, PTL DEF Spec

-----------------------------------------------------------------------------
(* An update that reports success.                                         *)

(* What the strategy promises to have of the remote.                       *)
Has(commits) == commits \subseteq IF strategy = "fetch" THEN tracking ELSE tip \cup orig

(* The remote only grows, so what an attempt saw of it at its start is     *)
(* still there; where reset and rebase start from origin/HEAD it has been  *)
(* fetched; and once an attempt has opened the repository to report        *)
(* success, it has what it saw.  A result of an earlier attempt may be     *)
(* left over, and only these two steps hand one on.                        *)
CurrentInv ==
  /\ basis \subseteq remote
  /\ rebase = "none" => orig = {}
  /\ verdict # "none" => pc = "done"
  /\ pc = "apply" /\ strategy \in {"reset", "rebase"} => basis \subseteq tracking
  /\ (pc \in {"open", "settle"} \/ verdict = "succeeded") /\ result.success =>
       Has(basis) /\ (strategy \in {"reset", "rebase", "clone"} => dir = "repo")

LEMMA InitCurrent == Init => CurrentInv
  BY DEF Init, CurrentInv, NoResult

LEMMA OthersCurrent ==
  ASSUME CurrentInv, Cancel \/ RemoteMoves \/ Developer
  PROVE  CurrentInv'
<1> USE DEF CurrentInv, Has, strategy, ToStrategy
<1>1. CASE Cancel
  BY <1>1 DEF Cancel
<1>2. CASE RemoteMoves
  BY <1>2 DEF RemoteMoves
<1>3. CASE Developer
  <2>1. CASE DevEdits
    BY <1>3, <2>1 DEF Developer, DevEdits
  <2>2. CASE DevCommits
    BY <1>3, <2>2 DEF Developer, DevCommits
  <2>3. CASE DevRebases
    BY <1>3, <2>3 DEF Developer, DevRebases
  <2>4. CASE DevGitRuns
    BY <1>3, <2>4 DEF Developer, DevGitRuns
  <2>5. CASE DevContinues
    BY <1>3, <2>5 DEF Developer, DevContinues
  <2> QED
    BY <1>3, <2>1, <2>2, <2>3, <2>4, <2>5 DEF Developer
<1> QED
  BY <1>1, <1>2, <1>3

LEMMA SyncCurrent ==
  ASSUME CurrentInv, Sync
  PROVE  CurrentInv'
<1> USE DEF CurrentInv, Has, strategy, ToStrategy
<1>1. CASE Attempt
  BY <1>1 DEF Attempt
<1>2. CASE Retry
  BY <1>2 DEF Retry, RetryWhile
<1>3. CASE Accept
  BY <1>3 DEF Accept
<1>4. CASE Open
  BY <1>4 DEF Open
<1>5. CASE Remove
  BY <1>5 DEF Remove
<1>6. CASE Clone
  BY <1>6 DEF Clone
<1>7. CASE RemoveLock
  BY <1>7 DEF RemoveLock, LockRemovedThen
<1>8. CASE Status
  BY <1>8 DEF Status
<1>9. CASE Fetch
  BY <1>9 DEF Fetch
<1>10. CASE Reset
  BY <1>10 DEF Reset, GitWorks
<1>11. CASE Pull
  BY <1>11 DEF Pull, GitWorks, Diverged
<1>12. CASE Rebase
  BY <1>12 DEF Rebase, GitWorks, Diverged
<1>13. CASE Abort
  BY <1>13 DEF Abort, AbortTo
<1> QED
  BY <1>1, <1>2, <1>3, <1>4, <1>5, <1>6, <1>7, <1>8, <1>9, <1>10, <1>11, <1>12, <1>13 DEF Sync

(* An update that reports success has everything the remote had when its   *)
(* last attempt began, and after a reset, a rebase or a clone a complete   *)
(* repository (update.go), however many attempts failed or were killed     *)
(* before, and left a clone half made.                                     *)
THEOREM SuccessIsCurrentHolds == Spec => []SuccessIsCurrent
<1>1. CurrentInv /\ [Next]_vars => CurrentInv'
  <2> SUFFICES ASSUME CurrentInv, [Next]_vars PROVE CurrentInv'
    OBVIOUS
  <2>1. CASE Done \/ UNCHANGED vars
    BY <2>1 DEF Done, CurrentInv, Has, strategy, ToStrategy
  <2> QED
    BY <2>1, OthersCurrent, SyncCurrent DEF Next
<1>2. CurrentInv => SuccessIsCurrent
  BY DEF CurrentInv, Has, SuccessIsCurrent
<1> QED
  BY InitCurrent, <1>1, <1>2, PTL DEF Spec
=============================================================================
