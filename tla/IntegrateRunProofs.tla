------------------------- MODULE IntegrateRunProofs -------------------------
(***************************************************************************)
(* What integrate run may never lose, what it may reclaim and what its     *)
(* exit code 0 means, for any commits made meanwhile and any number of     *)
(* steps of the others.                                                    *)
(***************************************************************************)
EXTENDS IntegrateRun, TLAPS

USE IntegrateAssumption
    DEF remotes, tracks, trees, outcome, request, repo, seen, vars, Goto, Exit, Finished, Skip

Reclaiming == {"nested", "worktree", "branch", "remote", "ask", "parent"}
AfterPush  == Reclaiming \cup {"follow", "reclaim"}
Before     == {"resolve", "fetch", "freshness", "inspect", "make"}

(* The tracking ref is a former value of the remote's branch, which loses  *)
(* commits only to the target; this is what makes the merged test of       *)
(* branch -d trustworthy.                                                  *)
WorkInv ==
  /\ TaskWorkSurvives
  /\ ttask \subseteq rtask \cup rtarget
  /\ "base" \notin work

(* What is known of the run at each step.                                  *)
RunInv ==
  /\ pc \in AfterPush => sha \subseteq rtarget
  /\ pc \in Reclaiming \cup {"reclaim"} /\ targetTree => ltarget = sha
  /\ pc \in Reclaiming => kind = "task"
  /\ pc \in Before => landed = {}
  /\ pc \in {"recheck", "refetch", "compare", "push"} => landed = {} /\ ready = sha
  /\ LandedWasReady

IInv == WorkInv /\ RunInv

LEMMA InitInv == Init => IInv
  BY DEF Init, IInv, WorkInv, RunInv, TaskWorkSurvives, LandedWasReady, Reclaiming, AfterPush, Before

LEMMA OthersInv ==
  ASSUME IInv, Others
  PROVE  IInv'
<1>1. rtarget \subseteq rtarget'
  BY DEF Others, DevEdits, DevCommits, DevSwitches, DevPushes, DevFetches, ColleaguePushesTask,
         TaskDeletedOnRemote, ColleaguePushesTarget
<1>2. RunInv'
  BY <1>1 DEF IInv, RunInv, Others, LandedWasReady
<1>3. CASE DevEdits \/ DevSwitches \/ DevFetches
  BY <1>2, <1>3 DEF DevEdits, DevSwitches, DevFetches, IInv, WorkInv, TaskWorkSurvives
<1>4. CASE DevCommits
  BY <1>2, <1>4 DEF DevCommits, IInv, WorkInv, TaskWorkSurvives
<1>5. CASE DevPushes
  BY <1>2, <1>5 DEF DevPushes, IInv, WorkInv, TaskWorkSurvives
<1>6. CASE ColleaguePushesTask
  BY <1>2, <1>6 DEF ColleaguePushesTask, IInv, WorkInv, TaskWorkSurvives
<1>7. CASE TaskDeletedOnRemote \/ ColleaguePushesTarget
  BY <1>2, <1>7 DEF TaskDeletedOnRemote, ColleaguePushesTarget, IInv, WorkInv, TaskWorkSurvives
<1> QED
  BY <1>3, <1>4, <1>5, <1>6, <1>7 DEF Others

LEMMA RunStepInv ==
  ASSUME IInv, Run
  PROVE  IInv'
<1> USE DEF IInv, WorkInv, RunInv, TaskWorkSurvives, LandedWasReady, Reclaiming, AfterPush, Before
<1>1. CASE Resolve \/ Freshness \/ Inspect
  BY <1>1 DEF Resolve, Freshness, Inspect
<1>2. CASE Make \/ Recheck \/ Compare
  BY <1>2 DEF Make, Recheck, Compare
<1>3. CASE FetchThen("fetch", "freshness")
  BY <1>3 DEF FetchThen
<1>4. CASE FetchThen("refetch", "compare")
  BY <1>4 DEF FetchThen
<1>5. CASE Push
  BY <1>5 DEF Push, PushOf
<1>6. CASE Follow
  BY <1>6 DEF Follow
<1>7. CASE Classify \/ NestedCheck \/ RemoveTree
  BY <1>7 DEF Classify, NestedCheck, RemoveTree, RemoveTreeIf
<1>8. CASE DeleteBranch
  BY <1>8 DEF DeleteBranch, Merged, standHead
<1>9. CASE DeleteRemote
  BY <1>9 DEF DeleteRemote, DeleteRemoteLeased
<1>10. CASE AskRemote \/ RemoveParent
  BY <1>10 DEF AskRemote, AskRemoteIf, RemoveParent
<1> QED
  BY <1>1, <1>2, <1>3, <1>4, <1>5, <1>6, <1>7, <1>8, <1>9, <1>10 DEF Run

LEMMA StepInv == IInv /\ [Next]_vars => IInv'
<1> SUFFICES ASSUME IInv, [Next]_vars PROVE IInv'
  OBVIOUS
<1>1. CASE Done \/ UNCHANGED vars
  BY <1>1 DEF Done, IInv, WorkInv, RunInv, TaskWorkSurvives, LandedWasReady
<1> QED
  BY <1>1, OthersInv, RunStepInv DEF Next

(* No commit of the task is lost, whatever is made or pushed while the run *)
(* checks, lands and reclaims (run.go, reclaim.go).                        *)
THEOREM TaskWorkSurvivesHolds == Spec => []TaskWorkSurvives
<1>1. IInv => TaskWorkSurvives
  BY DEF IInv, WorkInv
<1> QED
  BY InitInv, StepInv, <1>1, PTL DEF Spec

(* Only the commit that was found ready lands on the target.               *)
THEOREM LandedWasReadyHolds == Spec => []LandedWasReady
<1>1. IInv => LandedWasReady
  BY DEF IInv, RunInv
<1> QED
  BY InitInv, StepInv, <1>1, PTL DEF Spec

(* The push is a fast-forward or refused: the target only grows.           *)
THEOREM TargetKeepsCommitsHolds == Spec => TargetKeepsCommits
<1>1. [Next]_vars => [rtarget \subseteq rtarget']_rtarget
  BY DEF Next, Others, DevEdits, DevCommits, DevSwitches, DevPushes, DevFetches, ColleaguePushesTask,
         TaskDeletedOnRemote, ColleaguePushesTarget, Run, Resolve, FetchThen, Freshness, Inspect, Make, Recheck,
         Compare, Push, PushOf, Follow, Classify, NestedCheck, RemoveTree, RemoveTreeIf, DeleteBranch,
         DeleteRemote, DeleteRemoteLeased, AskRemote, AskRemoteIf, RemoveParent, Done
<1> QED
  BY <1>1, PTL DEF Spec, TargetKeepsCommits

(* While the branch has not been deleted it is not empty.                  *)
NotEmpty == pc \notin {"remote", "ask", "parent", "done"} => "base" \in task

LEMMA NotEmptyStep == NotEmpty /\ [Next]_vars => NotEmpty'
<1> SUFFICES ASSUME NotEmpty, [Next]_vars PROVE NotEmpty'
  OBVIOUS
<1> USE DEF NotEmpty, AfterPush, Reclaiming, Before
<1>1. CASE Others
  BY <1>1 DEF Others, DevEdits, DevCommits, DevSwitches, DevPushes, DevFetches, ColleaguePushesTask,
              TaskDeletedOnRemote, ColleaguePushesTarget
<1>2. CASE Resolve \/ Freshness \/ Inspect \/ Make \/ Recheck \/ Compare
  BY <1>2 DEF Resolve, Freshness, Inspect, Make, Recheck, Compare
<1>3. CASE FetchThen("fetch", "freshness") \/ FetchThen("refetch", "compare") \/ Push \/ Follow
  BY <1>3 DEF FetchThen, Push, PushOf, Follow
<1>4. CASE Classify \/ NestedCheck \/ RemoveTree
  BY <1>4 DEF Classify, NestedCheck, RemoveTree, RemoveTreeIf
<1>5. CASE DeleteBranch \/ DeleteRemote \/ AskRemote \/ RemoveParent
  BY <1>5 DEF DeleteBranch, DeleteRemote, DeleteRemoteLeased, AskRemote, AskRemoteIf, RemoveParent
<1>6. CASE Done \/ UNCHANGED vars
  BY <1>6 DEF Done
<1> QED
  BY <1>1, <1>2, <1>3, <1>4, <1>5, <1>6 DEF Next, Run

(* A step that empties the branch or takes a worktree is one of the        *)
(* reclaim, which comes after the push.                                    *)
LEMMA ReclaimStep ==
  ASSUME IInv, NotEmpty, Others \/ Run, task' = {} \/ (taskIn' # taskIn /\ pc' # pc)
  PROVE  kind = "task" /\ sha \subseteq rtarget
<1> USE DEF NotEmpty, AfterPush, Reclaiming, Before
<1>1. SUFFICES pc \in Reclaiming
  BY DEF IInv, RunInv
<1>2. CASE Others
  BY <1>2 DEF Others, DevEdits, DevCommits, DevSwitches, DevPushes, DevFetches, ColleaguePushesTask,
              TaskDeletedOnRemote, ColleaguePushesTarget
<1>3. CASE Resolve \/ Freshness \/ Inspect \/ Make \/ Recheck \/ Compare
  BY <1>3 DEF Resolve, Freshness, Inspect, Make, Recheck, Compare
<1>4. CASE FetchThen("fetch", "freshness") \/ FetchThen("refetch", "compare") \/ Push \/ Follow \/ Classify
  BY <1>4 DEF FetchThen, Push, PushOf, Follow, Classify
<1>5. CASE NestedCheck \/ RemoveTree \/ DeleteBranch \/ DeleteRemote \/ AskRemote \/ RemoveParent
  BY <1>5 DEF NestedCheck, RemoveTree, RemoveTreeIf, DeleteBranch, DeleteRemote,
              DeleteRemoteLeased, AskRemote, AskRemoteIf, RemoveParent
<1> QED
  BY <1>2, <1>3, <1>4, <1>5 DEF Run

(* The worktree and the local branch are removed only when the checked     *)
(* commit is on the remote's target, and only those of a declared task.    *)
THEOREM ReclaimsOnlyTheLandedHolds == Spec => ReclaimsOnlyTheLanded
<1>1. Init => NotEmpty
  BY DEF Init, NotEmpty, AfterPush, Reclaiming, Before
<1>2. IInv /\ NotEmpty /\ [Next]_vars =>
        [task' = {} \/ (taskIn' # taskIn /\ pc' # pc) => kind = "task" /\ sha \subseteq rtarget]_<<task, taskIn, pc>>
  BY ReclaimStep DEF Next, Done
<1> QED
  BY <1>1, <1>2, InitInv, StepInv, NotEmptyStep, PTL DEF Spec, ReclaimsOnlyTheLanded

(* The ways a run ends.                                                    *)
OutcomeType ==
  /\ exit \in {"none", "0", "1", "2", "3"} /\ (pc = "done" <=> exit # "none") /\ (failed <=> exit = "3")
  /\ skipped \in BOOLEAN /\ failed \in BOOLEAN

LEMMA OutcomeStep ==
  ASSUME OutcomeType, pc # "done",
         \/ \E step \in Steps \ {"done"} : Goto(step)
         \/ Skip \/ Finished(TRUE) \/ Finished(FALSE)
  PROVE  OutcomeType'
<1> USE DEF OutcomeType
<1>1. CASE \E step \in Steps \ {"done"} : Goto(step)
  BY <1>1
<1>2. CASE Skip
  BY <1>2
<1>3. CASE Finished(TRUE)
  BY <1>3
<1>4. CASE Finished(FALSE)
  BY <1>4
<1> QED
  BY <1>1, <1>2, <1>3, <1>4

LEMMA RunType == ASSUME TypeOK, Run PROVE TypeOK'
<1> USE DEF TypeOK, Steps, Commits
<1>1. CASE Resolve
  BY <1>1 DEF Resolve
<1>2. CASE FetchThen("fetch", "freshness")
  BY <1>2 DEF FetchThen
<1>3. CASE FetchThen("refetch", "compare")
  BY <1>3 DEF FetchThen
<1>4. CASE Freshness
  BY <1>4 DEF Freshness
<1>5. CASE Inspect
  BY <1>5 DEF Inspect
<1>6. CASE Make
  BY <1>6 DEF Make
<1>7. CASE Recheck
  BY <1>7 DEF Recheck
<1>8. CASE Compare
  BY <1>8 DEF Compare
<1>9. CASE Push
  BY <1>9 DEF Push, PushOf
<1>10. CASE Follow
  BY <1>10 DEF Follow
<1>11. CASE Classify
  <2>1. OutcomeType'
    BY <1>11, OutcomeStep DEF Classify, OutcomeType
  <2> QED
    BY <1>11, <2>1 DEF Classify, OutcomeType
<1>12. CASE NestedCheck
  <2>1. OutcomeType'
    BY <1>12, OutcomeStep DEF NestedCheck, OutcomeType
  <2> QED
    BY <1>12, <2>1 DEF NestedCheck, OutcomeType
<1>13. CASE RemoveTree
  <2>1. OutcomeType'
    BY <1>13, OutcomeStep DEF RemoveTree, RemoveTreeIf, OutcomeType
  <2> QED
    BY <1>13, <2>1 DEF RemoveTree, RemoveTreeIf, OutcomeType
<1>14. CASE DeleteBranch
  <2>1. OutcomeType'
    BY <1>14, OutcomeStep DEF DeleteBranch, OutcomeType
  <2> QED
    BY <1>14, <2>1 DEF DeleteBranch, OutcomeType
<1>15. CASE DeleteRemote
  <2>1. OutcomeType'
    BY <1>15, OutcomeStep DEF DeleteRemote, DeleteRemoteLeased, OutcomeType
  <2> QED
    BY <1>15, <2>1 DEF DeleteRemote, DeleteRemoteLeased, OutcomeType
<1>16. CASE AskRemote
  <2>1. OutcomeType'
    BY <1>16, OutcomeStep DEF AskRemote, AskRemoteIf, OutcomeType
  <2> QED
    BY <1>16, <2>1 DEF AskRemote, AskRemoteIf, OutcomeType
<1>17. CASE RemoveParent
  BY <1>17 DEF RemoveParent
<1> QED
  BY <1>1, <1>2, <1>3, <1>4, <1>5, <1>6, <1>7, <1>8, <1>9, <1>10, <1>11, <1>12, <1>13, <1>14, <1>15, <1>16, <1>17
     DEF Run

(* The types; an exit code is set exactly at the end, and it is 3 exactly  *)
(* when the reclaim was left incomplete.                                   *)
THEOREM TypeHolds == Spec => []TypeOK
<1> USE DEF TypeOK, Steps, Commits
<1>1. ASSUME Init PROVE TypeOK
  <2>1. task = {"base", "task"} /\ rtarget \in {{"base"}, {}} /\ ltarget \in {{}, {"base"}, {"base", "other"}}
    BY <1>1 DEF Init
  <2>2. (rtask = {} \/ rtask = task) /\ (ttask = {} \/ ttask = rtask) /\ (ttarget = {} \/ ttarget = rtarget)
    BY <1>1 DEF Init
  <2>3. \A branch \in {task, ltarget, ttask, ttarget, rtask, rtarget, sha, work, ready, landed} : branch \subseteq Commits
    <3>1. sha = {} /\ work = {"task"} /\ ready = {} /\ landed = {}
      BY <1>1 DEF Init
    <3> QED
      BY <2>1, <2>2, <3>1
  <2>4. steps \in 0..OtherSteps
    BY <1>1 DEF Init
  <2>6. edits \in BOOLEAN
    BY <1>1 DEF Init
  <2>5. targetTree \in BOOLEAN
    <3>1. (IF ltarget = {} THEN {FALSE} ELSE BOOLEAN) \subseteq BOOLEAN
      OBVIOUS
    <3> QED
      BY <1>1, <3>1 DEF Init
  <2> QED
    BY <1>1, <2>3, <2>4, <2>5, <2>6 DEF Init
<1>2. ASSUME TypeOK, Others PROVE TypeOK'
  <2>1. steps' \in 0..OtherSteps /\ pc' \in Steps
    BY <1>2 DEF Others
  <2>0. OutcomeType'
    BY <1>2 DEF Others, OutcomeType
  <2>2. CASE DevEdits
    <3>1. edits' \in BOOLEAN /\ targetTree' \in BOOLEAN
      BY <1>2, <2>2 DEF Others, DevEdits
    <3>2. taskIn' \in {"main", "own", "two", "none"} /\ parent' \in {"shared", "own", "gone"}
      BY <1>2, <2>2 DEF Others, DevSwitches
    <3>3. (\A branch \in {task, ltarget, ttask, ttarget, rtask, rtarget, sha, work, ready, landed} : branch \subseteq Commits)'
      BY <1>2, <2>2 DEF Others, DevEdits
    <3> QED
      BY <2>0, <2>1, <3>1, <3>2, <3>3 DEF OutcomeType
  <2>3. CASE DevCommits
    <3>1. edits' \in BOOLEAN /\ targetTree' \in BOOLEAN
      BY <1>2, <2>3 DEF Others, DevCommits
    <3>2. taskIn' \in {"main", "own", "two", "none"} /\ parent' \in {"shared", "own", "gone"}
      BY <1>2, <2>3 DEF Others, DevSwitches
    <3>3. (\A branch \in {task, ltarget, ttask, ttarget, rtask, rtarget, sha, work, ready, landed} : branch \subseteq Commits)'
      BY <1>2, <2>3 DEF Others, DevCommits
    <3> QED
      BY <2>0, <2>1, <3>1, <3>2, <3>3 DEF OutcomeType
  <2>4. CASE DevSwitches \/ DevPushes \/ DevFetches
    BY <1>2, <2>1, <2>4 DEF Others, DevSwitches, DevPushes, DevFetches
  <2>5. CASE ColleaguePushesTask
    BY <1>2, <2>1, <2>5 DEF Others, ColleaguePushesTask, DevSwitches
  <2>6. CASE TaskDeletedOnRemote
    BY <1>2, <2>1, <2>6 DEF Others, TaskDeletedOnRemote, DevSwitches
  <2>7. CASE ColleaguePushesTarget
    BY <1>2, <2>1, <2>7 DEF Others, ColleaguePushesTarget, DevSwitches
  <2> QED
    BY <1>2, <2>2, <2>3, <2>4, <2>5, <2>6, <2>7 DEF Others
<1>3. TypeOK /\ [Next]_vars => TypeOK'
  BY <1>2, RunType DEF Next, Done
<1> QED
  BY <1>1, <1>3, PTL DEF Spec

-----------------------------------------------------------------------------
(* What exit code 0 says.                                                  *)

(* Commits made meanwhile are new to what the run has looked at.           *)
NewToRun ==
  /\ task \cap More \subseteq work /\ sha \cap More \subseteq work
  /\ pc \in {"refetch", "compare", "push", "follow", "reclaim"} \cup Reclaiming => "base" \in sha

LEMMA NewToRunStep == NotEmpty /\ NewToRun /\ [Next]_vars => NewToRun'
<1> SUFFICES ASSUME NotEmpty, NewToRun, [Next]_vars PROVE NewToRun'
  OBVIOUS
<1> USE DEF NewToRun, Reclaiming
<1>1. CASE Others
  BY <1>1 DEF Others, DevEdits, DevCommits, DevSwitches, DevPushes, DevFetches, ColleaguePushesTask,
              TaskDeletedOnRemote, ColleaguePushesTarget
<1>2. CASE Resolve \/ Freshness \/ Inspect \/ Make \/ Recheck \/ Compare
  BY <1>2 DEF Resolve, Freshness, Inspect, Make, Recheck, Compare, NotEmpty
<1>3. CASE FetchThen("fetch", "freshness") \/ FetchThen("refetch", "compare") \/ Push \/ Follow
  BY <1>3 DEF FetchThen, Push, PushOf, Follow
<1>4. CASE Classify \/ NestedCheck \/ RemoveTree
  BY <1>4 DEF Classify, NestedCheck, RemoveTree, RemoveTreeIf
<1>5. CASE DeleteBranch \/ DeleteRemote \/ AskRemote \/ RemoveParent
  BY <1>5 DEF DeleteBranch, DeleteRemote, DeleteRemoteLeased, AskRemote, AskRemoteIf, RemoveParent
<1>6. CASE Done \/ UNCHANGED vars
  BY <1>6 DEF Done
<1> QED
  BY <1>1, <1>2, <1>3, <1>4, <1>5, <1>6 DEF Next, Run

(* A task that is checked out nowhere has no uncommitted changes, so once  *)
(* its branch is deleted nobody can commit it back into being.  Since the  *)
(* second fetch, no tracking ref means that the remote's branch was gone,  *)
(* and what is pushed there since is new.  Only the end of the reclaim     *)
(* gives exit code 0 without a skip.                                       *)
GoneInv ==
  /\ taskIn = "none" => ~edits
  /\ pc \in {"compare", "push", "follow", "reclaim", "nested", "worktree", "branch", "remote"} /\ ttask = {} => rtask # sha
  /\ pc \in {"remote", "ask", "parent"} => task = {} /\ taskIn = "none"
  /\ pc = "parent" => rtask # sha
  /\ exit = "0" => pc = "done"
  /\ ExitZeroMeansReclaimed

LEMMA OthersGone ==
  ASSUME GoneInv, NewToRun, Others
  PROVE  GoneInv'
<1> USE DEF GoneInv, ExitZeroMeansReclaimed, NewToRun, Reclaiming
<1>1. pc # "done" /\ exit # "0" /\ exit' # "0" /\ pc' = pc /\ sha' = sha
  BY DEF Others
<1>2. CASE DevSwitches
  BY <1>1, <1>2 DEF Others, DevSwitches
<1>3. CASE DevEdits
  BY <1>1, <1>3 DEF Others, DevEdits, DevSwitches
<1>4. CASE DevCommits
  BY <1>1, <1>4 DEF Others, DevCommits, DevSwitches
<1>5. CASE DevPushes \/ DevFetches
  BY <1>1, <1>5 DEF Others, DevPushes, DevFetches, DevSwitches
<1>6. CASE ColleaguePushesTask
  BY <1>1, <1>6 DEF Others, ColleaguePushesTask, DevSwitches
<1>7. CASE TaskDeletedOnRemote \/ ColleaguePushesTarget
  BY <1>1, <1>7 DEF Others, TaskDeletedOnRemote, ColleaguePushesTarget, DevSwitches
<1> QED
  BY <1>2, <1>3, <1>4, <1>5, <1>6, <1>7 DEF Others

LEMMA RunGone ==
  ASSUME GoneInv, NewToRun, Run
  PROVE  GoneInv'
<1> USE DEF GoneInv, ExitZeroMeansReclaimed, NewToRun, Reclaiming
<1>1. CASE Resolve \/ Freshness \/ Inspect \/ Make \/ Recheck \/ Compare
  BY <1>1 DEF Resolve, Freshness, Inspect, Make, Recheck, Compare
<1>2. CASE FetchThen("fetch", "freshness") \/ FetchThen("refetch", "compare")
  BY <1>2 DEF FetchThen
<1>3. CASE Push \/ Follow
  BY <1>3 DEF Push, PushOf, Follow
<1>4. CASE Classify \/ NestedCheck
  BY <1>4 DEF Classify, NestedCheck
<1>5. CASE RemoveTree
  <2>1. ~(pc' \in {"remote", "ask", "parent"}) /\ exit' # "0" /\ UNCHANGED <<ttask, rtask, sha>> /\ pc = "worktree"
    BY <1>5 DEF RemoveTree, RemoveTreeIf
  <2>2. ~edits => ~edits'
    BY <1>5, Zenon DEF RemoveTree, RemoveTreeIf
  <2>3. taskIn = "own" => taskIn' = "own" \/ ~edits'
    BY <1>5, Zenon DEF RemoveTree, RemoveTreeIf
  <2>4. taskIn # "own" => taskIn' = taskIn
    BY <1>5 DEF RemoveTree, RemoveTreeIf
  <2> QED
    BY <2>1, <2>2, <2>3, <2>4
<1>6. CASE DeleteBranch
  BY <1>6 DEF DeleteBranch
<1>7. CASE DeleteRemote
  BY <1>7 DEF DeleteRemote, DeleteRemoteLeased
<1>8. CASE AskRemote \/ RemoveParent
  BY <1>8 DEF AskRemote, AskRemoteIf, RemoveParent
<1> QED
  BY <1>1, <1>2, <1>3, <1>4, <1>5, <1>6, <1>7, <1>8 DEF Run

(* Exit code 0 without a skip: branch and work tree of the task are gone   *)
(* and nobody can have brought them back, and the commit that landed is no *)
(* longer the task's branch on the remote (reclaim.go).                    *)
THEOREM ExitZeroMeansReclaimedHolds == Spec => []ExitZeroMeansReclaimed
<1>1. Init => GoneInv /\ NotEmpty /\ NewToRun
  BY DEF Init, GoneInv, ExitZeroMeansReclaimed, NotEmpty, NewToRun, Reclaiming
<1>2. GoneInv /\ NotEmpty /\ NewToRun /\ [Next]_vars => (GoneInv /\ NotEmpty /\ NewToRun)'
  <2>1. ASSUME GoneInv, Done \/ UNCHANGED vars PROVE GoneInv'
    BY <2>1 DEF Done, GoneInv, ExitZeroMeansReclaimed
  <2> QED
    BY <2>1, OthersGone, RunGone, NotEmptyStep, NewToRunStep DEF Next
<1>3. GoneInv => ExitZeroMeansReclaimed
  BY DEF GoneInv
<1> QED
  BY <1>1, <1>2, <1>3, PTL DEF Spec
=============================================================================
