--------------------------- MODULE BulkPushProofs ---------------------------
(***************************************************************************)
(* What no push loses and what a push that succeeds has done, for every    *)
(* set of remotes, commits and requests, and any number of pushes and of   *)
(* steps of the others.                                                    *)
(***************************************************************************)
EXTENDS BulkPush, TLAPS

USE DEF refs, handler, observed, vars, At, Goto, Leave

Passed == {"foreign", "state", "push"}

Progress == pc \in Passed \cup {"info", "done"} /\ request \in Requests

(* A run that got past the policy is one the policy permits: what pushes   *)
(* without a lease is in mode "allow".                                     *)
Permitted == pc \in Passed => ~Denied

(* What is owed is at stake until the check, and what the check lets pass  *)
(* leaves nothing owed.                                                    *)
Owing ==
  /\ pc \in {"info", "foreign"} => \A r \in Remotes : owed[r] \subseteq AtStake(r)
  /\ pc \in {"state", "push"} /\ Forces /\ request.foreign = "block" /\ ~blind /\ Checked \in Remotes => owed[Checked] = {}

LossInv == Progress /\ Permitted /\ Owing /\ UnfetchedWorkSurvives /\ ForeignWorkSurvives

(* Every remote has been pushed to or is still to be, unless a push has    *)
(* failed.                                                                 *)
PushedSoFar ==
  pc = "push" /\ ~failed => \A r \in Range(request.targets) : r \in Range(todo) \/ basis \subseteq remote[r]

SuccessInv ==
  /\ Progress /\ basis \subseteq local
  /\ todo \in Seq(Remotes) /\ (pc = "push" => todo # <<>>) /\ DOMAIN remote = Remotes
  /\ PushedSoFar /\ SuccessMeansEverywhere

-----------------------------------------------------------------------------
(* Types.                                                                  *)

LEMMA RequestType ==
  ASSUME NEW r \in Requests
  PROVE  /\ r.targets \in Seq(Remotes) /\ r.targets # <<>>
         /\ r.mode \in {"lease-only", "allow", "deny"} /\ r.foreign \in {"block", "allow"}
         /\ r.refspec \in {"none", "plain", "plus"} /\ r.force \in BOOLEAN
  BY PushAssumption

LEMMA BranchesStep == ASSUME Branches, Handler, Next PROVE Branches'
<1> USE DEF Branches, Handler, Commits
<1>1. CASE Others
  <2>1. CASE DevCommits
    BY <1>1, <2>1 DEF Others, DevCommits
  <2>2. CASE DevRewrites
    BY <1>1, <2>2 DEF Others, DevRewrites
  <2>3. CASE DevMerges
    BY <1>1, <2>3 DEF Others, DevMerges
  <2>4. CASE Fetch
    BY <1>1, <2>4 DEF Others, Fetch
  <2>5. CASE OthersPush
    BY <1>1, <2>5 DEF Others, OthersPush
  <2> QED
    BY <1>1, <2>1, <2>2, <2>3, <2>4, <2>5 DEF Others
<1>2. CASE Invoke \/ Info \/ CheckForeign \/ CheckState \/ Done
  BY <1>2 DEF Invoke, Info, CheckForeign, CheckState, Done
<1>3. CASE Push
  <2>1. Head(todo) \in Remotes
    BY <1>3 DEF Push
  <2> QED
    BY <1>3, <2>1 DEF Push
<1> QED
  BY <1>1, <1>2, <1>3 DEF Next, Run

LEMMA HandlerStep == ASSUME Handler, Next PROVE Handler'
<1> USE DEF Handler, Results
<1>1. CASE Others
  BY <1>1, PushAssumption DEF Others
<1>2. CASE Invoke
  BY <1>2, PushAssumption DEF Invoke
<1>3. CASE Info
  BY <1>3 DEF Info
<1>4. CASE CheckForeign
  BY <1>4 DEF CheckForeign
<1>5. CASE CheckState
  BY <1>5, RequestType DEF CheckState
<1>6. CASE Push
  <2>1. Head(todo) \in Remotes /\ Tail(todo) \in Seq(Remotes)
    BY <1>6 DEF Push
  <2>2. upstream' \in Remotes \cup {"none"}
    BY <1>6, <2>1 DEF Push
  <2>3. /\ pc' \in {"push", "done"} /\ (pc' = "push" <=> todo' # <<>>)
        /\ todo' \in Seq(Remotes) /\ result' \in Results
    BY <1>6, <2>1 DEF Push, Dealt
  <2> QED
    BY <1>6, <2>2, <2>3 DEF Push
<1>7. CASE Done
  BY <1>7 DEF Done
<1> QED
  BY <1>1, <1>2, <1>3, <1>4, <1>5, <1>6, <1>7 DEF Next, Run

(* The refs and the handler keep their types, and a run is pushing exactly *)
(* as long as a remote is left.                                            *)
THEOREM TypeHolds == Spec => []TypeOK
<1>1. Init => Branches
  BY DEF Init, Branches, Commits
<1>2. Init => Handler
  BY PushAssumption DEF Init, Handler, Results
<1>3. TypeOK /\ [Next]_vars => TypeOK'
  BY BranchesStep, HandlerStep DEF TypeOK, Branches, Handler
<1> QED
  BY <1>1, <1>2, <1>3, PTL DEF Spec, TypeOK

-----------------------------------------------------------------------------
(* What is lost.                                                           *)

LEMMA InitLoss == Init => LossInv
  BY DEF Init, LossInv, Progress, Permitted, Owing, UnfetchedWorkSurvives, ForeignWorkSurvives, Passed

(* A push that the policy permits and the remote takes drops only what was *)
(* fetched, or needs no lease, and nothing that is owed.                   *)
LEMMA DroppedLoss ==
  ASSUME Progress, Permitted, Owing, pc = "push", NEW r \in Remotes, Accepts(r), NEW d \in Dropped(r)
  PROVE  (d.leased => d.fetched) /\ ~d.owed
<1>1. PICK c \in remote[r] \ local :
        d = [commit |-> c, leased |-> request.mode # "allow", fetched |-> c \in tracking[r],
             owed |-> c \in owed[r] /\ request.foreign = "block" /\ r = Checked /\ ~blind]
  BY DEF Dropped
<1>2. d.commit = c /\ (d.leased <=> request.mode # "allow") /\ (d.fetched <=> c \in tracking[r])
        /\ (d.owed => c \in owed[r] /\ request.foreign = "block" /\ r = Checked /\ ~blind)
  BY <1>1
<1>3. ~d.owed
  <2>1. Forces
    BY <1>1, RequestType DEF Accepts, Forces, Progress
  <2> QED
    BY <1>2, <2>1 DEF Owing
<1>4. d.leased => d.fetched
  <2>1. ~Denied /\ request \in Requests
    BY DEF Progress, Permitted, Passed
  <2>2. CASE request.refspec = "plus"
    BY <2>1, <2>2, <1>2, RequestType DEF Denied, Forces
  <2>3. CASE request.refspec # "plus" /\ request.force
    BY <2>1, <2>3, <1>1, <1>2, RequestType DEF Accepts
  <2>4. CASE ~Forces
    BY <2>1, <2>4, <1>1, RequestType DEF Accepts, Forces
  <2> QED
    BY <2>1, <2>2, <2>3, <2>4, RequestType DEF Forces
<1> QED
  BY <1>3, <1>4

LEMMA StepLoss ==
  ASSUME LossInv, Handler, [Next]_vars
  PROVE  LossInv'
<1>0. owed' = StillOwed => \A r \in Remotes : owed'[r] \subseteq owed[r] /\ owed'[r] \subseteq tracking'[r] /\ owed'[r] \cap local' = {}
  BY DEF StillOwed
<1> USE DEF LossInv, Progress, Permitted, Passed, Denied, Forces
<1>1. CASE Others
  BY <1>0, <1>1 DEF Others, Owing, AtStake, Checked, UnfetchedWorkSurvives, ForeignWorkSurvives
<1>2. CASE Invoke
  BY <1>2 DEF Invoke, Owing, AtStake, UnfetchedWorkSurvives, ForeignWorkSurvives
<1>3. CASE Info
  BY <1>3 DEF Info, Owing, AtStake, UnfetchedWorkSurvives, ForeignWorkSurvives
<1>4. CASE CheckForeign
  <2>1. request' = request /\ pc' \in {"state", "done"} /\ pc = "foreign" /\ UNCHANGED discarded
    BY <1>4 DEF CheckForeign
  <2>2. UNCHANGED <<refs, info, owed>> /\ Checked' = Checked
    BY <1>4 DEF CheckForeign, Checked
  <2>3. Owing'
    <3>1. SUFFICES ASSUME pc' = "state", Forces, request.foreign = "block", ~blind', Checked \in Remotes
                   PROVE  owed[Checked] = {}
      BY <2>1, <2>2 DEF Owing
    <3>2. AtStake(Checked) = {}
      BY <1>4, <3>1, PushAssumption DEF CheckForeign
    <3> QED
      BY <2>1, <3>1, <3>2 DEF Owing
  <2> QED
    BY <2>1, <2>3 DEF UnfetchedWorkSurvives, ForeignWorkSurvives
<1>5. CASE CheckState
  BY <1>5 DEF CheckState, Owing, Checked, UnfetchedWorkSurvives, ForeignWorkSurvives
<1>6. CASE Push
  <2>1. pc = "push" /\ UNCHANGED <<request, info, blind>> /\ pc' \in {"push", "done"} /\ owed' = StillOwed
    BY <1>6 DEF Push, Dealt
  <2>2. \A d \in discarded' : d \in discarded \/ (Accepts(Head(todo)) /\ d \in Dropped(Head(todo)))
    BY <1>6 DEF Push
  <2>3. Head(todo) \in Remotes
    BY <2>1 DEF Handler
  <2>4. \A d \in discarded' : (d.leased => d.fetched) /\ ~d.owed
    BY <2>1, <2>2, <2>3, DroppedLoss DEF UnfetchedWorkSurvives, ForeignWorkSurvives
  <2>5. Owing'
    BY <1>0, <2>1 DEF Owing, Checked
  <2> QED
    BY <2>1, <2>4, <2>5 DEF UnfetchedWorkSurvives, ForeignWorkSurvives
<1>7. CASE UNCHANGED vars
  BY <1>7 DEF Owing, AtStake, Checked, UnfetchedWorkSurvives, ForeignWorkSurvives
<1> QED
  BY <1>1, <1>2, <1>3, <1>4, <1>5, <1>6, <1>7 DEF Next, Run, Done

(* Unless the policy allows force pushes without a lease, no push drops a  *)
(* commit that this clone had never fetched: PushPolicy.Check and the      *)
(* flags pushToRemote gives to git.                                        *)
THEOREM UnfetchedWorkSurvivesHolds == Spec => []UnfetchedWorkSurvives
  BY InitLoss, StepLoss, TypeHolds, PTL DEF Spec, LossInv, TypeOK

(* A force push that is checked drops nothing of another machine that this *)
(* clone had fetched when it was begun and that never came to the branch   *)
(* since: checkForeignWork and the loop of pushes, with everybody else at  *)
(* work in between.                                                        *)
THEOREM ForeignWorkSurvivesHolds == Spec => []ForeignWorkSurvives
  BY InitLoss, StepLoss, TypeHolds, PTL DEF Spec, LossInv, TypeOK

-----------------------------------------------------------------------------
(* What success means.                                                     *)

LEMMA RangeTail ==
  ASSUME NEW s \in Seq(Remotes), s # <<>>
  PROVE  Range(s) \subseteq {Head(s)} \cup Range(Tail(s)) /\ Tail(s) \in Seq(Remotes) /\ Head(s) \in Remotes
<1>1. \A k \in DOMAIN s : k = 1 \/ (k - 1 \in DOMAIN Tail(s) /\ s[k] = Tail(s)[k - 1])
  OBVIOUS
<1>2. Head(s) = s[1] /\ Tail(s) \in Seq(Remotes) /\ Head(s) \in Remotes
  OBVIOUS
<1> QED
  BY <1>1, <1>2 DEF Range

LEMMA InitSuccess == Init => SuccessInv
  BY DEF Init, SuccessInv, Progress, PushedSoFar, SuccessMeansEverywhere, Passed

LEMMA PushSuccess ==
  ASSUME SuccessInv, Push
  PROVE  SuccessInv'
<1> DEFINE r == Head(todo)
<1>1. /\ pc = "push" /\ todo # <<>> /\ todo \in Seq(Remotes) /\ UNCHANGED <<request, basis, local>>
      /\ todo' = Tail(todo) /\ todo' \in Seq(Remotes) /\ r \in Remotes
      /\ IF todo' # <<>> THEN pc' = "push" /\ result' = result ELSE pc' = "done"
  BY RangeTail DEF SuccessInv, Push, Dealt
<1>2. CASE failed'
  BY <1>1, <1>2 DEF SuccessInv, Progress, Passed, PushedSoFar, SuccessMeansEverywhere, Push, Dealt
<1>3. CASE ~failed'
  <2>1. ~failed /\ remote' = [remote EXCEPT ![r] = local]
    BY <1>3 DEF Push, Dealt, Errors
  <2>2. \A q \in Range(request.targets) : q \in Range(todo') \/ basis' \subseteq remote'[q]
    <3> SUFFICES ASSUME NEW q \in Range(request.targets), q \notin Range(todo')
                 PROVE  basis \subseteq remote'[q]
      BY <1>1
    <3>1. CASE q = r
      BY <2>1, <1>1, <3>1 DEF SuccessInv
    <3>2. CASE q # r
      BY <2>1, <1>1, <3>2, RangeTail DEF SuccessInv, PushedSoFar
    <3> QED
      BY <3>1, <3>2
  <2>3. todo' = <<>> => Range(todo') = {}
    BY DEF Range
  <2> QED
    BY <1>1, <2>1, <2>2, <2>3 DEF SuccessInv, Progress, Passed, PushedSoFar, SuccessMeansEverywhere
<1> QED
  BY <1>2, <1>3

LEMMA OthersSuccess ==
  ASSUME SuccessInv, Others
  PROVE  SuccessInv'
<1> USE DEF SuccessInv, Progress, PushedSoFar, SuccessMeansEverywhere
<1>1. UNCHANGED <<pc, request, failed, todo, result>>
  BY DEF Others
<1>2. basis' \subseteq basis /\ basis' \subseteq local' /\ DOMAIN remote' = Remotes
  BY DEF Others, DevCommits, DevRewrites, DevMerges, Fetch, OthersPush
<1>3. \A r \in Remotes : remote[r] \subseteq remote'[r]
  BY DEF Others, DevCommits, DevRewrites, DevMerges, Fetch, OthersPush
<1>4. Range(request.targets) \subseteq Remotes
  BY RequestType DEF Range
<1>5. PushedSoFar'
  BY <1>1, <1>2, <1>3, <1>4
<1>6. SuccessMeansEverywhere'
  BY <1>1, <1>2, <1>3, <1>4
<1> QED
  BY <1>1, <1>2, <1>5, <1>6

LEMMA StepSuccess ==
  ASSUME SuccessInv, [Next]_vars
  PROVE  SuccessInv'
<1> USE DEF SuccessInv, Progress, Passed, PushedSoFar, SuccessMeansEverywhere
<1>1. CASE Others
  BY <1>1, OthersSuccess
<1>2. CASE Invoke
  BY <1>2 DEF Invoke
<1>3. CASE Info
  BY <1>3 DEF Info
<1>4. CASE CheckForeign
  BY <1>4 DEF CheckForeign
<1>5. CASE CheckState
  <2>1. request \in Requests /\ UNCHANGED <<request, basis, local, remote>> /\ pc' \in {"push", "done"}
    BY <1>5 DEF CheckState
  <2>2. CASE pc' = "push"
    BY <1>5, <2>1, <2>2, RequestType DEF CheckState
  <2>3. CASE pc' = "done"
    BY <1>5, <2>1, <2>3 DEF CheckState
  <2> QED
    BY <2>1, <2>2, <2>3
<1>6. CASE Push
  BY <1>6, PushSuccess
<1>7. CASE UNCHANGED vars
  BY <1>7
<1> QED
  BY <1>1, <1>2, <1>3, <1>4, <1>5, <1>6, <1>7 DEF Next, Run, Done

(* A push reported as done has brought what the branch had when it began,  *)
(* less what was dropped from it meanwhile, to every remote asked for: the *)
(* loop over the remotes and its pushErrors.                               *)
THEOREM SuccessMeansEverywhereHolds == Spec => []SuccessMeansEverywhere
  BY InitSuccess, StepSuccess, PTL DEF Spec, SuccessInv

=============================================================================
