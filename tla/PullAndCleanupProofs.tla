------------------------ MODULE PullAndCleanupProofs ------------------------
(***************************************************************************)
(* Bulk pull: the developer's own rebase, the types, and uncommitted work  *)
(* on its way through a stash the trees share, for every set of trees and  *)
(* any number of actions of the developer.  Branch cleanup: what may be    *)
(* deleted, and what becomes of the commits, for every set of branches,    *)
(* any command lines and any number of actions of everybody else.  The two *)
(* share no variable.                                                      *)
(***************************************************************************)
EXTENDS BulkPull, BranchCleanup, TLAPS

-----------------------------------------------------------------------------
(* Bulk pull.                                                              *)

USE DEF shared, repo, worker, observed, vars, At, Goto, Leave

(* While the rebase is in progress the pull is refused and never aborts:   *)
(* in a repository of its own the worker has not even got that far; in a   *)
(* linked worktree, where the rebase is not seen, git refuses the pull and *)
(* the abort is not reached either.                                        *)
RebaseInv ==
  /\ DOMAIN op = Trees /\ DOMAIN pc = Trees /\ early \subseteq Trees
  /\ \A t \in early : op[t] = "dev" /\ pc[t] # "abort" /\ (t \notin Linked => pc[t] \in {"status", "state", "done"})

LEMMA InitRebase == Init => RebaseInv
  BY DEF Init, RebaseInv, AtAll

LEMMA WorkerRebase ==
  ASSUME RebaseInv, NEW t \in Trees, Worker(t)
  PROVE  RebaseInv'
<1> USE DEF RebaseInv
<1>1. CASE Inspect(t)
  BY <1>1 DEF Inspect
<1>2. CASE CheckState(t)
  BY <1>2 DEF CheckState, CheckStateOf, RebaseSeen, Proceed
<1>3. CASE Stash(t)
  BY <1>3 DEF Stash, StashOr, Proceed, Store
<1>4. CASE Pull(t)
  BY <1>4 DEF Pull, CanPull, PopNext
<1>5. CASE CheckFailure(t)
  BY <1>5 DEF CheckFailure, FailAs, PopNext, RebaseSeen
<1>6. CASE Abort(t)
  BY <1>6 DEF Abort, FailAs, PopNext
<1>7. CASE Apply(t)
  BY <1>7 DEF Apply, ApplyElse
<1>8. CASE Drop(t)
  BY <1>8 DEF Drop
<1> QED
  BY <1>1, <1>2, <1>3, <1>4, <1>5, <1>6, <1>7, <1>8 DEF Worker

LEMMA StepRebase ==
  ASSUME RebaseInv, [Next]_vars
  PROVE  RebaseInv'
<1>1. CASE Developer
  <2>1. PICK t \in Trees : DevEdits(t) \/ DevRebases(t)
    BY <1>1 DEF Developer
  <2>2. CASE DevEdits(t)
    BY <1>1, <2>2 DEF Developer, DevEdits, RebaseInv
  <2>3. CASE DevRebases(t)
    BY <1>1, <2>3 DEF Developer, DevRebases, RebaseInv
  <2> QED
    BY <2>1, <2>2, <2>3
<1>2. CASE Cancel
  BY <1>2 DEF Cancel, RebaseInv
<1>3. CASE \E t \in Trees : Worker(t)
  BY <1>3, WorkerRebase
<1>4. CASE UNCHANGED vars
  BY <1>4 DEF RebaseInv
<1> QED
  BY <1>1, <1>2, <1>3, <1>4 DEF Next, Done

(* A rebase the developer was in the middle of when the state was checked  *)
(* is never ended: processPullRepository skips it, and where it cannot see *)
(* it, in a linked worktree, does not come to abortRebaseIfNeeded.         *)
THEOREM DevRebaseSurvivesHolds == Spec => []DevRebaseSurvives
<1>1. RebaseInv => DevRebaseSurvives
  BY DEF RebaseInv, DevRebaseSurvives
<1> QED
  BY <1>1, InitRebase, StepRebase, PTL DEF Spec

LEMMA WorkerType ==
  ASSUME TypeOK, NEW t \in Trees, Worker(t)
  PROVE  TypeOK'
<1> USE DEF TypeOK
<1>1. CASE Inspect(t)
  <2>1. CASE \E status \in {"error", "no-remote", "no-upstream"} : Leave(t, status) /\ UNCHANGED dirty
    BY <1>1, <2>1 DEF Inspect, Places, Statuses
  <2>2. CASE Goto(t, "state") /\ dirty' = [dirty EXCEPT ![t] = edits[t] # {} \/ conflict[t]]
    BY <1>1, <2>2 DEF Inspect, Places
  <2> QED
    BY <1>1, <2>1, <2>2 DEF Inspect
<1>2. CASE CheckState(t)
  BY <1>2 DEF CheckState, CheckStateOf, Proceed, Places, Statuses
<1>3. CASE Stash(t)
  <2>1. Tracked(t) \in SUBSET Pieces /\ [edits EXCEPT ![t] = @ \ Tracked(t)] \in [Trees -> SUBSET Pieces]
    BY DEF Tracked
  <2>2. Append(stash, Tracked(t)) \in Seq(SUBSET Pieces)
    BY <2>1
  <2>3. stash' \in Seq(SUBSET Pieces) /\ edits' \in [Trees -> SUBSET Pieces]
    BY <1>3, <2>1, <2>2 DEF Stash, StashOr, Store
  <2>4. overlapped' \in BOOLEAN /\ stashed' \in [Trees -> BOOLEAN]
    BY <1>3 DEF Stash, StashOr, Meets
  <2>5. pc' \in [Trees -> Places] /\ result' \in [Trees -> Statuses] /\ \A u \in Trees : pc'[u] \in {"pop", "drop", "done"} => result'[u] # "none"
    BY <1>3 DEF Stash, StashOr, Proceed, Places, Statuses
  <2> QED
    BY <1>3, <2>3, <2>4, <2>5 DEF Stash, StashOr
<1>4. CASE Pull(t)
  <2>1. op' \in [Trees -> {"none", "merge", "rebase", "dev"}] /\ conflict' \in [Trees -> BOOLEAN]
    BY <1>4 DEF Pull
  <2>2. pc' \in [Trees -> Places] /\ result' \in [Trees -> Statuses]
    BY <1>4 DEF Pull, PopNext, Places, Statuses
  <2>3. \A u \in Trees : pc'[u] \in {"pop", "drop", "done"} => result'[u] # "none"
    BY <1>4 DEF Pull, PopNext
  <2> QED
    BY <1>4, <2>1, <2>2, <2>3 DEF Pull
<1>5. CASE CheckFailure(t)
  BY <1>5 DEF CheckFailure, FailAs, PopNext, Places, Statuses
<1>6. CASE Abort(t)
  <2>1. edits' \in [Trees -> SUBSET Pieces]
    BY <1>6 DEF Abort
  <2> QED
    BY <1>6, <2>1 DEF Abort, FailAs, PopNext, Places, Statuses
<1>7. CASE Apply(t)
  <2>1. edits' \in [Trees -> SUBSET Pieces]
    <3>1. stash # <<>> => Last(stash) \in SUBSET Pieces
      BY DEF Last
    <3> QED
      BY <1>7, <3>1 DEF Apply, ApplyElse
  <2>2. pc' \in [Trees -> Places] /\ conflict' \in [Trees -> BOOLEAN]
    BY <1>7 DEF Apply, ApplyElse, Places
  <2>3. \A u \in Trees : pc'[u] \in {"pop", "drop", "done"} => result'[u] # "none"
    BY <1>7 DEF Apply, ApplyElse
  <2> QED
    BY <1>7, <2>1, <2>2, <2>3 DEF Apply, ApplyElse
<1>8. CASE Drop(t)
  <2>1. stash' \in Seq(SUBSET Pieces)
    <3>1. stash # <<>> => Front(stash) \in Seq(SUBSET Pieces)
      BY DEF Front
    <3> QED
      BY <1>8, <3>1 DEF Drop
  <2>2. pc' \in [Trees -> Places] /\ popped' \subseteq Trees
    BY <1>8 DEF Drop, Places
  <2>3. \A u \in Trees : pc'[u] \in {"pop", "drop", "done"} => result'[u] # "none"
    BY <1>8 DEF Drop
  <2> QED
    BY <1>8, <2>1, <2>2, <2>3 DEF Drop
<1> QED
  BY <1>1, <1>2, <1>3, <1>4, <1>5, <1>6, <1>7, <1>8 DEF Worker

LEMMA InitType == Init => TypeOK
<1> SUFFICES ASSUME Init PROVE TypeOK
  OBVIOUS
<1>1. stash \in Seq(SUBSET Pieces) /\ edits \in [Trees -> SUBSET Pieces] /\ devSteps \in 0..DevSteps
  <2>1. <<>> \in Seq(SUBSET Pieces) /\ <<{Older}>> \in Seq(SUBSET Pieces)
    BY DEF Pieces
  <2>2. edits \in [Trees -> SUBSET Pieces]
    <3>1. edits \in [Trees -> SUBSET Trees] /\ Trees \subseteq Pieces
      BY DEF Init, Pieces
    <3> QED
      BY <3>1
  <2>3. devSteps \in 0..DevSteps
    BY PullAssumption DEF Init
  <2> QED
    BY <2>1, <2>2, <2>3 DEF Init
<1>2. made \subseteq Pieces
  <2>1. SUFFICES ASSUME NEW work, work \in made PROVE work \in Pieces
    OBVIOUS
  <2>2. CASE work = Older
    BY <2>2 DEF Pieces
  <2>3. CASE \E t \in Trees : work \in edits[t]
    BY <2>3 DEF Init, Pieces
  <2>4. work = Older \/ \E t \in Trees : work \in edits[t]
    <3> DEFINE here == UNION {edits[t] : t \in Trees}
               before == IF stash = <<>> THEN {} ELSE {Older}
    <3>1. made = here \cup before
      BY DEF Init
    <3>2. work \in before => work = Older
      OBVIOUS
    <3>3. work \in here => \E t \in Trees : work \in edits[t]
      OBVIOUS
    <3> HIDE DEF here, before
    <3> QED
      BY <2>1, <3>1, <3>2, <3>3
  <2> QED
    BY <2>2, <2>3, <2>4
<1> QED
  BY <1>1, <1>2 DEF Init, TypeOK, AtAll, Places, Statuses

LEMMA DeveloperType == ASSUME TypeOK, Developer PROVE TypeOK'
<1>1. devSteps' \in 0..DevSteps
  BY PullAssumption DEF Developer, TypeOK
<1>2. PICK t \in Trees : DevEdits(t) \/ DevRebases(t)
  BY DEF Developer
<1>3. CASE DevEdits(t)
  BY <1>1, <1>3 DEF Developer, DevEdits, TypeOK, Pieces
<1>4. CASE DevRebases(t)
  BY <1>1, <1>4 DEF Developer, DevRebases, TypeOK
<1> QED
  BY <1>2, <1>3, <1>4

(* The trees and the workers keep their types, and a worker past its pull  *)
(* has a result, whatever its stash comes to.                              *)
THEOREM TypeHolds == Spec => []TypeOK
<1>1. TypeOK /\ [Next]_vars => TypeOK'
  BY WorkerType, DeveloperType DEF Next, Cancel, Done, TypeOK
<1> QED
  BY <1>1, InitType, PTL DEF Spec

-----------------------------------------------------------------------------
(* Uncommitted work.                                                       *)

(* The worker has stashed and not come to its end.                         *)
Holding(t) == stashed[t] /\ pc[t] # "done"

(* A tree on its own: only its own edits are in it until a pop; what was   *)
(* seen dirty is dirty or in conflict, and not in conflict when it is      *)
(* stashed; a rebase is only begun in a tree without changes, so its abort  *)
(* takes away what was edited in the middle of it; and no result is given  *)
(* before the pull is over.                                                *)
TreeInv(t) ==
  /\ pc[t] \notin {"drop", "done"} => edits[t] \subseteq {t}
  /\ pc[t] = "state" /\ dirty[t] => edits[t] # {} \/ conflict[t]
  /\ pc[t] = "stash" => edits[t] # {}
  /\ pc[t] \in {"pop", "drop"} => stashed[t]
  /\ pc[t] \notin {"pop", "drop", "done"} /\ op[t] \in {"rebase", "dev"} => Tracked(t) \subseteq amid
  /\ pc[t] = "abort" => op[t] \in {"rebase", "dev"}
  /\ t \in popped => pc[t] = "done"
  /\ pc[t] \notin {"pop", "drop", "done"} => result[t] = "none"

OwnOnTop(t) == stash # <<>> /\ Last(stash) = {t}
TopTaken(t) == stash # <<>> /\ Last(stash) \subseteq edits[t] /\ (t \notin untracked => edits[t] = {t})

(* As long as no two stashes met, one worker at most holds a stash; its    *)
(* entry is on top, unless git stash made none, and what is on top when it *)
(* drops is what it applied.                                               *)
AloneInv ==
  /\ \A t, u \in Trees : Holding(t) /\ Holding(u) => t = u
  /\ \A t \in Trees \ untracked : Holding(t) => OwnOnTop(t)
  /\ \A t \in Trees : pc[t] = "drop" => TopTaken(t)

TreesInv  == \A t \in Trees : TreeInv(t)
StashInv  == ~overlapped => AloneInv
UncommittedInv == TypeOK /\ TreesInv /\ StashInv /\ WorkSurvives /\ EditsComeHome

(* git stash push and git stash pop on the stack of entries.               *)
LEMMA Pushed ==
  ASSUME NEW S, NEW s \in Seq(S), NEW x \in S
  PROVE  /\ Append(s, x) # <<>> /\ Last(Append(s, x)) = x
         /\ \A work : (\E k \in DOMAIN s : work \in s[k]) \/ work \in x => \E k \in DOMAIN Append(s, x) : work \in Append(s, x)[k]
<1> DEFINE n == Len(s)
<1>1. Append(s, x) \in Seq(S) /\ Len(Append(s, x)) = n + 1 /\ n \in Nat /\ DOMAIN s = 1..n
  OBVIOUS
<1>2. Append(s, x)[n + 1] = x /\ \A k \in 1..n : Append(s, x)[k] = s[k]
  OBVIOUS
<1>3. Append(s, x) # <<>> /\ Last(Append(s, x)) = x
  BY <1>1, <1>2 DEF Last
<1>4. ASSUME NEW work, (\E k \in DOMAIN s : work \in s[k]) \/ work \in x
      PROVE  \E k \in DOMAIN Append(s, x) : work \in Append(s, x)[k]
  <2>1. DOMAIN Append(s, x) = 1..n + 1
    BY <1>1
  <2>2. CASE work \in x
    <3>1. n + 1 \in 1..n + 1 /\ work \in Append(s, x)[n + 1]
      BY <1>1, <1>2, <2>2
    <3> QED
      BY <2>1, <3>1
  <2>3. CASE \E k \in DOMAIN s : work \in s[k]
    <3>1. PICK k \in 1..n : work \in s[k]
      BY <1>1, <2>3
    <3>2. k \in 1..n + 1 /\ work \in Append(s, x)[k]
      BY <1>1, <1>2, <3>1
    <3> QED
      BY <2>1, <3>2
  <2> QED
    BY <1>4, <2>2, <2>3
<1> QED
  BY <1>3, <1>4

LEMMA Dropped ==
  ASSUME NEW S, NEW s \in Seq(S), s # <<>>
  PROVE  \A work : (\E k \in DOMAIN s : work \in s[k]) => work \in Last(s) \/ \E k \in DOMAIN Front(s) : work \in Front(s)[k]
<1> DEFINE n == Len(s)
<1>1. n \in Nat \ {0} /\ DOMAIN s = 1..n
  OBVIOUS
<1>2. DOMAIN Front(s) = 1..n - 1 /\ \A k \in 1..n - 1 : Front(s)[k] = s[k]
  BY <1>1 DEF Front
<1>3. SUFFICES ASSUME NEW work, NEW k \in 1..n, work \in s[k]
               PROVE  work \in Last(s) \/ \E j \in DOMAIN Front(s) : work \in Front(s)[j]
  BY <1>1
<1>4. CASE k = n
  BY <1>3, <1>4 DEF Last
<1>5. CASE k # n
  <2>1. \A m \in Nat : \A i \in 1..m : i # m => i \in 1..m - 1
    OBVIOUS
  <2>2. k \in 1..n - 1
    BY <1>1, <1>3, <1>5, <2>1
  <2> QED
    BY <1>2, <1>3, <2>2
<1> QED
  BY <1>4, <1>5

(* The tree's own part.                                                    *)
LEMMA WorkerTrees ==
  ASSUME TypeOK, TreesInv, NEW t \in Trees, Worker(t)
  PROVE  TreesInv'
<1> USE DEF TypeOK
<1>1. SUFFICES ASSUME NEW u \in Trees PROVE TreeInv(u)'
  BY DEF TreesInv
<1>2. TreeInv(u) /\ TreeInv(t)
  BY DEF TreesInv
<1>3. CASE u # t
  <2>1. edits'[u] = edits[u] /\ op'[u] = op[u] /\ conflict'[u] = conflict[u] /\ pc'[u] = pc[u] /\ dirty'[u] = dirty[u]
    BY <1>3 DEF Worker, Inspect, CheckState, CheckStateOf, Proceed, Stash, StashOr, Pull, PopNext, CheckFailure, FailAs,
                Abort, Apply, ApplyElse, Drop
  <2>2. stashed'[u] = stashed[u] /\ untracked' = untracked /\ amid' = amid /\ result'[u] = result[u] /\ (u \in popped' => u \in popped)
    BY <1>3 DEF Worker, Inspect, CheckState, CheckStateOf, Proceed, Stash, StashOr, Pull, CheckFailure, FailAs, Abort, Apply, ApplyElse, Drop
  <2> QED
    BY <1>2, <2>1, <2>2 DEF TreeInv, Tracked
<1>4. SUFFICES TreeInv(t)'
  BY <1>3
<1> USE <1>2 DEF TreeInv, Tracked
<1>5. CASE Inspect(t)
  BY <1>5 DEF Inspect
<1>6. CASE CheckState(t)
  BY <1>6 DEF CheckState, CheckStateOf, RebaseSeen, Proceed
<1>7. CASE Stash(t)
  BY <1>7 DEF Stash, StashOr, Proceed
<1>8. CASE Pull(t)
  BY <1>8 DEF Pull, CanPull, PopNext
<1>9. CASE CheckFailure(t)
  BY <1>9 DEF CheckFailure, FailAs, PopNext, RebaseSeen
<1>10. CASE Abort(t)
  BY <1>10 DEF Abort, FailAs, PopNext
<1>11. CASE Apply(t)
  BY <1>11 DEF Apply, ApplyElse
<1>12. CASE Drop(t)
  BY <1>12 DEF Drop
<1> QED
  BY <1>5, <1>6, <1>7, <1>8, <1>9, <1>10, <1>11, <1>12 DEF Worker

(* A conflict once reported stays reported.                                *)
LEMMA ForfeitStays ==
  ASSUME UncommittedInv, NEW t \in Trees, Worker(t)
  PROVE  \A work : Forfeit(work) => Forfeit(work)'
<1>1. TypeOK /\ TreeInv(t)
  BY DEF UncommittedInv, TreesInv
<1>2. amid' = amid /\ amid \subseteq Trees
  BY <1>1 DEF TypeOK, Worker, Inspect, CheckState, CheckStateOf, Stash, StashOr, Pull, CheckFailure, Abort, Apply, ApplyElse, Drop
<1>3. \A u \in Trees : u # t => result'[u] = result[u]
  BY <1>1 DEF TypeOK, Worker, Inspect, CheckState, CheckStateOf, Proceed, Stash, StashOr, Pull, CheckFailure, FailAs, Abort, Apply, ApplyElse, Drop
<1>4. result[t] # "none" => result'[t] = result[t]
  <2>1. pc[t] \in {"pop", "drop", "done"} => Apply(t) \/ Drop(t)
    BY DEF Worker, Inspect, CheckState, CheckStateOf, Stash, StashOr, Pull, CheckFailure, Abort
  <2> QED
    BY <1>1, <2>1 DEF TreeInv, Apply, ApplyElse, Drop
<1> QED
  BY <1>2, <1>3, <1>4 DEF Forfeit

(* Steps of a worker that leave the stash and the edits alone.             *)
LEMMA WorkerQuiet ==
  ASSUME UncommittedInv, NEW t \in Trees, Worker(t),
         UNCHANGED <<stash, edits, untracked, made, stashed, popped, overlapped>>,
         pc[t] # "done", NEW place, place # "drop", pc' = [pc EXCEPT ![t] = place]
  PROVE  StashInv' /\ WorkSurvives' /\ EditsComeHome'
<1> USE DEF UncommittedInv
<1>1. \A u \in Trees : (Holding(u)' => Holding(u)) /\ (pc'[u] = "drop" => pc[u] = "drop")
  BY DEF TypeOK, Holding
<1>2. StashInv'
  BY <1>1 DEF StashInv, AloneInv, OwnOnTop, TopTaken
<1>3. WorkSurvives' /\ EditsComeHome'
  BY ForfeitStays DEF WorkSurvives, EditsComeHome, InStash, Forfeit
<1> QED
  BY <1>2, <1>3

(* The abort takes away what is forfeited by it.                           *)
LEMMA WorkerAbort ==
  ASSUME UncommittedInv, NEW t \in Trees, Abort(t)
  PROVE  StashInv' /\ WorkSurvives' /\ EditsComeHome'
<1>0. Worker(t)
  BY DEF Worker
<1>1. TypeOK /\ TreeInv(t) /\ pc[t] = "abort" /\ pc' = [pc EXCEPT ![t] = PopNext(t)] /\ result' = [result EXCEPT ![t] = "conflict"]
  BY DEF UncommittedInv, TreesInv, Abort, FailAs
<1>2. Tracked(t) \subseteq amid /\ edits[t] \subseteq {t} /\ t \notin popped
  BY <1>1 DEF TreeInv
<1>3. UNCHANGED <<stash, untracked, made, amid, stashed, popped, overlapped>>
  BY DEF Abort
<1>4. CASE edits' = edits
  <2>1. PopNext(t) # "drop"
    BY DEF PopNext
  <2> QED
    BY <1>0, <1>1, <1>3, <1>4, <2>1, WorkerQuiet
<1>5. CASE edits' = [edits EXCEPT ![t] = @ \ Tracked(t)]
  <2>1. \A u \in Trees : (Holding(u)' => Holding(u)) /\ (pc'[u] = "drop" => pc[u] = "drop" /\ u # t)
    BY <1>1, <1>3 DEF TypeOK, Holding, PopNext
  <2>2. StashInv'
    BY <1>1, <1>3, <1>5, <2>1 DEF UncommittedInv, StashInv, AloneInv, OwnOnTop, TopTaken, TypeOK
  <2>3. \A work \in Tracked(t) : Forfeit(work)'
    <3>1. Tracked(t) \subseteq {t}
      BY <1>2 DEF Tracked
    <3> QED
      BY <1>1, <1>2, <1>3, <3>1 DEF Forfeit, TypeOK
  <2>4. WorkSurvives'
    <3>1. \A work, u : u \in Trees /\ work \in edits[u] /\ work \notin Tracked(t) => work \in edits'[u]
      BY <1>1, <1>5 DEF TypeOK
    <3> QED
      BY <1>0, <1>3, <2>3, <3>1, ForfeitStays DEF UncommittedInv, WorkSurvives, InStash
  <2>5. EditsComeHome'
    BY <1>1, <1>2, <1>3, <1>5 DEF UncommittedInv, EditsComeHome, TypeOK
  <2> QED
    BY <2>2, <2>4, <2>5
<1> QED
  BY <1>4, <1>5 DEF Abort

(* git stash push: what leaves the tree is in the entry on top, and        *)
(* another worker that holds a stash makes the two meet.                   *)
LEMMA WorkerStash ==
  ASSUME UncommittedInv, NEW t \in Trees, Stash(t)
  PROVE  StashInv' /\ WorkSurvives' /\ EditsComeHome'
<1>0. Worker(t) /\ \A work : Forfeit(work) => Forfeit(work)'
  BY ForfeitStays DEF Worker
<1> USE DEF Stash, StashOr
<1>1. TypeOK /\ TreeInv(t) /\ pc[t] = "stash" /\ UNCHANGED <<untracked, made, popped>>
  BY DEF UncommittedInv, TreesInv
<1>2. Tracked(t) \in SUBSET Pieces
  BY <1>1 DEF TypeOK, Tracked
<1>3. SUFFICES ASSUME ~overlapped' PROVE AloneInv' /\ WorkSurvives' /\ EditsComeHome'
  BY DEF StashInv, WorkSurvives, EditsComeHome
<1>4. ~overlapped
  BY <1>3
<1>5. AloneInv /\ WorkSurvives /\ EditsComeHome
  BY <1>4 DEF UncommittedInv, StashInv
<1>6. CASE UNCHANGED <<stash, edits, stashed, overlapped>> /\ Leave(t, "error")
  BY <1>0, <1>1, <1>3, <1>6, WorkerQuiet DEF StashInv
<1>7. ASSUME overlapped' = (overlapped \/ Meets(t))
      PROVE  \A u \in Trees : u # t => ~Holding(u) /\ pc[u] # "drop"
  <2>1. ~Meets(t)
    BY <1>3, <1>7, Zenon
  <2> QED
    BY <2>1 DEF Meets, Holding, UncommittedInv, TreesInv, TreeInv
<1>8. CASE /\ Store(t) /\ UNCHANGED <<edits, stashed>> /\ Leave(t, "error")
           /\ overlapped' = (overlapped \/ Meets(t))
  <2>1. \A u \in Trees : ~Holding(u)' /\ pc'[u] # "drop"
    BY <1>1, <1>7, <1>8 DEF Holding, TypeOK
  <2>2. WorkSurvives'
    BY <1>0, <1>1, <1>2, <1>4, <1>5, <1>8, Pushed, SMTT(30) DEF TypeOK, Store, WorkSurvives, InStash
  <2>3. EditsComeHome'
    BY <1>1, <1>4, <1>5, <1>8 DEF EditsComeHome
  <2> QED
    BY <2>1, <2>2, <2>3 DEF AloneInv
<1>9. ASSUME overlapped' = (overlapped \/ Meets(t)), stashed' = [stashed EXCEPT ![t] = TRUE], Proceed(t)
      PROVE  /\ \A u \in Trees : u # t => ~Holding(u)'
             /\ \A u \in Trees : pc'[u] # "drop"
  BY <1>1, <1>7, <1>9 DEF Holding, TypeOK, Proceed
<1>10. CASE /\ Tracked(t) = {} /\ UNCHANGED <<stash, edits>>
            /\ overlapped' = (overlapped \/ Meets(t)) /\ stashed' = [stashed EXCEPT ![t] = TRUE] /\ Proceed(t)
  <2>1. t \in untracked
    BY <1>1, <1>10 DEF TreeInv, Tracked
  <2>2. AloneInv'
    BY <1>1, <1>9, <1>10, <2>1 DEF AloneInv
  <2>3. WorkSurvives' /\ EditsComeHome'
    BY <1>0, <1>1, <1>4, <1>5, <1>10 DEF WorkSurvives, EditsComeHome, InStash
  <2> QED
    BY <2>2, <2>3
<1>11. CASE /\ Tracked(t) # {} /\ Store(t) /\ edits' = [edits EXCEPT ![t] = @ \ Tracked(t)]
            /\ overlapped' = (overlapped \/ Meets(t)) /\ stashed' = [stashed EXCEPT ![t] = TRUE] /\ Proceed(t)
  <2>1. stash' # <<>> /\ Last(stash') = Tracked(t)
    BY <1>1, <1>2, <1>11, Pushed DEF TypeOK, Store
  <2>2. t \notin untracked => Tracked(t) = {t}
    BY <1>1, <1>11 DEF TreeInv, Tracked
  <2>3. AloneInv'
    BY <1>1, <1>9, <1>11, <2>1, <2>2 DEF AloneInv, OwnOnTop
  <2>4. WorkSurvives'
    <3>1. SUFFICES ASSUME NEW work \in made PROVE InStash(work)' \/ Forfeit(work)' \/ \E u \in Trees : work \in edits'[u]
      BY <1>1 DEF WorkSurvives
    <3>2. InStash(work) \/ work \in Tracked(t) => InStash(work)'
      BY <1>1, <1>2, <1>11, Pushed DEF TypeOK, Store, InStash
    <3>3. ASSUME NEW u \in Trees, work \in edits[u], work \notin Tracked(t) PROVE work \in edits'[u]
      BY <1>1, <1>11, <3>3 DEF TypeOK
    <3> QED
      BY <1>0, <1>4, <1>5, <3>2, <3>3 DEF WorkSurvives
  <2>5. EditsComeHome'
    BY <1>1, <1>4, <1>5, <1>11 DEF EditsComeHome, TypeOK, TreeInv
  <2> QED
    BY <2>3, <2>4, <2>5
<1> QED
  BY <1>1, <1>6, <1>8, <1>10, <1>11

(* git stash pop, first half: what is applied is on top.                   *)
LEMMA WorkerApply ==
  ASSUME UncommittedInv, NEW t \in Trees, Apply(t)
  PROVE  StashInv' /\ WorkSurvives' /\ EditsComeHome'
<1>0. Worker(t) /\ \A work : Forfeit(work) => Forfeit(work)'
  BY ForfeitStays DEF Worker
<1> USE DEF Apply, ApplyElse
<1>1. TypeOK /\ TreeInv(t) /\ pc[t] = "pop" /\ UNCHANGED <<stash, untracked, made, stashed, popped, overlapped>>
  BY DEF UncommittedInv, TreesInv
<1>2. Holding(t) /\ edits[t] \subseteq {t} /\ t \notin popped
  BY <1>1 DEF TreeInv, Holding
<1>3. CASE UNCHANGED edits /\ Goto(t, "done")
  BY <1>0, <1>1, <1>3, WorkerQuiet
<1>4. CASE /\ stash # <<>> /\ edits' = [edits EXCEPT ![t] = @ \cup Last(stash)]
           /\ Goto(t, "drop") \/ Goto(t, "done")
  <2>1. SUFFICES ASSUME ~overlapped PROVE AloneInv' /\ WorkSurvives' /\ EditsComeHome'
    BY <1>1 DEF StashInv, WorkSurvives, EditsComeHome
  <2>2. AloneInv /\ WorkSurvives /\ EditsComeHome
    BY <2>1 DEF UncommittedInv, StashInv
  <2>3. \A u \in Trees : Holding(u)' => Holding(u)
    BY <1>1, <1>4 DEF Holding, TypeOK
  <2>4. \A u \in Trees : pc'[u] = "drop" => u = t
    <3>1. \A u \in Trees : pc[u] = "drop" => Holding(u)
      BY DEF UncommittedInv, TreesInv, TreeInv, Holding
    <3> QED
      BY <1>1, <1>2, <1>4, <2>2, <3>1 DEF AloneInv, TypeOK
  <2>5. Last(stash) \subseteq edits'[t] /\ (t \notin untracked => edits'[t] = {t})
    BY <1>1, <1>2, <1>4, <2>2 DEF AloneInv, OwnOnTop, TypeOK
  <2>6. AloneInv'
    BY <1>1, <1>4, <2>2, <2>3, <2>4, <2>5 DEF AloneInv, OwnOnTop, TopTaken
  <2>7. WorkSurvives'
    BY <1>0, <1>1, <1>4, <2>1, <2>2 DEF WorkSurvives, InStash, TypeOK
  <2>8. EditsComeHome'
    BY <1>1, <1>2, <1>4, <2>1, <2>2 DEF EditsComeHome, TypeOK
  <2> QED
    BY <2>6, <2>7, <2>8
<1> QED
  BY <1>1, <1>3, <1>4

(* Second half: what is dropped is in the tree.                            *)
LEMMA WorkerDrop ==
  ASSUME UncommittedInv, NEW t \in Trees, Drop(t)
  PROVE  StashInv' /\ WorkSurvives' /\ EditsComeHome'
<1>0. Worker(t) /\ \A work : Forfeit(work) => Forfeit(work)'
  BY ForfeitStays DEF Worker
<1> USE DEF Drop
<1>1. TypeOK /\ TreeInv(t) /\ pc[t] = "drop" /\ UNCHANGED <<edits, untracked, made, stashed, overlapped>>
  BY DEF UncommittedInv, TreesInv
<1>2. CASE UNCHANGED <<stash, popped>>
  BY <1>0, <1>1, <1>2, WorkerQuiet
<1>3. CASE stash # <<>> /\ stash' = Front(stash) /\ popped' = popped \cup {t}
  <2>1. SUFFICES ASSUME ~overlapped PROVE AloneInv' /\ WorkSurvives' /\ EditsComeHome'
    BY <1>1 DEF StashInv, WorkSurvives, EditsComeHome
  <2>2. AloneInv /\ WorkSurvives /\ EditsComeHome
    BY <2>1 DEF UncommittedInv, StashInv
  <2>3. \A u \in Trees : ~Holding(u)' /\ pc'[u] # "drop"
    <3>1. \A u \in Trees : pc[u] = "drop" => Holding(u)
      BY DEF UncommittedInv, TreesInv, TreeInv, Holding
    <3>2. \A u \in Trees : Holding(u) => u = t
      BY <1>1, <2>2, <3>1 DEF AloneInv
    <3> QED
      BY <1>1, <3>1, <3>2 DEF TypeOK, Holding
  <2>4. Last(stash) \subseteq edits[t] /\ (t \notin untracked => edits[t] = {t})
    BY <1>1, <2>2 DEF AloneInv, TopTaken
  <2>5. WorkSurvives'
    <3>1. SUFFICES ASSUME NEW work \in made PROVE InStash(work)' \/ Forfeit(work)' \/ \E u \in Trees : work \in edits[u]
      BY <1>1 DEF WorkSurvives
    <3>2. InStash(work) => work \in Last(stash) \/ InStash(work)'
      BY <1>1, <1>3, Dropped DEF TypeOK, InStash
    <3> QED
      BY <1>0, <2>1, <2>2, <2>4, <3>2 DEF WorkSurvives
  <2>6. EditsComeHome'
    BY <1>1, <1>3, <2>1, <2>2, <2>4 DEF EditsComeHome
  <2> QED
    BY <2>3, <2>5, <2>6 DEF AloneInv
<1> QED
  BY <1>1, <1>2, <1>3

LEMMA WorkerUncommitted ==
  ASSUME UncommittedInv, NEW t \in Trees, Worker(t)
  PROVE  UncommittedInv'
<1>1. TypeOK' /\ TreesInv'
  BY WorkerType, WorkerTrees DEF UncommittedInv
<1>2. CASE Inspect(t)
  <2>1. pc[t] # "done" /\ UNCHANGED <<stash, edits, untracked, made, stashed, popped, overlapped>>
    BY <1>2 DEF Inspect
  <2>2. pc' = [pc EXCEPT ![t] = "state"] \/ pc' = [pc EXCEPT ![t] = "done"]
    BY <1>2 DEF Inspect
  <2> QED
    BY <1>1, <2>1, <2>2, WorkerQuiet DEF UncommittedInv
<1>3. CASE CheckState(t)
  <2>1. pc[t] # "done" /\ UNCHANGED <<stash, edits, untracked, made, stashed, popped, overlapped>>
    BY <1>3 DEF CheckState, CheckStateOf
  <2>2. \E place \in {"stash", "pull", "done"} : pc' = [pc EXCEPT ![t] = place]
    BY <1>3 DEF CheckState, CheckStateOf, Proceed
  <2> QED
    BY <1>1, <2>1, <2>2, WorkerQuiet DEF UncommittedInv
<1>4. CASE Pull(t)
  <2>1. pc[t] # "done" /\ UNCHANGED <<stash, edits, untracked, made, stashed, popped, overlapped>>
    BY <1>4 DEF Pull
  <2>2. \E place \in {"failed", "pop", "done"} : pc' = [pc EXCEPT ![t] = place]
    BY <1>4 DEF Pull, PopNext
  <2> QED
    BY <1>1, <2>1, <2>2, WorkerQuiet DEF UncommittedInv
<1>5. CASE CheckFailure(t)
  <2>1. pc[t] # "done" /\ UNCHANGED <<stash, edits, untracked, made, stashed, popped, overlapped>>
    BY <1>5 DEF CheckFailure
  <2>2. \E place \in {"abort", "pop", "done"} : pc' = [pc EXCEPT ![t] = place]
    BY <1>5 DEF CheckFailure, FailAs, PopNext
  <2> QED
    BY <1>1, <2>1, <2>2, WorkerQuiet DEF UncommittedInv
<1>6. CASE Stash(t) \/ Abort(t) \/ Apply(t) \/ Drop(t)
  BY <1>1, <1>6, WorkerStash, WorkerAbort, WorkerApply, WorkerDrop DEF UncommittedInv
<1> QED
  BY <1>2, <1>3, <1>4, <1>5, <1>6 DEF Worker

LEMMA DeveloperUncommitted ==
  ASSUME UncommittedInv, Developer
  PROVE  UncommittedInv'
<1>1. TypeOK' /\ TypeOK /\ UNCHANGED <<stash, untracked, worker, popped, overlapped>>
  BY DeveloperType DEF UncommittedInv, Developer, DevEdits, DevRebases
<1>2. PICK t \in Trees : DevEdits(t) \/ DevRebases(t)
  BY DEF Developer
<1>3. TreesInv'
  <2>1. CASE DevEdits(t)
    BY <1>1, <2>1 DEF DevEdits, TypeOK, UncommittedInv, TreesInv, TreeInv, Tracked
  <2>2. CASE DevRebases(t)
    BY <1>1, <2>2 DEF DevRebases, TypeOK, UncommittedInv, TreesInv, TreeInv, Tracked
  <2> QED
    BY <1>2, <2>1, <2>2
<1>4. CASE DevEdits(t)
  <2>1. edits' = [edits EXCEPT ![t] = @ \cup {t}] /\ made' = made \cup {t}
    BY <1>4 DEF DevEdits
  <2>2. StashInv'
    BY <1>1, <2>1 DEF UncommittedInv, StashInv, AloneInv, Holding, OwnOnTop, TopTaken, TypeOK
  <2>3. WorkSurvives'
    BY <1>1, <1>4, <2>1 DEF UncommittedInv, WorkSurvives, InStash, TypeOK, Forfeit, DevEdits
  <2>4. EditsComeHome'
    BY <1>1, <2>1 DEF UncommittedInv, EditsComeHome, TypeOK
  <2> QED
    BY <1>1, <1>3, <2>2, <2>3, <2>4 DEF UncommittedInv
<1>5. CASE DevRebases(t)
  BY <1>1, <1>3, <1>5 DEF DevRebases, UncommittedInv, StashInv, AloneInv, Holding, OwnOnTop, TopTaken,
     WorkSurvives, EditsComeHome, InStash, Forfeit
<1> QED
  BY <1>2, <1>4, <1>5

LEMMA InitUncommitted == Init => UncommittedInv
<1> SUFFICES ASSUME Init PROVE UncommittedInv
  OBVIOUS
<1>1. TypeOK /\ TreesInv
  BY InitType DEF Init, AtAll, TreesInv, TreeInv
<1>2. StashInv /\ EditsComeHome
  BY DEF Init, AtAll, StashInv, AloneInv, Holding, EditsComeHome
<1>3. WorkSurvives
  <2>1. SUFFICES ASSUME NEW work \in made PROVE InStash(work) \/ \E t \in Trees : work \in edits[t]
    BY DEF WorkSurvives
  <2>2. CASE \E t \in Trees : work \in edits[t]
    BY <2>2
  <2>3. CASE stash = <<{Older}>> /\ work = Older
    <3>1. 1 \in DOMAIN stash /\ work \in stash[1]
      BY <2>3
    <3> QED
      BY <3>1 DEF InStash
  <2>4. (\E t \in Trees : work \in edits[t]) \/ (stash = <<{Older}>> /\ work = Older)
    <3> DEFINE here == UNION {edits[t] : t \in Trees}
               before == IF stash = <<>> THEN {} ELSE {Older}
    <3>1. made = here \cup before
      BY DEF Init
    <3>2. work \in before => work = Older /\ stash # <<>>
      OBVIOUS
    <3>3. work \in here => \E t \in Trees : work \in edits[t]
      OBVIOUS
    <3>4. stash # <<>> => stash = <<{Older}>>
      BY DEF Init
    <3> HIDE DEF here, before
    <3> QED
      BY <2>1, <3>1, <3>2, <3>3, <3>4
  <2> QED
    BY <2>2, <2>3, <2>4
<1> QED
  BY <1>1, <1>2, <1>3 DEF UncommittedInv

LEMMA StepUncommitted == UncommittedInv /\ [Next]_vars => UncommittedInv'
<1> SUFFICES ASSUME UncommittedInv, [Next]_vars PROVE UncommittedInv'
  OBVIOUS
<1>1. CASE Cancel
  BY <1>1 DEF Cancel, UncommittedInv, TypeOK, TreesInv, TreeInv, Tracked, StashInv, AloneInv, Holding, OwnOnTop,
     TopTaken, WorkSurvives, EditsComeHome, InStash, Forfeit
<1>2. CASE UNCHANGED vars
  BY <1>2 DEF UncommittedInv, TypeOK, TreesInv, TreeInv, Tracked, StashInv, AloneInv, Holding, OwnOnTop, TopTaken,
     WorkSurvives, EditsComeHome, InStash, Forfeit
<1> QED
  BY <1>1, <1>2, WorkerUncommitted, DeveloperUncommitted DEF Next, Done

(* No uncommitted work is lost as long as no two trees of a repository     *)
(* have work in the one stash at a time (processPullRepository), whatever  *)
(* fails, is killed or cancelled, but what was edited in the middle of a   *)
(* rebase that abortRebaseIfNeeded ended.                                  *)
THEOREM WorkSurvivesHolds == Spec => []WorkSurvives
<1>1. UncommittedInv => WorkSurvives
  BY DEF UncommittedInv
<1> QED
  BY InitUncommitted, StepUncommitted, <1>1, PTL DEF Spec

(* Then, too, a pop brings a tree its own edits and nothing else.          *)
THEOREM EditsComeHomeHolds == Spec => []EditsComeHome
<1>1. UncommittedInv => EditsComeHome
  BY DEF UncommittedInv
<1> QED
  BY InitUncommitted, StepUncommitted, <1>1, PTL DEF Spec

HIDE DEF shared, repo, worker, observed, vars, At, Goto, Leave

-----------------------------------------------------------------------------
(* Branch cleanup: types.                                                  *)

Tips == [Names -> SUBSET Commits]
RefsInv ==
  /\ head \in Tips /\ tracking \in Tips /\ remote \in Tips /\ judged \in Tips
  /\ moves \in Nat /\ old \subseteq Names /\ current \in Names /\ linked \in Names \cup {None}

(* What may be deleted: a branch no pattern protects; a remote one for two *)
(* reasons only.                                                           *)
Deletable(e) == e \in Entries /\ e.name \notin Protected
Reasoned(e) == e.where = "remote" => e.reason \in {"merged", "superseded"}

BulkPhases == {"merged", "stale", "gone", "remote merged", "remote superseded"}
ReportPhases == {"analyze gone", "analyze superseded", "classify"}

(* A base that is not protected is not planned as merged into itself where *)
(* a merged branch is deleted with -d.                                     *)
BaseInv ==
  /\ req \in CleanupRequests
  /\ \A e \in plan : e.where = "local" /\ e.name = Base /\ req.mode = "bulk" => e.reason \in {"stale", "gone"}

(* What is planned and what is being looked at, in every phase.            *)
PlanInv ==
  /\ BaseInv
  /\ \A e \in plan : Deletable(e) /\ Reasoned(e)
  /\ phase \in BulkPhases => req.mode = "bulk"
  /\ phase \in ReportPhases => req.mode # "bulk"
  /\ phase = "remote merged" => todo \subseteq Names
  /\ phase = "remote superseded" => todo \subseteq Names \ Protected
  /\ phase \in {"remote merged", "remote superseded"} /\ checking # None => checking \in Names \ Protected
  /\ phase = "classify" /\ checking # None => Deletable(checking) /\ checking.where = "remote"
  /\ phase \notin {"remote merged", "remote superseded", "classify", "delete"} => checking = None

LEMMA RefsInit == CleanupAssumption /\ CleanupInit => RefsInv
  BY DEF CleanupAssumption, CleanupInit, RefsInv, Tips

LEMMA OthersRefs == ASSUME CleanupAssumption, RefsInv, Others PROVE RefsInv'
<1> USE DEF RefsInv, Tips, Others, refs, trees, command
<1>1. CASE DevCommits
  <2>1. PICK b \in {current, linked} \ {None, Base}, c \in Commits : head' = [head EXCEPT ![b] = @ \cup {c}]
    BY <1>1 DEF DevCommits
  <2>2. head' \in [Names -> SUBSET Commits]
    BY <2>1
  <2> QED
    BY <1>1, <2>2 DEF DevCommits
<1>2. CASE DevPushes
  BY <1>2 DEF DevPushes
<1>3. CASE DevFetches
  BY <1>3 DEF DevFetches
<1>4. CASE DevSwitches
  BY <1>4 DEF DevSwitches
<1>5. CASE DevEditsLinked
  BY <1>5 DEF DevEditsLinked
<1>6. CASE Create
  BY <1>6 DEF Create
<1>7. CASE WorktreeAdd
  BY <1>7 DEF WorktreeAdd
<1>8. CASE WorktreeRemove(FALSE) \/ WorktreeRemove(TRUE)
  BY <1>8 DEF WorktreeRemove
<1>9. CASE ColleaguePushes
  <2>1. PICK b \in Names, c \in Commits : remote' = [remote EXCEPT ![b] = @ \cup {c}]
    BY <1>9 DEF ColleaguePushes
  <2>2. remote' \in [Names -> SUBSET Commits]
    BY <2>1
  <2> QED
    BY <1>9, <2>2 DEF ColleaguePushes
<1>10. CASE HostDeletes
  BY <1>10 DEF HostDeletes
<1> QED
  BY <1>1, <1>2, <1>3, <1>4, <1>5, <1>6, <1>7, <1>8, <1>9, <1>10

LEMMA CleanupRefs == ASSUME RefsInv, PlanInv, Cleanup PROVE RefsInv'
<1> USE DEF RefsInv, Tips, refs, trees, account
<1>1. CASE BulkOpen \/ BulkMerged \/ BulkStale \/ BulkGone \/ PickSuperseded \/ ReadTip \/ AnalyzeList \/ AnalyzeGone
             \/ ClassifyLocal \/ CaptureTip \/ Classified \/ Decide \/ LookAgain \/ Finish
  BY <1>1 DEF BulkOpen, BulkMerged, BulkStale, BulkGone, PickSuperseded, ReadTip, AnalyzeList, AnalyzeGone,
    ClassifyLocal, CaptureTip, Classified, Decide, LookAgain, Finish, InPhase, Reads
<1>2. CASE Prune
  BY <1>2 DEF Prune, InPhase
<1>3. CASE JudgeMerged
  BY <1>3 DEF JudgeMerged, InPhase, Reads
<1>4. CASE JudgeSuperseded
  BY <1>4 DEF JudgeSuperseded, InPhase, Reads
<1>5. CASE ClassifyRemote
  BY <1>5 DEF ClassifyRemote, InPhase, Reads
<1>6. CASE DeleteLocal
  BY <1>6 DEF DeleteLocal, InPhase
<1>7. CASE DeleteRemote
  BY <1>7 DEF DeleteRemote, InPhase
<1> QED
  BY <1>1, <1>2, <1>3, <1>4, <1>5, <1>6, <1>7 DEF Cleanup

LEMMA RefsStep == ASSUME CleanupAssumption, RefsInv, PlanInv, [CleanupNext]_cleanupVars PROVE RefsInv'
<1>1. CASE UNCHANGED cleanupVars
  BY <1>1 DEF cleanupVars, refs, trees, account, RefsInv
<1> QED
  BY <1>1, OthersRefs, CleanupRefs DEF CleanupNext

LEMMA PlanInit == CleanupInit => PlanInv
  BY DEF CleanupInit, PlanInv, BaseInv, BulkPhases, ReportPhases

(* What a list of local branches adds to the plan.                         *)
LEMMA AddedLocal ==
  ASSUME \A e \in plan : Deletable(e) /\ Reasoned(e), NEW list \in SUBSET Names, NEW reason \in Types, AddLocal(list, reason)
  PROVE  \A e \in plan' : e \in plan \/ (Deletable(e) /\ e.where = "local")
  BY DEF AddLocal, Screened, IsProtected, Entry, Entries, Deletable

LEMMA BaseStep == ASSUME PlanInv, [CleanupNext]_cleanupVars PROVE BaseInv'
<1>0. BaseInv
  BY DEF PlanInv
<1>1. CASE BulkMerged
  BY <1>0, <1>1 DEF BaseInv, BulkMerged, AddLocal, Entry, InPhase
<1>2. CASE BulkStale \/ BulkGone
  <2>1. req' = req /\ (plan' = plan \/ \E list : AddLocal(list, "stale") \/ AddLocal(list, "gone"))
    BY <1>2 DEF BulkStale, BulkGone, InPhase
  <2>2. \A e \in plan' : e \in plan \/ e.reason \in {"stale", "gone"}
    BY <2>1 DEF AddLocal, Entry
  <2> QED
    BY <1>0, <2>1, <2>2 DEF BaseInv
<1>3. CASE ClassifyLocal
  BY <1>3 DEF PlanInv, BaseInv, ReportPhases, ClassifyLocal, InPhase
<1>4. CASE ReadTip
  <2>1. req' = req /\ \A e \in plan' : e \in plan \/ e.where = "remote"
    <3>1. \/ plan' = plan
          \/ \E reason, sha : plan' = plan \cup {Entry(checking, "remote", reason, sha)}
      BY <1>4 DEF ReadTip
    <3>2. \A reason, sha : Entry(checking, "remote", reason, sha).where = "remote"
      BY DEF Entry
    <3>3. req' = req
      BY <1>4 DEF ReadTip, InPhase
    <3> QED
      BY <3>1, <3>2, <3>3
  <2> QED
    BY <1>0, <2>1 DEF BaseInv
<1>5. CASE ClassifyRemote
  BY <1>5 DEF PlanInv, BaseInv, ReportPhases, ClassifyRemote, InPhase
<1>6. CASE Decide
  BY <1>0, <1>6 DEF BaseInv, Decide, ConfirmBulk, Choose, InPhase
<1>7. CASE \/ BulkOpen \/ Prune \/ JudgeMerged \/ JudgeSuperseded \/ PickSuperseded \/ AnalyzeList \/ AnalyzeGone
           \/ CaptureTip \/ Classified \/ DeleteLocal \/ DeleteRemote \/ LookAgain \/ Finish
  <2>1. req' = req /\ plan' \subseteq plan
    BY <1>7 DEF BulkOpen, Prune, JudgeMerged, JudgeSuperseded, PickSuperseded, AnalyzeList, AnalyzeGone, CaptureTip, Classified,
      DeleteLocal, DeleteRemote, LookAgain, Finish, InPhase
  <2> QED
    BY <1>0, <2>1 DEF BaseInv
<1>8. CASE Others \/ UNCHANGED cleanupVars
  BY <1>0, <1>8 DEF BaseInv, Others, cleanupVars, command
<1> QED
  BY <1>1, <1>2, <1>3, <1>4, <1>5, <1>6, <1>7, <1>8 DEF CleanupNext, Cleanup

LEMMA PlanStep == ASSUME CleanupAssumption, RefsInv, PlanInv, [CleanupNext]_cleanupVars PROVE PlanInv'
<1>0. BaseInv'
  BY BaseStep
<1> USE <1>0 DEF PlanInv, BulkPhases, ReportPhases, InPhase, Reads
<1>1. CASE BulkOpen
  BY <1>1 DEF BulkOpen
<1>2. CASE BulkMerged
  <2>1. \A e \in plan' : e \in plan \/ (Deletable(e) /\ e.where = "local")
    BY <1>2, AddedLocal DEF BulkMerged, Types
  <2>2. \A e \in plan' : Deletable(e) /\ Reasoned(e)
    BY <2>1 DEF Reasoned
  <2> QED
    BY <1>2, <2>2 DEF BulkMerged
<1>3. CASE BulkStale
  <2>1. \A e \in plan' : e \in plan \/ (Deletable(e) /\ e.where = "local")
    BY <1>3, AddedLocal DEF BulkStale, Types, RefsInv
  <2>2. \A e \in plan' : Deletable(e) /\ Reasoned(e)
    BY <2>1 DEF Reasoned
  <2> QED
    BY <1>3, <2>2 DEF BulkStale
<1>4. CASE Prune
  BY <1>4 DEF Prune
<1>5. CASE BulkGone
  <2>1. Gone \subseteq Names
    BY DEF Gone, CleanupAssumption
  <2>2. \A e \in plan' : e \in plan \/ (Deletable(e) /\ e.where = "local")
    BY <1>5, <2>1, AddedLocal DEF BulkGone, Types
  <2>3. \A e \in plan' : Deletable(e) /\ Reasoned(e)
    BY <2>2 DEF Reasoned
  <2> QED
    BY <1>5, <2>3 DEF BulkGone
<1>6. CASE JudgeMerged
  BY <1>6 DEF JudgeMerged, Screened, IsProtected
<1>7. CASE JudgeSuperseded
  BY <1>7 DEF JudgeSuperseded, Screened, IsProtected
<1>8. CASE PickSuperseded
  BY <1>8 DEF PickSuperseded
<1>9. CASE ReadTip
  <2>1. checking \in Names \ Protected /\ tracking[checking] \in SUBSET Commits
    BY <1>9 DEF ReadTip, RefsInv, Tips
  <2> DEFINE e == Entry(checking, "remote", IF phase = "remote merged" THEN "merged" ELSE "superseded", tracking[checking])
  <2>2. Deletable(e) /\ Reasoned(e)
    BY <2>1 DEF Deletable, Reasoned, Entry, Entries, Types
  <2>3. \A f \in plan' : f \in plan \/ f = e
    BY <1>9 DEF ReadTip
  <2> HIDE DEF e
  <2>4. \A f \in plan' : Deletable(f) /\ Reasoned(f)
    BY <2>2, <2>3
  <2> QED
    BY <1>9, <2>4 DEF ReadTip
<1>10. CASE AnalyzeList
  BY <1>10 DEF AnalyzeList
<1>11. CASE AnalyzeGone
  BY <1>11 DEF AnalyzeGone
<1>12. CASE ClassifyLocal
  <2>1. \A e \in plan' : e \in plan \/ (Deletable(e) /\ e.where = "local")
    BY <1>12 DEF ClassifyLocal, Screened, IsProtected, Entry, Entries, Types, Deletable
  <2>2. \A e \in plan' : Deletable(e) /\ Reasoned(e)
    BY <2>1 DEF Reasoned
  <2> QED
    BY <1>12, <2>2 DEF ClassifyLocal
<1>13. CASE CaptureTip
  <2>1. PICK b \in Names : IF Screened(b) THEN checking' = Entry(b, "remote", "none", tracking[b]) ELSE UNCHANGED checking
    BY <1>13 DEF CaptureTip
  <2>2. CASE Screened(b)
    <3>1. tracking[b] \in SUBSET Commits
      BY DEF RefsInv, Tips
    <3>2. Entry(b, "remote", "none", tracking[b]) \in Entries
      BY <3>1 DEF Entry, Entries
    <3>3. Deletable(Entry(b, "remote", "none", tracking[b]))
      BY <2>2, <3>2 DEF Screened, IsProtected, Entry, Deletable
    <3>4. checking' = Entry(b, "remote", "none", tracking[b])
      BY <2>1, <2>2
    <3>5. Deletable(checking') /\ checking'.where = "remote"
      BY <3>3, <3>4 DEF Entry
    <3> QED
      BY <1>13, <3>5 DEF CaptureTip
  <2>3. CASE ~Screened(b)
    BY <1>13, <2>1, <2>3 DEF CaptureTip
  <2> QED
    BY <2>2, <2>3
<1>14. CASE ClassifyRemote
  <2>1. Deletable(checking) /\ checking.where = "remote"
    BY <1>14 DEF ClassifyRemote
  <2>2. \A why \in {"merged", "superseded"} : LET f == [checking EXCEPT !.reason = why] IN Deletable(f) /\ Reasoned(f)
    BY <2>1 DEF Deletable, Reasoned, Entries, Types
  <2>3. \A f \in plan' : f \in plan \/ \E why \in {"merged", "superseded"} : f = [checking EXCEPT !.reason = why]
    BY <1>14 DEF ClassifyRemote
  <2>4. \A f \in plan' : Deletable(f) /\ Reasoned(f)
    BY <2>2, <2>3
  <2> QED
    BY <1>14, <2>4 DEF ClassifyRemote
<1>15. CASE Classified
  BY <1>15 DEF Classified
<1>16. CASE Decide
  <2>1. \A e \in plan' : e \in plan
    BY <1>16 DEF Decide, ConfirmBulk, Choose
  <2> QED
    BY <1>16, <2>1 DEF Decide, ConfirmBulk, Choose
<1>17. CASE DeleteLocal \/ DeleteRemote \/ LookAgain \/ Finish
  BY <1>17 DEF DeleteLocal, DeleteRemote, LookAgain, Finish
<1>18. CASE Others
  BY <1>18 DEF Others, command
<1>19. CASE UNCHANGED cleanupVars
  BY <1>19 DEF cleanupVars, command
<1> QED
  BY <1>1, <1>2, <1>3, <1>4, <1>5, <1>6, <1>7, <1>8, <1>9, <1>10, <1>11, <1>12, <1>13, <1>14, <1>15, <1>16, <1>17, <1>18, <1>19
     DEF CleanupNext, Cleanup

(* What is checked out, in the main tree or in a linked one, and what the  *)
(* patterns protect stays.                                                 *)
THEOREM InUseOrProtectedStaysHolds == CleanupSpec => InUseOrProtectedStays
<1> DEFINE Stays == \A b \in Names : /\ head[b] # {} /\ head'[b] = {} => b \notin {current, linked} \cup Protected
                                     /\ moves' = moves /\ remote[b] # {} /\ remote'[b] = {} => b \notin Protected
<1>1. ASSUME RefsInv, PlanInv, CleanupNext PROVE Stays
  <2> USE <1>1 DEF RefsInv, Tips
  <2>1. ASSUME Others PROVE Stays
    <3>1. moves' # moves
      BY <2>1 DEF Others
    <3>2. \A b \in Names : head[b] # {} => head'[b] # {}
      BY <2>1 DEF Others, DevCommits, DevPushes, DevFetches, DevSwitches, DevEditsLinked, Create, WorktreeAdd, WorktreeRemove, ColleaguePushes, HostDeletes, refs
    <3> QED
      BY <3>1, <3>2
  <2>2. CASE DeleteLocal
    BY <2>2 DEF DeleteLocal, PlanInv, Open, Deletable, InUse
  <2>3. CASE DeleteRemote
    BY <2>3, ZenonT(60) DEF DeleteRemote, PlanInv, Open, Deletable
  <2>4. CASE Cleanup /\ ~DeleteLocal /\ ~DeleteRemote
    <3>1. UNCHANGED <<head, remote>>
      BY <2>4 DEF Cleanup, BulkOpen, BulkMerged, BulkStale, Prune, BulkGone, JudgeMerged, JudgeSuperseded, PickSuperseded, ReadTip, AnalyzeList,
        AnalyzeGone, ClassifyLocal, CaptureTip, ClassifyRemote, Classified, Decide, LookAgain, Finish, Reads, refs
    <3> QED
      BY <3>1
  <2> QED
    BY <1>1, <2>1, <2>2, <2>3, <2>4 DEF CleanupNext
<1>2. RefsInv /\ PlanInv /\ [CleanupNext]_cleanupVars => [Stays]_cleanupVars
  BY <1>1
<1>3. CleanupInit => RefsInv /\ PlanInv
  BY CleanupAssumption, RefsInit, PlanInit
<1>4. RefsInv /\ PlanInv /\ [CleanupNext]_cleanupVars => RefsInv' /\ PlanInv'
  BY CleanupAssumption, RefsStep, PlanStep
<1> QED
  BY <1>2, <1>3, <1>4, PTL DEF CleanupSpec, InUseOrProtectedStays

-----------------------------------------------------------------------------
(* Branch cleanup: commits.                                                *)

(* A tip read for the lease: its commits are somewhere or given up, and    *)
(* while the remote still has it so does the tracking ref.                 *)
Known(sha) == sha \subseteq Everywhere \cup waived
Leased(e) == Known(e.sha) /\ (remote[e.name] = e.sha /\ e.sha # {} => tracking[e.name] = e.sha)

(* What the base keeps of an entry planned as merged: the tip judged, or   *)
(* where the tip was read first that tip itself.                           *)
Backed(e) == (IF req.mode = "bulk" THEN judged[e.name] ELSE e.sha) \subseteq head[Base] \cup waived

TrackInv == \A b \in Names : tracking[b] \subseteq remote[b] \cup waived

TipInv ==
  /\ TrackInv
  /\ \A e \in plan : e.where = "remote" => Leased(e) /\ (e.reason = "merged" => Backed(e))
  /\ phase = "classify" /\ checking # None => Leased(checking) /\ checking.sha \subseteq tracking[checking.name] \cup waived
  /\ phase = "remote merged" /\ checking # None => judged[checking] \subseteq head[Base] \cup waived

(* What no step does: lose a commit that was not given up, take one back   *)
(* from what was given up, or take one off the base that was not given up. *)
Keeps == Everywhere \ Everywhere' \subseteq waived' /\ waived \subseteq waived' /\ head[Base] \subseteq head'[Base] \cup waived'

(* A tip the remote comes to have is one this clone then has as well.      *)
Follows == \A b \in Names : \A sha \in SUBSET Commits :
              (remote[b] = sha => tracking[b] = sha) /\ sha # {} /\ Known(sha) /\ remote'[b] = sha
                => tracking'[b] = sha

LEMMA InEverywhere == ASSUME NEW c PROVE c \in Everywhere <=> \E b \in Names : c \in head[b] \/ c \in tracking[b] \/ c \in remote[b]
  BY DEF Everywhere

LEMMA InEverywhereNext == ASSUME NEW c PROVE c \in Everywhere' <=> \E b \in Names : c \in head'[b] \/ c \in tracking'[b] \/ c \in remote'[b]
  BY DEF Everywhere

(* Where no branch loses a commit but to another ref or to what was given  *)
(* up, none is lost.                                                       *)
LEMMA Kept ==
  ASSUME \A b \in Names : \A c \in head[b] \cup tracking[b] \cup remote[b] :
           c \in waived' \/ \E n \in Names : c \in head'[n] \cup tracking'[n] \cup remote'[n]
  PROVE  Everywhere \ Everywhere' \subseteq waived'
  BY DEF Everywhere

LEMMA OthersKeep == ASSUME CleanupAssumption, RefsInv, TrackInv, Others PROVE Keeps /\ Follows /\ TrackInv'
<1> USE DEF RefsInv, Tips, refs, TrackInv
<1>0. Base \in Names
  BY DEF CleanupAssumption
<1> DEFINE Moved == \A b \in Names : \A c \in head[b] \cup tracking[b] \cup remote[b] :
             c \in waived' \/ \E n \in Names : c \in head'[n] \cup tracking'[n] \cup remote'[n]
<1>1. CASE DevCommits
  <2>1. \A b \in Names : head[b] \subseteq head'[b]
    BY <1>1 DEF DevCommits
  <2> QED
    BY <1>0, <1>1, <2>1, Kept DEF DevCommits, Keeps, Follows
<1>2. CASE DevPushes
  <2>1. PICK b \in Names : /\ remote[b] \subseteq head[b]
                           /\ remote' = [remote EXCEPT ![b] = head[b]] /\ tracking' = [tracking EXCEPT ![b] = head[b]]
    BY <1>2 DEF DevPushes, CleanupAssumption
  <2>2. head' = head /\ waived' = waived
    BY <1>2 DEF DevPushes
  <2>3. Moved
    BY <2>1, <2>2
  <2>4. Follows
    BY <2>1 DEF Follows
  <2>5. TrackInv'
    BY <2>1, <2>2
  <2> QED
    BY <1>0, <2>2, <2>3, <2>4, <2>5, Kept DEF Keeps
<1>3. CASE DevFetches
  <2>1. \A b \in Names : tracking'[b] = IF remote[b] # {} THEN remote[b] ELSE tracking[b]
    BY <1>3 DEF DevFetches
  <2>2. head' = head /\ waived' = waived /\ remote' = remote
    BY <1>3 DEF DevFetches
  <2>3. Moved
    BY <2>1, <2>2
  <2>4. Follows
    BY <2>1, <2>2 DEF Follows
  <2>5. TrackInv'
    BY <2>1, <2>2
  <2> QED
    BY <1>0, <2>2, <2>3, <2>4, <2>5, Kept DEF Keeps
<1>4. CASE DevSwitches \/ DevEditsLinked \/ WorktreeAdd \/ WorktreeRemove(FALSE) \/ WorktreeRemove(TRUE)
  <2>1. UNCHANGED refs /\ waived \subseteq waived'
    BY <1>4 DEF DevSwitches, DevEditsLinked, WorktreeAdd, WorktreeRemove
  <2> QED
    BY <2>1, Kept DEF Keeps, Follows
<1>5. CASE Create
  <2>1. \A b \in Names : head[b] \subseteq head'[b]
    BY <1>5 DEF Create
  <2> QED
    BY <1>0, <1>5, <2>1, Kept DEF Create, Keeps, Follows
<1>6. CASE ColleaguePushes
  <2>1. PICK b \in Names, c \in Commits \ (Everywhere \cup waived) : remote' = [remote EXCEPT ![b] = @ \cup {c}]
    BY <1>6 DEF ColleaguePushes
  <2>2. head' = head /\ waived' = waived /\ tracking' = tracking
    BY <1>6 DEF ColleaguePushes
  <2>3. \A n \in Names : remote[n] \subseteq remote'[n] /\ (remote'[n] = remote[n] \/ c \in remote'[n])
    BY <2>1
  <2>4. Moved /\ TrackInv'
    BY <2>2, <2>3
  <2>5. Follows
    BY <2>1, <2>2, <2>3 DEF Follows, Known
  <2> QED
    BY <1>0, <2>2, <2>4, <2>5, Kept DEF Keeps
<1>7. CASE HostDeletes
  <2>1. PICK b \in Names : remote' = [remote EXCEPT ![b] = {}] /\ waived' = waived \cup remote[b]
    BY <1>7 DEF HostDeletes
  <2>2. head' = head /\ tracking' = tracking
    BY <1>7 DEF HostDeletes
  <2>3. Moved /\ TrackInv'
    BY <2>1, <2>2
  <2>4. Follows
    BY <2>1, <2>2 DEF Follows
  <2> QED
    BY <1>0, <2>1, <2>2, <2>3, <2>4, Kept DEF Keeps
<1> QED
  BY <1>1, <1>2, <1>3, <1>4, <1>5, <1>6, <1>7 DEF Others

LEMMA CleanupKeeps == ASSUME CleanupAssumption, RefsInv, PlanInv, TipInv, Cleanup PROVE Keeps /\ Follows /\ TrackInv'
<1> USE DEF RefsInv, Tips, refs, account
<1>0. Base \in Names
  BY DEF CleanupAssumption
<1>t. TrackInv
  BY DEF TipInv
<1> DEFINE Moved == \A b \in Names : \A c \in head[b] \cup tracking[b] \cup remote[b] :
             c \in waived' \/ \E n \in Names : c \in head'[n] \cup tracking'[n] \cup remote'[n]
<1>1. CASE Cleanup /\ ~Prune /\ ~DeleteLocal /\ ~DeleteRemote
  <2>1. UNCHANGED <<refs, waived>>
    BY <1>1 DEF Cleanup, BulkOpen, BulkMerged, BulkStale, BulkGone, JudgeMerged, JudgeSuperseded, PickSuperseded, ReadTip, AnalyzeList,
      AnalyzeGone, ClassifyLocal, CaptureTip, ClassifyRemote, Classified, Decide, LookAgain, Finish, Reads
  <2> QED
    BY <1>t, <2>1, Kept DEF Keeps, Follows, TrackInv
<1>2. CASE Prune
  <2>1. UNCHANGED <<head, remote, waived>> /\ tracking' \in {remote, tracking}
    BY <1>2 DEF Prune
  <2>2. Moved
    BY <1>t, <2>1 DEF TrackInv
  <2> QED
    BY <1>t, <2>1, <2>2, Kept DEF Keeps, Follows, TrackInv
<1>3. CASE DeleteLocal
  <2>1. PICK e \in plan : \/ /\ e.where = "local" /\ ~InUse(e.name) /\ (Forced(e) \/ Safe(e.name))
                             /\ head' = [head EXCEPT ![e.name] = {}]
                             /\ waived' = IF Forced(e) THEN waived \cup head[e.name] ELSE waived
                          \/ UNCHANGED <<head, waived>>
    BY <1>3 DEF DeleteLocal, Open
  <2>2. UNCHANGED <<tracking, remote>> /\ waived \subseteq waived'
    BY <1>3, <2>1 DEF DeleteLocal
  <2>3. e.name \in Names \ Protected
    BY DEF PlanInv, Deletable, Entries
  <2>4. head[Base] \subseteq head'[Base] \cup waived'
    <3>1. ASSUME e.name = Base, e.where = "local" PROVE Forced(e)
      <4>1. req \in CleanupRequests /\ (req.mode = "bulk" => e.reason \in {"stale", "gone"})
        BY <3>1 DEF PlanInv, BaseInv
      <4>2. req.mode \in Modes /\ req.mode # "wizard"
        BY <2>3, <3>1, <4>1 DEF CleanupAssumption, CleanupOptions
      <4> QED
        BY <4>1, <4>2 DEF Modes, Forced
    <3> QED
      BY <1>0, <2>1, <2>3, <3>1
  <2>5. Follows /\ TrackInv'
    BY <1>t, <2>2 DEF Follows, TrackInv
  <2>6. CASE UNCHANGED <<head, waived>>
    BY <2>2, <2>4, <2>5, <2>6, Kept DEF Keeps
  <2>7. CASE /\ ~InUse(e.name) /\ (Forced(e) \/ Safe(e.name)) /\ head' = [head EXCEPT ![e.name] = {}]
             /\ waived' = IF Forced(e) THEN waived \cup head[e.name] ELSE waived
    <3>1. \A c \in head[e.name] : c \in waived' \/ c \in tracking'[e.name] \/ c \in head'[current]
      BY <2>2, <2>3, <2>7 DEF InUse, Safe
    <3>2. Moved
      BY <2>2, <2>3, <2>7, <3>1
    <3> QED
      BY <2>2, <2>4, <2>5, <3>2, Kept DEF Keeps
  <2> QED
    BY <2>1, <2>6, <2>7
<1>4. CASE DeleteRemote
  <2>1. PICK e \in plan :
          /\ e.where = "remote"
          /\ \/ /\ LeaseHolds(e) /\ e.sha # {}
                /\ remote' = [remote EXCEPT ![e.name] = {}] /\ tracking' = [tracking EXCEPT ![e.name] = {}]
                /\ waived' = waived \cup CASE e.reason = "superseded" -> e.sha
                                           [] e.reason = "merged" /\ req.mode = "bulk" -> e.sha \ judged[e.name]
                                           [] OTHER -> {}
             \/ UNCHANGED <<remote, tracking, waived>>
    BY <1>4 DEF DeleteRemote, Open
  <2>2. head' = head /\ waived \subseteq waived'
    BY <1>4, <2>1 DEF DeleteRemote
  <2>3. e.name \in Names /\ e.reason \in {"merged", "superseded"}
    BY <2>1 DEF PlanInv, Deletable, Reasoned, Entries
  <2>4. CASE UNCHANGED <<remote, tracking, waived>>
    BY <1>t, <2>2, <2>4, Kept DEF Keeps, Follows, TrackInv
  <2>5. CASE /\ LeaseHolds(e) /\ e.sha # {}
             /\ remote' = [remote EXCEPT ![e.name] = {}] /\ tracking' = [tracking EXCEPT ![e.name] = {}]
             /\ waived' = waived \cup CASE e.reason = "superseded" -> e.sha
                                        [] e.reason = "merged" /\ req.mode = "bulk" -> e.sha \ judged[e.name]
                                        [] OTHER -> {}
    <3>1. e.reason = "merged" => Backed(e)
      BY <2>1 DEF TipInv
    <3>2. \A c \in e.sha : c \in waived' \/ c \in head'[Base]
      <4>1. CASE e.reason = "superseded"
        BY <2>5, <4>1
      <4>2. CASE e.reason = "merged" /\ req.mode = "bulk"
        BY <2>2, <2>5, <3>1, <4>2 DEF Backed
      <4>3. CASE e.reason = "merged" /\ req.mode # "bulk"
        BY <2>2, <3>1, <4>3 DEF Backed
      <4> QED
        BY <2>3, <4>1, <4>2, <4>3
    <3>3. \A c \in remote[e.name] \cup tracking[e.name] : c \in waived' \/ c \in head'[Base]
      BY <1>t, <2>2, <2>3, <2>5, <3>2 DEF LeaseHolds, TrackInv
    <3>4. remote' = [remote EXCEPT ![e.name] = {}] /\ tracking' = [tracking EXCEPT ![e.name] = {}]
      BY <2>5
    <3>5. Moved
      BY <1>0, <2>2, <2>3, <3>3, <3>4
    <3>6. Follows /\ TrackInv'
      BY <1>t, <2>2, <2>3, <3>4 DEF Follows, TrackInv
    <3> QED
      BY <2>2, <3>5, <3>6, Kept DEF Keeps
  <2> QED
    BY <2>1, <2>4, <2>5
<1> QED
  BY <1>1, <1>2, <1>3, <1>4

LEMMA StepKeeps ==
  ASSUME CleanupAssumption, RefsInv, PlanInv, TipInv, [CleanupNext]_cleanupVars
  PROVE  Keeps /\ Follows /\ TrackInv'
<1>1. CASE UNCHANGED cleanupVars
  BY <1>1, Kept DEF cleanupVars, refs, account, Keeps, Follows, TrackInv, TipInv
<1>2. CASE Others
  BY <1>2, OthersKeep DEF TipInv
<1> QED
  BY <1>1, <1>2, CleanupKeeps DEF CleanupNext

(* A tip once read stays known, whatever happens to it.                    *)
LEMMA StaysLeased ==
  ASSUME Keeps, Follows, NEW e \in Entries, Leased(e)
  PROVE  Leased(e)'
<1>1. Known(e.sha)'
  BY DEF Leased, Known, Keeps
<1>2. remote'[e.name] = e.sha /\ e.sha # {} => tracking'[e.name] = e.sha
  BY DEF Leased, Follows, Entries
<1> QED
  BY <1>1, <1>2 DEF Leased


LEMMA TipInit == CleanupAssumption /\ CleanupInit => TipInv
<1> SUFFICES ASSUME CleanupAssumption, CleanupInit PROVE TipInv
  OBVIOUS
<1>1. waived = UNION {tracking[b] \ remote[b] : b \in Names}
  BY DEF CleanupInit
<1>2. TrackInv
  BY <1>1 DEF TrackInv
<1> QED
  BY <1>2 DEF CleanupInit, TipInv

(* What a step that leaves plan, verdicts and options alone keeps of them. *)
LEMMA PlanKept ==
  ASSUME RefsInv, PlanInv, TipInv, Keeps, Follows, UNCHANGED req,
         \A e \in plan : e.reason = "merged" /\ e.where = "remote" => judged'[e.name] = judged[e.name] \/ judged'[e.name] \subseteq head[Base]
  PROVE  \A e \in plan : e.where = "remote" => Leased(e)' /\ (e.reason = "merged" => Backed(e)')
<1> SUFFICES ASSUME NEW e \in plan, e.where = "remote"
             PROVE  Leased(e)' /\ (e.reason = "merged" => Backed(e)')
  OBVIOUS
<1>1. Leased(e)'
  BY StaysLeased DEF TipInv, PlanInv, Deletable
<1>2. ASSUME e.reason = "merged" PROVE Backed(e)'
  <2>1. Backed(e)
    BY <1>2 DEF TipInv
  <2>2. judged'[e.name] = judged[e.name] \/ judged'[e.name] \subseteq head[Base]
    BY <1>2
  <2> QED
    BY <2>1, <2>2 DEF Backed, Keeps
<1> QED
  BY <1>1, <1>2

LEMMA OthersTip == ASSUME CleanupAssumption, RefsInv, PlanInv, TipInv, Others PROVE TipInv'
<1>1. Keeps /\ Follows /\ TrackInv'
  BY OthersKeep DEF TipInv
<1>2. UNCHANGED <<phase, req, checking, plan, judged>>
  BY DEF Others, command
<1>3. \A e \in plan : e.where = "remote" => Leased(e)' /\ (e.reason = "merged" => Backed(e)')
  BY <1>1, <1>2, PlanKept
<1>4. ASSUME phase = "classify", checking # None PROVE Leased(checking)' /\ checking.sha \subseteq tracking'[checking.name] \cup waived'
  <2>1. checking \in Entries /\ Leased(checking) /\ checking.sha \subseteq tracking[checking.name] \cup waived
    BY <1>4 DEF PlanInv, Deletable, TipInv
  <2>2. Leased(checking)'
    <3>1. \A e \in Entries : Leased(e) => Leased(e)'
      BY <1>1, StaysLeased
    <3>2. Leased(checking)' <=> (/\ checking.sha \subseteq Everywhere' \cup waived'
                                 /\ (remote'[checking.name] = checking.sha /\ checking.sha # {} => tracking'[checking.name] = checking.sha))
      BY <1>2 DEF Leased, Known
    <3> QED
      BY <1>1, <2>1, <3>2, StaysLeased DEF Leased, Known
  <2>3. \A b \in Names : tracking[b] \subseteq tracking'[b] \cup waived'
    BY <1>1, CleanupAssumption, ZenonT(60) DEF Others, DevCommits, DevPushes, DevFetches, DevSwitches, DevEditsLinked, Create, WorktreeAdd, WorktreeRemove,
      ColleaguePushes, HostDeletes, refs, RefsInv, Tips, TipInv, TrackInv, Keeps, CleanupAssumption
  <2>4. checking.name \in Names /\ waived \subseteq waived'
    BY <1>1, <2>1 DEF Entries, Keeps
  <2> QED
    BY <2>1, <2>2, <2>3, <2>4
<1>5. ASSUME phase = "remote merged", checking # None PROVE judged[checking] \subseteq head'[Base] \cup waived'
  BY <1>1, <1>5 DEF TipInv, Keeps
<1> QED
  BY <1>1, <1>2, <1>3, <1>4, <1>5 DEF TipInv

LEMMA TrackedIsKnown == \A b \in Names : Known(tracking[b])
  BY DEF Known, Everywhere

LEMMA SameRefs == ASSUME UNCHANGED <<refs, waived>>, NEW e, Leased(e) PROVE Leased(e)'
<1>1. Everywhere' = Everywhere
  BY DEF refs, Everywhere
<1> QED
  BY <1>1 DEF Leased, Known, refs

LEMMA CleanupTip == ASSUME CleanupAssumption, RefsInv, PlanInv, TipInv, Cleanup PROVE TipInv'
<1> USE DEF InPhase
<1>1. Keeps /\ Follows /\ TrackInv'
  BY CleanupKeeps
<1>2. UNCHANGED req
  BY DEF Cleanup, BulkOpen, BulkMerged, BulkStale, Prune, BulkGone, JudgeMerged, JudgeSuperseded, PickSuperseded, ReadTip, AnalyzeList,
    AnalyzeGone, ClassifyLocal, CaptureTip, ClassifyRemote, Classified, Decide, DeleteLocal, DeleteRemote, LookAgain, Finish
<1> DEFINE New(e) == e.where = "remote" => Leased(e)' /\ (e.reason = "merged" => Backed(e)')
           PlanNext == \A e \in plan' : e.where = "remote" => Leased(e)' /\ (e.reason = "merged" => Backed(e)')
<1>3. ASSUME \A b \in Names : judged'[b] = judged[b] \/ judged'[b] \subseteq head[Base] PROVE \A e \in plan : New(e)
  <2>1. \A e \in plan : e.name \in Names
    BY DEF PlanInv, Deletable, Entries
  <2> QED
    BY <1>1, <1>2, <1>3, <2>1, PlanKept
<1>4. CASE BulkOpen \/ BulkMerged \/ BulkStale \/ Prune \/ BulkGone \/ AnalyzeList \/ AnalyzeGone \/ ClassifyLocal \/ Classified
             \/ Decide \/ DeleteLocal \/ DeleteRemote \/ LookAgain \/ Finish
  <2>1. judged' = judged
    BY <1>4 DEF BulkOpen, BulkMerged, BulkStale, Prune, BulkGone, AnalyzeList, AnalyzeGone, ClassifyLocal, Classified,
      Decide, DeleteLocal, DeleteRemote, LookAgain, Finish, account
  <2>2. \A e \in plan' : e \in plan \/ e.where = "local"
    <3>1. CASE BulkMerged \/ BulkStale \/ BulkGone
      <4>1. plan' = plan \/ \E list, reason : AddLocal(list, reason)
        BY <3>1 DEF BulkMerged, BulkStale, BulkGone
      <4> QED
        BY <4>1 DEF AddLocal, Entry
    <3>2. CASE ClassifyLocal
      BY <3>2 DEF ClassifyLocal, Entry
    <3>3. CASE Decide
      BY <3>3 DEF Decide, ConfirmBulk, Choose
    <3>4. CASE BulkOpen \/ Prune \/ AnalyzeList \/ AnalyzeGone \/ Classified \/ DeleteLocal \/ DeleteRemote \/ LookAgain \/ Finish
      BY <3>4 DEF BulkOpen, Prune, AnalyzeList, AnalyzeGone, Classified, DeleteLocal, DeleteRemote, LookAgain, Finish
    <3> QED
      BY <1>4, <3>1, <3>2, <3>3, <3>4
  <2>3. \A e \in plan : New(e)
    BY <1>3, <2>1
  <2> HIDE DEF New
  <2>4. \A e \in plan' : New(e)
    BY <2>2, <2>3 DEF New
  <2>5. PlanNext
    BY <2>4 DEF New
  <2>6. (phase' = "classify" \/ phase' = "remote merged") => checking' = None
    BY <1>4 DEF PlanInv, BulkOpen, BulkMerged, BulkStale, Prune, BulkGone, AnalyzeList, AnalyzeGone, ClassifyLocal, Classified,
      Decide, ConfirmBulk, Choose, DeleteLocal, DeleteRemote, LookAgain, Finish
  <2> QED
    BY <1>1, <2>5, <2>6 DEF TipInv
<1>5. CASE JudgeMerged
  <2>1. UNCHANGED <<refs, waived, plan, phase>> /\ phase = "remote merged" /\ todo \subseteq Names
    BY <1>5 DEF JudgeMerged, Reads, PlanInv
  <2>2. \A b \in Names : judged'[b] = judged[b] \/ judged'[b] \subseteq head[Base]
    BY <1>5, <2>1 DEF JudgeMerged, Merged, RefsInv, Tips
  <2>3. checking' # None => judged'[checking'] \subseteq head'[Base]
    BY <1>5, <2>1 DEF JudgeMerged, Merged, RefsInv, Tips, refs, PlanInv
  <2>4. PlanNext
    BY <1>3, <2>1, <2>2
  <2> QED
    BY <1>1, <2>1, <2>3, <2>4 DEF TipInv
<1>6. CASE JudgeSuperseded
  <2>1. \A e \in plan : e.where = "remote" => judged'[e.name] = judged[e.name]
    BY <1>6 DEF JudgeSuperseded, Planned, PlanInv, Deletable, Entries
  <2>2. plan' = plan /\ checking' = checking
    BY <1>6 DEF JudgeSuperseded
  <2>3. PlanNext
    BY <1>1, <1>2, <2>1, <2>2, PlanKept
  <2>4. (phase' = "classify" \/ phase' = "remote merged") => checking' = None
    BY <1>6 DEF JudgeSuperseded, PlanInv
  <2> QED
    BY <1>1, <2>3, <2>4 DEF TipInv
<1>7. CASE PickSuperseded
  <2>1. plan' = plan /\ judged' = judged /\ phase' \notin {"classify", "remote merged"}
    BY <1>7 DEF PickSuperseded
  <2>2. PlanNext
    BY <1>3, <2>1
  <2> QED
    BY <1>1, <2>1, <2>2 DEF TipInv
<1>8. CASE ReadTip
  <2>1. UNCHANGED <<refs, waived, judged>> /\ checking \in Names \ Protected /\ checking' = None /\ req.mode = "bulk"
    BY <1>8 DEF ReadTip, Reads, PlanInv, BulkPhases
  <2>2. PICK e : e = Entry(checking, "remote", IF phase = "remote merged" THEN "merged" ELSE "superseded", tracking[checking])
    OBVIOUS
  <2>3. e.name = checking /\ e.sha = tracking[checking] /\ (e.reason = "merged" => phase = "remote merged")
    BY <2>2 DEF Entry
  <2>4. \A f \in plan' : f \in plan \/ f = e
    BY <1>8, <2>2 DEF ReadTip
  <2>5. Leased(e)
    BY <2>1, <2>3, TrackedIsKnown DEF Leased
  <2>6. e.reason = "merged" => Backed(e)
    BY <2>1, <2>3 DEF Backed, TipInv, CleanupAssumption
  <2>7. Leased(e)' /\ (e.reason = "merged" => Backed(e)')
    BY <1>2, <2>1, <2>5, <2>6, SameRefs DEF Backed, refs
  <2>8. \A f \in plan : New(f)
    BY <1>3, <2>1
  <2>9. PlanNext
    BY <2>4, <2>7, <2>8
  <2> QED
    BY <1>1, <2>1, <2>9 DEF TipInv
<1>9. CASE CaptureTip
  <2>1. UNCHANGED <<refs, waived, judged, plan, phase>> /\ phase = "classify"
    BY <1>9 DEF CaptureTip, Reads
  <2>2. PlanNext
    BY <1>3, <2>1
  <2>3. ASSUME checking' # None PROVE Leased(checking)' /\ checking'.sha \subseteq tracking'[checking'.name] \cup waived'
    <3>1. PICK b \in Names : checking' = Entry(b, "remote", "none", tracking[b])
      BY <1>9, <2>3 DEF CaptureTip
    <3>2. checking'.name = b /\ checking'.sha = tracking'[b]
      BY <2>1, <3>1 DEF Entry, refs
    <3> QED
      BY <3>2 DEF Leased, Known, Everywhere
  <2> QED
    BY <1>1, <2>1, <2>2, <2>3 DEF TipInv
<1>10. CASE ClassifyRemote
  <2>1. UNCHANGED <<refs, waived, phase>> /\ phase = "classify" /\ checking # None /\ checking' = None /\ req.mode # "bulk"
    BY <1>10 DEF ClassifyRemote, Reads, PlanInv, ReportPhases
  <2>2. checking \in Entries /\ Leased(checking) /\ checking.sha \subseteq tracking[checking.name] \cup waived
    BY <2>1 DEF PlanInv, Deletable, TipInv
  <2>3. \A b \in Names : judged'[b] = judged[b] \/ judged'[b] \subseteq head[Base]
    BY <1>10, <2>2 DEF ClassifyRemote, Merged, RefsInv, Tips, Entries
  <2>4. PICK AsMerged, AsSuperseded : /\ AsMerged = [checking EXCEPT !.reason = "merged"]
                                      /\ AsSuperseded = [checking EXCEPT !.reason = "superseded"]
    OBVIOUS
  <2>5. /\ AsMerged.name = checking.name /\ AsMerged.sha = checking.sha
        /\ AsSuperseded.name = checking.name /\ AsSuperseded.sha = checking.sha /\ AsSuperseded.reason = "superseded"
    BY <2>2, <2>4 DEF Entries
  <2>6. \A f \in plan' : \/ f \in plan
                         \/ f = AsMerged /\ Merged(tracking[checking.name])
                         \/ f = AsSuperseded
    BY <1>10, <2>4 DEF ClassifyRemote
  <2>7. Leased(AsMerged) /\ Leased(AsSuperseded)
    BY <2>2, <2>5 DEF Leased
  <2>8. Leased(AsMerged)' /\ Leased(AsSuperseded)'
    BY <2>1, <2>7, SameRefs
  <2>9. Merged(tracking[checking.name]) => Backed(AsMerged)'
    BY <1>2, <2>1, <2>2, <2>5 DEF Backed, Merged, refs
  <2>10. \A f \in plan : New(f)
    BY <1>3, <2>3
  <2>11. PlanNext
    BY <2>5, <2>6, <2>8, <2>9, <2>10
  <2> QED
    BY <1>1, <2>1, <2>11 DEF TipInv
<1> QED
  BY <1>4, <1>5, <1>6, <1>7, <1>8, <1>9, <1>10 DEF Cleanup

LEMMA TipStep == ASSUME CleanupAssumption, RefsInv, PlanInv, TipInv, [CleanupNext]_cleanupVars PROVE TipInv'
<1>1. CASE UNCHANGED cleanupVars
  <2>1. \A e : Leased(e) => Leased(e)'
    BY <1>1, SameRefs DEF cleanupVars, account
  <2>2. \A e : Backed(e) => Backed(e)'
    BY <1>1 DEF cleanupVars, refs, command, account, Backed
  <2>3. UNCHANGED <<phase, checking, plan, tracking, remote, head, waived, judged>>
    BY <1>1 DEF cleanupVars, refs, command, account
  <2>4. Leased(checking) => Leased(checking)'
    BY <2>1, <2>3 DEF Leased, Known, Everywhere
  <2> QED
    BY <2>1, <2>2, <2>3, <2>4 DEF TipInv, TrackInv
<1> QED
  BY <1>1, OthersTip, CleanupTip DEF CleanupNext

(* A commit leaves every ref only where that was accepted.                 *)
THEOREM CommitsSurviveHolds == CleanupSpec => CommitsSurvive
<1>1. CleanupInit => RefsInv /\ PlanInv /\ TipInv
  BY CleanupAssumption, RefsInit, PlanInit, TipInit
<1>2. RefsInv /\ PlanInv /\ TipInv /\ [CleanupNext]_cleanupVars => RefsInv' /\ PlanInv' /\ TipInv'
  BY CleanupAssumption, RefsStep, PlanStep, TipStep
<1>3. RefsInv /\ PlanInv /\ TipInv /\ [CleanupNext]_cleanupVars => [Everywhere \ Everywhere' \subseteq waived']_cleanupVars
  BY CleanupAssumption, StepKeeps DEF Keeps
<1> QED
  BY <1>1, <1>2, <1>3, PTL DEF CleanupSpec, CommitsSurvive

(* A branch the command takes off the remote has no commit this clone has  *)
(* never fetched.                                                          *)
THEOREM UnfetchedTipsStayHolds == CleanupSpec => UnfetchedTipsStay
<1> DEFINE Fetched == \A b \in Names :
             phase = "delete" /\ phase' = phase /\ moves' = moves /\ remote[b] # remote'[b]
               => remote[b] \subseteq UNION {head[n] \cup tracking[n] : n \in Names}
<1>1. CleanupInit => RefsInv /\ PlanInv /\ TipInv
  BY CleanupAssumption, RefsInit, PlanInit, TipInit
<1>2. RefsInv /\ PlanInv /\ TipInv /\ [CleanupNext]_cleanupVars => RefsInv' /\ PlanInv' /\ TipInv'
  BY CleanupAssumption, RefsStep, PlanStep, TipStep
<1>3. ASSUME RefsInv, PlanInv, TipInv, CleanupNext PROVE Fetched
  <2> SUFFICES ASSUME NEW b \in Names, phase = "delete", moves' = moves, remote[b] # remote'[b]
               PROVE  remote[b] = tracking[b]
    BY DEF Fetched
  <2>1. ~Others
    <3>1. Others => moves' = moves + 1
      BY DEF Others
    <3>2. moves \in Nat /\ moves' = moves
      BY <1>3 DEF RefsInv
    <3> QED
      BY <3>1, <3>2
  <2>2. PICK e \in plan : e.where = "remote" /\ LeaseHolds(e) /\ e.sha # {} /\ remote' = [remote EXCEPT ![e.name] = {}]
    BY <1>3, <2>1 DEF CleanupNext, Cleanup, BulkOpen, BulkMerged, BulkStale, Prune, BulkGone, JudgeMerged, JudgeSuperseded, PickSuperseded,
      ReadTip, AnalyzeList, AnalyzeGone, ClassifyLocal, CaptureTip, ClassifyRemote, Classified, Decide, DeleteLocal, DeleteRemote, LookAgain,
      Finish, InPhase, Reads, Open, refs
  <2>3. e.name = b
    BY <1>3, <2>2 DEF RefsInv, Tips
  <2> QED
    BY <1>3, <2>2, <2>3 DEF TipInv, Leased, LeaseHolds
<1>4. RefsInv /\ PlanInv /\ TipInv /\ [CleanupNext]_cleanupVars => [Fetched]_cleanupVars
  BY <1>3
<1> QED
  BY <1>1, <1>2, <1>4, PTL DEF CleanupSpec, UnfetchedTipsStay
=============================================================================
