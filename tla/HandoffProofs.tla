--------------------------- MODULE HandoffProofs ---------------------------
(***************************************************************************)
(* Proofs about Handoff for every set of repositories and of things that   *)
(* can be lost, whatever the developer and the colleagues do between two   *)
(* steps of a command: what a zero exit of check, end and start means,     *)
(* what smart-commit holds back, and which branches of a remote end leaves *)
(* alone.                                                                  *)
(*                                                                         *)
(* The invariants: TypeInv, which includes that a remote has what a branch *)
(* tracks; PhaseInv, the command behind each phase; VerdictInv, that what  *)
(* a scan has read so far is still so in a repository nobody has touched;  *)
(* HeldInv, that what is held back keeps its repository out of the plan;   *)
(* SendInv, that a push is begun only where the policy allows; ArrivalInv, *)
(* that what was pulled is where it was pulled to.                         *)
(***************************************************************************)
EXTENDS Handoff, TLAPS

-----------------------------------------------------------------------------
(* Types.                                                                  *)

(* Every variable has its type, and what a branch tracks is on the remote. *)
Verdicts == Hard \cup Movable \cup {"stashed"}
Jobs ==
  [at : {"branch", "ahead", "stash", "tree", "send"}, branch : Branches, upstream : BOOLEAN, ahead : BOOLEAN,
   stash : BOOLEAN, report : SUBSET Verdicts,
   status : {"none", "clean", "conflicted", "dirty", "error", "success", "failed"}]
Sights ==
  [touched : SUBSET Repos, blind : SUBSET Repos, held : [Repos -> SUBSET Items], swept : [Repos -> SUBSET Items],
   pulled : [Repos -> SUBSET Items], edited : BOOLEAN]

ReposInv == repo \in [Repos -> States] /\ \A r \in Repos : Tracks(repo[r])
CommandInv ==
  /\ req \in CommandLines /\ todo \subseteq Repos /\ plan \subseteq Repos
  /\ job \in [Repos -> Jobs] /\ seen \in Sights
TypeInv == ReposInv /\ CommandInv

LEMMA TypeInvInit == HandoffAssumption /\ Init => TypeInv
<1> SUFFICES ASSUME HandoffAssumption, Init PROVE TypeInv
  OBVIOUS
<1>1. ReposInv
  BY DEF HandoffAssumption, Init, ReposInv
<1>2. NoJob \in Jobs /\ Unseen \in Sights
  BY DEF NoJob, Jobs, Unseen, Sights, Branches
<1>3. job \in [Repos -> Jobs] /\ seen \in Sights
  BY <1>2 DEF Init
<1> QED
  BY <1>1, <1>3 DEF Init, HandoffAssumption, TypeInv, CommandInv

(* A repository changes in its files, its stash, its branches, or in which *)
(* of them is checked out; no remote loses what a branch here tracks.      *)
LEMMA RepoChanged ==
  ASSUME ReposInv, NEW r \in Repos, NEW s \in States, Tracks(s), repo' = [repo EXCEPT ![r] = s]
  PROVE  ReposInv'
  BY DEF ReposInv

LEMMA OthersRepos == ASSUME HandoffAssumption, TypeInv, Others PROVE ReposInv'
<1>1. PICK r \in Repos : \/ DevEdits(r) \/ DevCommits(r) \/ DevStashes(r) \/ DevPops(r) \/ DevSwitches(r)
                         \/ MergeStops(r) \/ DevResolves(r) \/ ColleaguePushes(r)
  BY DEF Others
<1> DEFINE s == repo[r]
<1>2. s \in States /\ Tracks(s) /\ repo \in [Repos -> States] /\ Marker \in Items
  BY DEF TypeInv, ReposInv, HandoffAssumption
<1>4. s.files \in SUBSET Items /\ s.stash \in SUBSET Items /\ s.local \in [Branches -> SUBSET Items]
      /\ s.on \in Branches /\ s.merging \in {"no", "conflict", "resolved"}
  BY <1>2 DEF States
<1>5. CASE DevEdits(r) \/ DevStashes(r) \/ DevPops(r) \/ MergeStops(r) \/ DevResolves(r)
  <2>1. PICK f \in SUBSET Items, g \in SUBSET Items, m \in {"no", "conflict", "resolved"} :
          repo' = [repo EXCEPT ![r] = [s EXCEPT !.files = f, !.stash = g, !.merging = m]]
    <3>1. CASE DevEdits(r)
      <4>1. PICK i \in Items : repo' = [repo EXCEPT ![r].files = @ \cup {i}]
        BY <3>1 DEF DevEdits
      <4>2. repo' = [repo EXCEPT ![r] = [s EXCEPT !.files = s.files \cup {i}, !.stash = s.stash, !.merging = s.merging]]
        BY <1>2, <4>1 DEF States
      <4> QED
        BY <1>4, <4>2
    <3>2. CASE DevStashes(r)
      <4>1. repo' = [repo EXCEPT ![r] = [s EXCEPT !.files = {}, !.stash = s.stash \cup s.files, !.merging = s.merging]]
        BY <1>2, <3>2 DEF DevStashes, States
      <4> QED
        BY <1>4, <4>1
    <3>3. CASE DevPops(r)
      <4>1. repo' = [repo EXCEPT ![r] = [s EXCEPT !.files = s.files \cup s.stash, !.stash = {}, !.merging = s.merging]]
        BY <1>2, <3>3 DEF DevPops, States
      <4> QED
        BY <1>4, <4>1
    <3>4. CASE MergeStops(r)
      <4>1. repo' = [repo EXCEPT ![r] = [s EXCEPT !.files = s.files \cup {Marker}, !.stash = s.stash, !.merging = "conflict"]]
        BY <1>2, <3>4, ZenonT(60) DEF MergeStops, States
      <4> QED
        BY <1>2, <1>4, <4>1
    <3>5. CASE DevResolves(r)
      <4>1. repo' = [repo EXCEPT ![r] = [s EXCEPT !.files = s.files \ {Marker}, !.stash = s.stash, !.merging = "resolved"]]
        BY <1>2, <3>5 DEF DevResolves, States
      <4> QED
        BY <1>4, <4>1
    <3> QED
      BY <1>5, <3>1, <3>2, <3>3, <3>4, <3>5
  <2> DEFINE t == [s EXCEPT !.files = f, !.stash = g, !.merging = m]
  <2>3. t \in States /\ Tracks(t)
    BY <1>2 DEF States, Tracks
  <2>4. repo' = [repo EXCEPT ![r] = t]
    BY <2>1
  <2> HIDE DEF t
  <2> QED
    BY <2>3, <2>4, RepoChanged DEF TypeInv
<1>6. CASE DevCommits(r) \/ DevSwitches(r)
  <2>1. PICK f \in SUBSET Items, l \in [Branches -> SUBSET Items], b \in Branches :
          repo' = [repo EXCEPT ![r] = [s EXCEPT !.files = f, !.local = l, !.on = b, !.merging = "no"]]
    <3>1. CASE DevCommits(r)
      <4>1. repo' = [repo EXCEPT ![r] = [s EXCEPT !.files = {}, !.local = [s.local EXCEPT ![s.on] = s.local[s.on] \cup s.files],
                                                  !.on = s.on, !.merging = "no"]]
        BY <1>2, <3>1 DEF DevCommits, States
      <4>2. [s.local EXCEPT ![s.on] = s.local[s.on] \cup s.files] \in [Branches -> SUBSET Items]
        BY <1>4
      <4> QED
        BY <1>4, <4>1, <4>2
    <3>2. CASE DevSwitches(r)
      <4>1. PICK b \in Branches :
              repo' = [repo EXCEPT ![r].on = b, ![r].local["none"] = IF b = "none" THEN s.local[s.on] ELSE {}]
        BY <3>2 DEF DevSwitches
      <4> DEFINE l == [s.local EXCEPT !["none"] = IF b = "none" THEN s.local[s.on] ELSE {}]
      <4>4. [s EXCEPT !.on = b, !.local = l] = [s EXCEPT !.files = s.files, !.local = l, !.on = b, !.merging = "no"]
        BY <1>2, <3>2 DEF DevSwitches, States
      <4>5. repo' = [repo EXCEPT ![r] = [s EXCEPT !.on = b, !.local = l]]
        BY <1>2, <4>1 DEF States
      <4>2. repo' = [repo EXCEPT ![r] = [s EXCEPT !.files = s.files, !.local = l, !.on = b, !.merging = "no"]]
        BY <4>4, <4>5
      <4>3. l \in [Branches -> SUBSET Items]
        BY <1>4
      <4> QED
        BY <1>4, <4>2, <4>3
    <3> QED
      BY <1>6, <3>1, <3>2
  <2> DEFINE t == [s EXCEPT !.files = f, !.local = l, !.on = b, !.merging = "no"]
  <2>3. t \in States /\ Tracks(t)
    BY <1>2 DEF States, Tracks
  <2>4. repo' = [repo EXCEPT ![r] = t]
    BY <2>1
  <2> HIDE DEF t
  <2> QED
    BY <2>3, <2>4, RepoChanged DEF TypeInv
<1>7. CASE ColleaguePushes(r)
  <2>1. PICK i \in Items : repo' = [repo EXCEPT ![r].remote["work"] = @ \cup {i}]
    BY <1>7 DEF ColleaguePushes
  <2> DEFINE t == [s EXCEPT !.remote = [s.remote EXCEPT !["work"] = s.remote["work"] \cup {i}]]
  <2>2. repo' = [repo EXCEPT ![r] = t]
    BY <1>2, <2>1 DEF States, Branches
  <2>3. t \in States /\ Tracks(t)
    BY <1>2 DEF States, Tracks, Branches
  <2> QED
    BY <2>2, <2>3, RepoChanged DEF TypeInv
<1> QED
  BY <1>1, <1>5, <1>6, <1>7


LEMMA CommandRepos == ASSUME TypeInv, Command PROVE ReposInv'
<1>1. repo \in [Repos -> States] /\ \A r \in Repos : Tracks(repo[r]) /\ job[r].branch \in Branches
  BY DEF TypeInv, ReposInv, CommandInv, Jobs
<1>2. ASSUME NEW r \in Repos, Commit(r) PROVE ReposInv'
  <2>1. CASE UNCHANGED repo
    BY <2>1 DEF TypeInv, ReposInv
  <2>2. ASSUME NEW staged \in SUBSET repo[r].files,
               repo' = [repo EXCEPT ![r].local[repo[r].on] = @ \cup staged, ![r].files = @ \ staged, ![r].merging = "no"]
        PROVE  ReposInv'
    <3> DEFINE s == repo[r]
               t == [s EXCEPT !.local = [s.local EXCEPT ![s.on] = s.local[s.on] \cup staged],
                              !.files = s.files \ staged, !.merging = "no"]
    <3>1. repo' = [repo EXCEPT ![r] = t]
      BY <1>1, <2>2 DEF States
    <3>3. s \in States /\ Tracks(s) /\ staged \subseteq s.files
      BY <1>1, <2>2
    <3> HIDE DEF s
    <3>2. t \in States /\ Tracks(t)
      BY <3>3 DEF States, Tracks
    <3> HIDE DEF t
    <3> QED
      BY <3>1, <3>2, RepoChanged DEF TypeInv
  <2> QED
    BY <1>2, <2>1, <2>2 DEF Commit
<1>3. ASSUME NEW r \in Repos, PushSend(r) PROVE ReposInv'
  <2> DEFINE b == job[r].branch
             s == repo[r]
             away == [s EXCEPT !.remote = [s.remote EXCEPT ![b] = s.local[b]]]
  <2>0. s \in States /\ Tracks(s) /\ b \in Branches
    BY <1>1
  <2>1. CASE UNCHANGED repo
    BY <2>1 DEF TypeInv, ReposInv
  <2>2. CASE s.remote[b] \subseteq s.local[b] /\ repo' = [repo EXCEPT ![r].remote[b] = s.local[b]]
    <3>1. repo' = [repo EXCEPT ![r] = away]
      BY <1>1, <2>2 DEF States
    <3> HIDE DEF s, b
    <3>2. away \in States /\ Tracks(away)
      BY <2>0, <2>2 DEF States, Tracks
    <3> HIDE DEF away
    <3> QED
      BY <3>1, <3>2, RepoChanged DEF TypeInv
  <2>3. ASSUME s.remote[b] \subseteq s.local[b],
               repo' = [[repo EXCEPT ![r].remote[b] = s.local[b]] EXCEPT
                          ![r].tracking[b] = s.local[b], ![r].upstream = @ \/ (b = "work" /\ ~job[r].upstream)]
        PROVE  ReposInv'
    <3> DEFINE up == s.upstream \/ (b = "work" /\ ~job[r].upstream)
               back == [s EXCEPT !.remote = [s.remote EXCEPT ![b] = s.local[b]],
                                 !.tracking = [s.tracking EXCEPT ![b] = s.local[b]], !.upstream = up]
    <3>1. repo' = [repo EXCEPT ![r] = back]
      BY <1>1, <2>3 DEF States
    <3>2. up \in BOOLEAN
      BY <1>1 DEF States
    <3> HIDE DEF up, s, b
    <3>3. back \in States /\ Tracks(back)
      BY <2>0, <2>3, <3>2 DEF States, Tracks
    <3> HIDE DEF back
    <3> QED
      BY <3>1, <3>3, RepoChanged DEF TypeInv
  <2> QED
    BY <1>3, <2>1, <2>2, <2>3 DEF PushSend
<1>4. ASSUME NEW s \in States, Tracks(s) PROVE Fetched(s) \in States /\ Tracks(Fetched(s))
  BY <1>4 DEF Fetched, States, Tracks
<1>5. ASSUME NEW r \in Repos, Fetch(r) PROVE ReposInv'
  <2>1. CASE UNCHANGED repo
    BY <2>1 DEF TypeInv, ReposInv
  <2>2. CASE repo' = [repo EXCEPT ![r] = Fetched(repo[r])]
    BY <1>1, <1>4, <2>2, RepoChanged DEF TypeInv
  <2> QED
    BY <1>5, <2>1, <2>2 DEF Fetch
<1>6. ASSUME NEW r \in Repos, Pull(r) PROVE ReposInv'
  <2>1. CASE UNCHANGED repo
    BY <2>1 DEF TypeInv, ReposInv
  <2> DEFINE s == repo[r]
             t == [Fetched(s) EXCEPT !.local[s.on] = @ \cup s.remote[s.on]]
  <2>2. CASE repo' = [repo EXCEPT ![r] = t]
    <3>2. s \in States /\ Tracks(s)
      BY <1>1
    <3> HIDE DEF s
    <3>1. t \in States /\ Tracks(t)
      BY <3>2 DEF Fetched, States, Tracks
    <3> HIDE DEF t
    <3> QED
      BY <2>2, <3>1, RepoChanged DEF TypeInv
  <2> QED
    BY <1>6, <2>1, <2>2 DEF Pull
<1>7. ASSUME NEW r \in Repos,
             \/ ReadBranch(r) \/ ReadAhead(r) \/ ReadStash(r) \/ ReadTree(r) \/ Guard(r) \/ Analyze(r) \/ PushLook(r)
      PROVE  ReposInv'
  BY <1>7 DEF ReadBranch, ReadAhead, ReadStash, ReadTree, Guard, Analyze, PushLook, TypeInv, ReposInv
<1>8. CASE Scanned \/ Guarded \/ Analyzed \/ Committed \/ Editor \/ Pushed \/ Rescanned \/ FetchDone \/ PullDone
  BY <1>8 DEF Scanned, Guarded, Analyzed, Committed, Editor, Pushed, Rescanned, FetchDone, PullDone, Fixed,
              TypeInv, ReposInv
<1> QED
  BY <1>2, <1>3, <1>5, <1>6, <1>7, <1>8 DEF Command

LEMMA ReposStep == HandoffAssumption /\ TypeInv /\ [Next]_vars => ReposInv'
<1>1. UNCHANGED vars /\ TypeInv => ReposInv'
  BY DEF vars, TypeInv, ReposInv
<1> QED
  BY <1>1, OthersRepos, CommandRepos DEF Next

LEMMA CommandStep == HandoffAssumption /\ TypeInv /\ [Next]_vars => CommandInv'
<1> SUFFICES ASSUME HandoffAssumption, TypeInv, [Next]_vars PROVE CommandInv'
  OBVIOUS
<1>0. /\ CommandInv /\ repo \in [Repos -> States] /\ NoJob \in Jobs
      /\ [r \in Repos |-> NoJob] \in [Repos -> Jobs] /\ [r \in Repos |-> {}] \in [Repos -> SUBSET Items]
  BY DEF TypeInv, ReposInv, NoJob, Jobs, Branches
<1>1. ASSUME NEW r \in Repos
      PROVE  /\ repo[r].on \in Branches /\ repo[r].files \subseteq Items /\ HasUpstream(repo[r]) \in BOOLEAN
             /\ Ahead(repo[r]) \in BOOLEAN /\ (repo[r].stash # {}) \in BOOLEAN
             /\ Assess(r, repo[r]) \in SUBSET Verdicts /\ Marker \in Items
             /\ repo[r].remote[repo[r].on] \in SUBSET Items
  <2>1. repo[r] \in States
    BY <1>0
  <2> QED
    BY <2>1 DEF States, HasUpstream, Ahead, Assess, Blockers, Verdicts, Hard, Movable, HandoffAssumption
<1>2. ASSUME NEW r \in Repos, NEW j \in Jobs, job' = [job EXCEPT ![r] = j] PROVE job' \in [Repos -> Jobs]
  BY <1>0, <1>2 DEF CommandInv
<1>3. ASSUME NEW r \in Repos, ReadBranch(r) \/ ReadAhead(r) \/ ReadStash(r) \/ PushLook(r) PROVE CommandInv'
  <2>1. job' \in [Repos -> Jobs]
    <3>1. CASE ReadBranch(r)
      <4>1. \/ job' = [job EXCEPT ![r].at = "ahead", ![r].branch = repo[r].on]
            \/ job' = [job EXCEPT ![r].report = {"error"}]
        BY <3>1 DEF ReadBranch
      <4> QED
        BY <4>1, <1>0, <1>1, SMTT(30) DEF CommandInv, Jobs, Verdicts, Hard
    <3>2. CASE ReadAhead(r)
      <4>1. PICK u \in BOOLEAN, a \in BOOLEAN :
              job' = [job EXCEPT ![r].at = "stash", ![r].upstream = u, ![r].ahead = a]
        BY <3>2, <1>1 DEF ReadAhead
      <4>2. job' = [job EXCEPT ![r] = [job[r] EXCEPT !.at = "stash", !.upstream = u, !.ahead = a]]
        BY <4>1, <1>0 DEF CommandInv, Jobs
      <4>3. [job[r] EXCEPT !.at = "stash", !.upstream = u, !.ahead = a] \in Jobs
        BY <1>0 DEF CommandInv, Jobs
      <4> QED
        BY <4>2, <4>3, <1>2
    <3>3. CASE ReadStash(r)
      <4>1. PICK x \in BOOLEAN : job' = [job EXCEPT ![r].at = "tree", ![r].stash = x]
        BY <3>3, <1>1 DEF ReadStash
      <4>2. job' = [job EXCEPT ![r] = [job[r] EXCEPT !.at = "tree", !.stash = x]]
        BY <4>1, <1>0 DEF CommandInv, Jobs
      <4>3. [job[r] EXCEPT !.at = "tree", !.stash = x] \in Jobs
        BY <1>0 DEF CommandInv, Jobs
      <4> QED
        BY <4>2, <4>3, <1>2
    <3>4. CASE PushLook(r)
      <4>1. UNCHANGED job \/ \E u \in BOOLEAN :
              job' = [job EXCEPT ![r].at = "send", ![r].branch = repo[r].on, ![r].upstream = u]
        BY <3>4, <1>1 DEF PushLook
      <4>2. ASSUME NEW u \in BOOLEAN,
                   job' = [job EXCEPT ![r].at = "send", ![r].branch = repo[r].on, ![r].upstream = u]
            PROVE  job' \in [Repos -> Jobs]
        <5>1. job' = [job EXCEPT ![r] = [job[r] EXCEPT !.at = "send", !.branch = repo[r].on, !.upstream = u]]
          BY <4>2, <1>0 DEF CommandInv, Jobs
        <5>2. [job[r] EXCEPT !.at = "send", !.branch = repo[r].on, !.upstream = u] \in Jobs
          BY <1>0, <1>1 DEF CommandInv, Jobs
        <5> QED
          BY <5>1, <5>2, <1>2
      <4> QED
        BY <4>1, <4>2, <1>0 DEF CommandInv
    <3> QED
      BY <1>3, <3>1, <3>2, <3>3, <3>4
  <2>2. seen' \in Sights
    BY <1>0, <1>3 DEF ReadBranch, ReadAhead, ReadStash, PushLook, CommandInv, Sights
  <2> QED
    BY <1>0, <1>3, <2>1, <2>2 DEF ReadBranch, ReadAhead, ReadStash, PushLook, CommandInv, At, Dealt
<1>4. ASSUME NEW r \in Repos, ReadTree(r) PROVE CommandInv'
  <2>1. PICK report \in {Assess(r, repo[r]), {"error"}} :
          job' = [job EXCEPT ![r] = [NoJob EXCEPT !.branch = job[r].branch, !.report = report]]
    BY <1>4 DEF ReadTree
  <2>2. [NoJob EXCEPT !.branch = job[r].branch, !.report = report] \in Jobs
    BY <1>0, <1>1, <2>1 DEF CommandInv, Jobs, Verdicts, Hard
  <2>3. job' \in [Repos -> Jobs]
    BY <2>1, <2>2, <1>2
  <2> QED
    BY <1>0, <1>4, <2>3 DEF ReadTree, CommandInv, At, Dealt
<1>5. ASSUME NEW r \in Repos, Guard(r) \/ Analyze(r) \/ Commit(r) \/ Pull(r) PROVE CommandInv'
  <2>1. job' \in [Repos -> Jobs]
    <3>1. CASE UNCHANGED job
      BY <3>1, <1>0 DEF CommandInv
    <3>2. ASSUME NEW x \in {"none", "clean", "conflicted", "dirty", "error", "success", "failed"},
                 job' = [job EXCEPT ![r].status = x]
          PROVE  job' \in [Repos -> Jobs]
      BY <3>2, <1>0 DEF CommandInv, Jobs
    <3>3. \A diffed \in BOOLEAN : Status(repo[r], diffed) \in {"clean", "conflicted", "dirty"}
      BY DEF Status
    <3> QED
      BY <1>5, <3>1, <3>2, <3>3 DEF Guard, Analyze, Commit, Pull
  <2>2. seen' \in Sights
    <3>1. CASE Guard(r)
      <4>1. seen' = seen \/ seen' = [seen EXCEPT !.held[r] = @ \cup (repo[r].files \cap Secrets)]
        BY <3>1 DEF Guard
      <4> QED
        BY <4>1, <1>0, <1>1, SMTT(30) DEF CommandInv, Sights
    <3>2. CASE Analyze(r)
      <4>1. seen' = seen \/ seen' = [seen EXCEPT !.held[r] = @ \cup {Marker}]
        BY <3>2 DEF Analyze
      <4> QED
        BY <4>1, <1>0, <1>1, SMTT(30) DEF CommandInv, Sights
    <3>3. CASE Commit(r)
      <4>1. seen' = seen \/ \E staged \in SUBSET repo[r].files : seen' = [seen EXCEPT !.swept[r] = @ \cup staged]
        BY <3>3 DEF Commit
      <4> QED
        BY <4>1, <1>0, <1>1 DEF CommandInv, Sights
    <3>4. CASE Pull(r)
      <4>1. seen' = seen \/ seen' = [seen EXCEPT !.pulled[r] = repo[r].remote[repo[r].on]]
        BY <3>4 DEF Pull
      <4> QED
        BY <4>1, <1>0, <1>1 DEF CommandInv, Sights
    <3> QED
      BY <1>5, <3>1, <3>2, <3>3, <3>4
  <2>3. plan' \subseteq plan
    BY <1>5 DEF Guard, Analyze, Commit, Pull
  <2> QED
    BY <1>0, <1>5, <2>1, <2>2, <2>3 DEF Guard, Analyze, Commit, Pull, CommandInv, At, Dealt
<1>6. ASSUME NEW r \in Repos, PushSend(r) \/ Fetch(r) PROVE CommandInv'
  BY <1>0, <1>6 DEF PushSend, Fetch, CommandInv, At, Dealt
<1>7. Afresh => job' \in [Repos -> Jobs] /\ seen' \in Sights
  BY <1>0 DEF Afresh, CommandInv, Sights
<1>8. Allowed(Checkpoint) \subseteq Repos /\ Updatable \subseteq Repos /\ Dirty \subseteq Repos
  BY DEF Allowed, Checkpoint, Updatable, Dirty
<1>9. ASSUME NEW repos \in SUBSET Repos, CheckpointOrRescan(repos)
      PROVE  todo' \subseteq Repos /\ job' \in [Repos -> Jobs] /\ seen' \in Sights
  BY <1>0, <1>7, <1>9 DEF CheckpointOrRescan, Goto, CommandInv
<1>10. CASE Scanned
  <2>1. req' = req /\ plan' \subseteq Repos
    BY <1>0, <1>8, <1>10 DEF Scanned, Fixed, CommandInv
  <2>2. todo' \subseteq Repos /\ job' \in [Repos -> Jobs] /\ seen' \in Sights
    BY <1>0, <1>9, <1>10, <2>1 DEF Scanned, ByVerdict, Leave, Goto, CommandInv
  <2> QED
    BY <1>0, <2>1, <2>2 DEF CommandInv
<1>11. CASE Guarded
  BY <1>0, <1>9, <1>11 DEF Guarded, Fixed, ByVerdict, Leave, Screened, CommandInv
<1>12. ASSUME AfterCommit PROVE todo' \subseteq Repos /\ job' \in [Repos -> Jobs] /\ seen' \in Sights
  BY <1>0, <1>7, <1>12 DEF AfterCommit, CommitExit, Leave, Goto, Screened, CommandInv
<1>13. CASE Analyzed \/ Committed
  BY <1>0, <1>8, <1>12, <1>13 DEF Analyzed, Committed, Fixed, Goto, CommandInv
<1>14. CASE Editor
  <2>1. seen' \in Sights
    BY <1>0, <1>14 DEF Editor, CommandInv, Sights, Unseen
  <2> QED
    BY <1>0, <1>14, <2>1 DEF Editor, Fixed, Leave, Goto, CommandInv
<1>15. CASE Pushed
  BY <1>0, <1>7, <1>15 DEF Pushed, Fixed, Goto, CommandInv
<1>16. CASE Rescanned \/ PullDone
  BY <1>0, <1>16 DEF Rescanned, PullDone, Fixed, ByVerdict, Leave, CommandInv
<1>17. CASE FetchDone
  BY <1>0, <1>17 DEF FetchDone, Fixed, Goto, CommandInv, Sights
<1>18. CASE Others
  <2>1. seen' \in Sights
    BY <1>0, <1>18 DEF Others, CommandInv, Sights
  <2> QED
    BY <1>0, <1>18, <2>1 DEF Others, CommandInv
<1>19. CASE UNCHANGED vars
  BY <1>0, <1>19 DEF vars, CommandInv
<1> QED
  BY <1>3, <1>4, <1>5, <1>6, <1>10, <1>11, <1>13, <1>14, <1>15, <1>16, <1>17, <1>18, <1>19 DEF Next, Command

LEMMA TypeInvariance == Spec => []TypeInv
<1>1. Init => TypeInv
  BY HandoffAssumption, TypeInvInit
<1>2. TypeInv /\ [Next]_vars => TypeInv'
  BY HandoffAssumption, ReposStep, CommandStep DEF TypeInv
<1> QED
  BY <1>1, <1>2, PTL DEF Spec


(* Which command a phase belongs to.                                       *)
PhaseInv ==
  /\ pc = "scan" => req.cmd # "commit"
  /\ pc \in {"guard", "push", "rescan"} => req.cmd = "end"
  /\ pc \in {"analyze", "commit"} => req.cmd \in {"end", "commit"}
  /\ pc = "editor" => req.cmd = "commit"
  /\ pc \in {"fetch", "pull"} => req.cmd = "start"

LEMMA PhaseStep == TypeInv /\ PhaseInv /\ [Next]_vars => PhaseInv'
<1> SUFFICES ASSUME TypeInv, PhaseInv, [Next]_vars PROVE PhaseInv'
  OBVIOUS
<1> USE DEF PhaseInv
<1>0. req.cmd \in {"check", "end", "start", "commit"}
  BY DEF TypeInv, CommandInv, CommandLines
<1>1. ASSUME NEW r \in Repos,
             \/ ReadBranch(r) \/ ReadAhead(r) \/ ReadStash(r) \/ ReadTree(r) \/ Guard(r)
             \/ Analyze(r) \/ Commit(r) \/ PushLook(r) \/ PushSend(r) \/ Fetch(r) \/ Pull(r)
      PROVE  UNCHANGED <<pc, req>>
  BY <1>1 DEF ReadBranch, ReadAhead, ReadStash, ReadTree, Guard, Analyze, Commit, PushLook, PushSend, Fetch, Pull, At
<1>2. CASE Scanned
  BY <1>0, <1>2 DEF Scanned, Fixed, ByVerdict, Leave, Goto, CheckpointOrRescan
<1>3. CASE Guarded
  BY <1>3 DEF Guarded, Fixed, ByVerdict, Leave, Goto, CheckpointOrRescan
<1>4. CASE Analyzed \/ Committed
  BY <1>4 DEF Analyzed, Committed, Fixed, AfterCommit, CommitExit, Leave, Goto
<1>5. CASE Editor \/ Pushed \/ Rescanned \/ FetchDone \/ PullDone
  BY <1>5 DEF Editor, Pushed, Rescanned, FetchDone, PullDone, Fixed, ByVerdict, Leave, Goto
<1>6. CASE Others \/ UNCHANGED vars
  BY <1>6 DEF Others, vars
<1> QED
  BY <1>1, <1>2, <1>3, <1>4, <1>5, <1>6 DEF Next, Command

-----------------------------------------------------------------------------
(* What the command does to a repository, and what everybody else does.    *)

Touch(r) == \A q \in Repos \ {r} : repo'[q] = repo[q]

LEMMA OthersTouch ==
  ASSUME TypeInv, Others
  PROVE  \E r \in Repos : Touch(r) /\ seen' = [seen EXCEPT !.touched = @ \cup {r}]
<1>1. PICK r \in Repos :
        /\ \/ DevEdits(r) \/ DevCommits(r) \/ DevStashes(r) \/ DevPops(r) \/ DevSwitches(r)
           \/ MergeStops(r) \/ DevResolves(r) \/ ColleaguePushes(r)
        /\ seen' = [seen EXCEPT !.touched = @ \cup {r}]
  BY DEF Others
<1>2. repo \in [Repos -> States]
  BY DEF TypeInv, ReposInv
<1>3. Touch(r)
  BY <1>1, <1>2 DEF DevEdits, DevCommits, DevStashes, DevPops, DevSwitches, MergeStops, DevResolves,
                    ColleaguePushes, Touch
<1> QED
  BY <1>1, <1>3

-----------------------------------------------------------------------------
(* The verdict of a scan.                                                  *)

SafeToLeave(s) ==
  s.files = {} /\ s.stash = {} /\ s.merging = "no" /\ s.on # "none" /\ s.local[s.on] \subseteq s.tracking[s.on]

(* What the scan has read of a repository so far still holds there.        *)
ReadSoFar(j, s) ==
  /\ j.at # "branch" => j.branch = s.on
  /\ j.at \in {"stash", "tree"} /\ j.upstream => HasUpstream(s) /\ (Ahead(s) => j.ahead)
  /\ j.at = "tree" /\ s.stash # {} => j.stash

Decided == pc = "done" /\ exit = 0 /\ req.cmd \in {"check", "end"}
Judged(r) == (pc \in Scans /\ r \notin todo) \/ pc = "guard" \/ Decided

Unwatched == Repos \ (seen.touched \cup seen.blind)

VerdictInv ==
  /\ \A r \in Unwatched : pc \in Scans /\ r \in todo => ReadSoFar(job[r], repo[r])
  /\ \A r \in Unwatched : Judged(r) /\ job[r].report = {} => SafeToLeave(repo[r])
  /\ Decided => \A r \in Repos : job[r].report = {}

(* A verdict with nothing in it is right about what was read.              *)
LEMMA AssessSound ==
  ASSUME NEW r \in Repos, job[r] \in Jobs, repo[r] \in States, ReadSoFar(job[r], repo[r]),
         job[r].at = "tree", Assess(r, repo[r]) = {}
  PROVE  SafeToLeave(repo[r])
<1> DEFINE j == job[r]
           s == repo[r]
<1>1. Blockers(j, s) = {} /\ s.url /\ ~NoUpstream(j, s)
  BY DEF Assess
<1>2. /\ j.branch # "none" /\ s.merging # "conflict" /\ s.merging = "no" /\ s.files = {} /\ ~j.ahead /\ ~j.stash
  BY <1>1 DEF Blockers
<1>3. j.upstream
  BY <1>1, <1>2 DEF NoUpstream
<1>4. s.on # "none" /\ s.stash = {} /\ HasUpstream(s) /\ ~Ahead(s)
  BY <1>2, <1>3 DEF ReadSoFar
<1> QED
  BY <1>2, <1>4 DEF SafeToLeave, Ahead

LEMMA VerdictStep == TypeInv /\ PhaseInv /\ VerdictInv /\ [Next]_vars => VerdictInv'
<1> SUFFICES ASSUME TypeInv, PhaseInv, VerdictInv, [Next]_vars PROVE VerdictInv'
  OBVIOUS
<1>0. /\ repo \in [Repos -> States] /\ job \in [Repos -> Jobs] /\ todo \subseteq Repos
      /\ seen \in Sights /\ req.cmd \in {"check", "end", "start", "commit"}
  BY DEF TypeInv, ReposInv, CommandInv, CommandLines
<1>1. CASE Others
  <2>1. PICK r \in Repos : Touch(r) /\ seen' = [seen EXCEPT !.touched = @ \cup {r}]
    BY <1>1, OthersTouch
  <2>2. Unwatched' \subseteq Unwatched \ {r}
    BY <1>0, <2>1 DEF Unwatched, Sights
  <2>3. UNCHANGED <<pc, req, todo, job, exit>>
    BY <1>1 DEF Others
  <2>4. \A q \in Unwatched' : q \in Unwatched /\ repo'[q] = repo[q]
    BY <2>1, <2>2 DEF Touch, Unwatched
  <2> QED
    BY <2>3, <2>4 DEF VerdictInv, Judged, Decided
<1>2. ASSUME NEW r \in Repos, ReadBranch(r) \/ ReadAhead(r) \/ ReadStash(r) \/ ReadTree(r) PROVE VerdictInv'
  <2>1. /\ pc \in Scans /\ r \in todo /\ UNCHANGED <<pc, req, exit, repo>> /\ ~Decided /\ pc # "guard"
        /\ (todo' = todo \/ todo' = todo \ {r})
    BY <1>2 DEF ReadBranch, ReadAhead, ReadStash, ReadTree, At, Dealt, Decided, Scans
  <2>2. \A q \in Repos \ {r} : job'[q] = job[q]
    BY <1>0, <1>2 DEF ReadBranch, ReadAhead, ReadStash, ReadTree
  <2>3. seen'.touched = seen.touched /\ seen.blind \subseteq seen'.blind
    BY <1>0, <1>2 DEF ReadBranch, ReadAhead, ReadStash, ReadTree, Sights
  <2>4. Unwatched' \subseteq Unwatched
    BY <2>3 DEF Unwatched
  <2>5. \A q \in Unwatched' : q # r => /\ pc' \in Scans /\ q \in todo' => ReadSoFar(job'[q], repo'[q])
                                       /\ q \notin todo' /\ job'[q].report = {} => SafeToLeave(repo'[q])
    BY <2>1, <2>2, <2>4 DEF VerdictInv, Judged, Unwatched
  <2>6. ASSUME r \in Unwatched'
        PROVE  /\ r \in todo' => ReadSoFar(job'[r], repo'[r])
               /\ r \notin todo' /\ job'[r].report = {} => SafeToLeave(repo'[r])
    <3> DEFINE j == job[r]
               s == repo[r]
    <3>1. ReadSoFar(j, s) /\ j \in Jobs /\ s \in States /\ r \notin seen'.blind
      BY <1>0, <2>1, <2>4, <2>6 DEF VerdictInv, Unwatched
    <3>2. CASE ReadBranch(r)
      <4>1. CASE r \in todo'
        <5>1. job' = [job EXCEPT ![r].at = "ahead", ![r].branch = s.on]
          BY <3>2, <4>1 DEF ReadBranch, Dealt
        <5>2. job'[r].at = "ahead" /\ job'[r].branch = s.on
          BY <5>1, <1>0 DEF Jobs
        <5> QED
          BY <2>1, <4>1, <5>2 DEF ReadSoFar
      <4>2. CASE r \notin todo'
        <5>1. job' = [job EXCEPT ![r].report = {"error"}]
          BY <2>1, <3>2, <4>2 DEF ReadBranch
        <5>2. job'[r].report = {"error"}
          BY <5>1, <1>0 DEF Jobs
        <5> QED
          BY <4>2, <5>2
      <4> QED
        BY <4>1, <4>2
    <3>3. CASE ReadAhead(r)
      <4>1. j.at = "ahead" /\ todo' = todo
        BY <3>3 DEF ReadAhead, In
      <4>2. \/ job' = [job EXCEPT ![r].at = "stash", ![r].upstream = HasUpstream(s), ![r].ahead = Ahead(s)]
            \/ /\ job' = [job EXCEPT ![r].at = "stash", ![r].upstream = HasUpstream(s), ![r].ahead = FALSE]
               /\ ~Ahead(s)
            \/ job' = [job EXCEPT ![r].at = "stash", ![r].upstream = FALSE, ![r].ahead = FALSE]
        <5>1. Ahead(s) /\ seen' = [seen EXCEPT !.blind = IF Ahead(s) THEN @ \cup {r} ELSE @] => r \in seen'.blind
          BY <1>0 DEF Sights
        <5> QED
          BY <3>1, <3>3, <5>1 DEF ReadAhead
      <4>3. /\ job'[r].at = "stash" /\ job'[r].branch = j.branch
            /\ job'[r].upstream => HasUpstream(s) /\ (Ahead(s) => job'[r].ahead)
        BY <1>0, <4>2 DEF Jobs
      <4> QED
        BY <2>1, <3>1, <4>1, <4>3 DEF ReadSoFar
    <3>4. CASE ReadStash(r)
      <4>1. j.at = "stash" /\ todo' = todo
        BY <3>4 DEF ReadStash, In
      <4>2. \/ job' = [job EXCEPT ![r].at = "tree", ![r].stash = s.stash # {}]
            \/ job' = [job EXCEPT ![r].at = "tree", ![r].stash = FALSE] /\ s.stash = {}
        <5>1. s.stash # {} /\ seen' = [seen EXCEPT !.blind = IF s.stash # {} THEN @ \cup {r} ELSE @] => r \in seen'.blind
          BY <1>0 DEF Sights
        <5> QED
          BY <3>1, <3>4, <5>1 DEF ReadStash
      <4>3. /\ job'[r].at = "tree" /\ job'[r].branch = j.branch /\ job'[r].upstream = j.upstream
            /\ job'[r].ahead = j.ahead /\ (s.stash # {} => job'[r].stash)
        BY <1>0, <4>2 DEF Jobs
      <4> QED
        BY <2>1, <3>1, <4>1, <4>3 DEF ReadSoFar
    <3>5. CASE ReadTree(r)
      <4>1. j.at = "tree" /\ r \notin todo'
        BY <3>5 DEF ReadTree, In, Dealt
      <4>2. PICK report \in {Assess(r, s), {"error"}} :
              job' = [job EXCEPT ![r] = [NoJob EXCEPT !.branch = j.branch, !.report = report]]
        BY <3>5 DEF ReadTree
      <4>3. job'[r].report = report
        BY <4>2, <1>0 DEF NoJob
      <4> QED
        BY <2>1, <3>1, <4>1, <4>2, <4>3, AssessSound
    <3> QED
      BY <1>2, <3>2, <3>3, <3>4, <3>5
  <2> QED
    BY <2>1, <2>5, <2>6 DEF VerdictInv, Judged, Decided
<1>3. ASSUME NEW r \in Repos, Guard(r) PROVE VerdictInv'
  <2>1. pc = "guard" /\ UNCHANGED <<pc, req, exit, repo, job>>
    BY <1>3 DEF Guard, At
  <2>2. Unwatched' = Unwatched
    BY <1>0, <1>3 DEF Guard, Unwatched, Sights
  <2> QED
    BY <2>1, <2>2 DEF VerdictInv, Judged, Decided, Scans
<1>4. ASSUME pc' \notin Scans \cup {"guard"}, ~Decided' PROVE VerdictInv'
  BY <1>4 DEF VerdictInv, Judged
<1>5. ASSUME NEW r \in Repos, \/ Analyze(r) \/ Commit(r) \/ PushLook(r) \/ PushSend(r) \/ Fetch(r) \/ Pull(r)
      PROVE  VerdictInv'
  BY <1>4, <1>5 DEF Analyze, Commit, PushLook, PushSend, Fetch, Pull, At, Scans, Decided
<1>6. ASSUME Afresh, todo' = Repos, pc' = "rescan" PROVE VerdictInv'
  <2>1. \A r \in Repos : job'[r].at = "branch" /\ r \in todo'
    BY <1>6 DEF Afresh, NoJob
  <2>2. \A r \in Repos : ReadSoFar(job'[r], repo'[r])
    BY <2>1 DEF ReadSoFar
  <2> QED
    BY <1>6, <2>1, <2>2 DEF VerdictInv, Judged, Decided, Unwatched
<1>7. ASSUME ByVerdict, UNCHANGED <<repo, job, seen>>, \A r \in Repos : Judged(r) PROVE VerdictInv'
  <2>1. pc' = "done" /\ (Decided' => \A r \in Repos : job[r].report = {})
    BY <1>7 DEF ByVerdict, Leave, Verdict, Decided
  <2> QED
    BY <1>7, <2>1 DEF VerdictInv, Judged, Decided, Scans, Unwatched
<1>8. ASSUME NEW repos \in SUBSET Repos, CheckpointOrRescan(repos), UNCHANGED repo PROVE VerdictInv'
  BY <1>4, <1>6, <1>8 DEF CheckpointOrRescan, Goto, Scans, Decided
<1>9. CASE Scanned
  <2>1. pc = "scan" /\ todo = {} /\ UNCHANGED <<repo, req>> /\ \A r \in Repos : Judged(r)
    BY <1>9 DEF Scanned, Fixed, Judged, Scans
  <2>2. CASE req.cmd = "check"
    BY <1>7, <1>9, <2>1, <2>2 DEF Scanned
  <2>3. CASE req.cmd = "end"
    <3>1. CASE ~req.force
      <4>1. pc' = "guard" /\ UNCHANGED <<job, seen>>
        BY <1>9, <2>3, <3>1 DEF Scanned, Goto
      <4> QED
        BY <2>1, <4>1 DEF VerdictInv, Judged, Decided, Scans, Unwatched
    <3>2. CASE req.force /\ req.dry
      BY <1>7, <1>9, <2>1, <2>3, <3>2 DEF Scanned
    <3>3. CASE req.force /\ ~req.dry
      <4>1. CheckpointOrRescan(plan') /\ plan' \subseteq Repos
        BY <1>9, <2>3, <3>3 DEF Scanned, Allowed, Checkpoint
      <4> QED
        BY <1>8, <2>1, <4>1
    <3> QED
      BY <3>1, <3>2, <3>3
  <2>4. CASE req.cmd \notin {"check", "end"}
    BY <1>4, <1>9, <2>1, <2>4 DEF Scanned, Leave, Goto, Decided, Scans
  <2> QED
    BY <2>2, <2>3, <2>4
<1>10. CASE Guarded
  <2>1. UNCHANGED repo /\ (\A r \in Repos : Judged(r)) /\ plan \subseteq Repos
    BY <1>10 DEF Guarded, Fixed, Judged, TypeInv, CommandInv
  <2> QED
    BY <1>7, <1>8, <1>10, <2>1 DEF Guarded, Screened
<1>11. CASE Analyzed \/ Committed
  <2>1. AfterCommit \/ pc' = "commit"
    BY <1>11 DEF Analyzed, Committed, Goto
  <2>2. req.cmd \in {"end", "commit"} /\ req' = req
    BY <1>11 DEF PhaseInv, Analyzed, Committed, Fixed
  <2>3. pc' = "commit" => VerdictInv'
    BY <1>4 DEF Scans, Decided
  <2>4. ASSUME AfterCommit PROVE VerdictInv'
    <3>1. \/ pc' \in {"push", "editor"} \/ (pc' = "rescan" /\ todo' = Repos /\ Afresh) \/ (pc' = "done" /\ req.cmd = "commit")
      BY <2>2, <2>4 DEF AfterCommit, CommitExit, Leave, Goto
    <3> QED
      BY <1>4, <1>6, <2>2, <3>1 DEF Scans, Decided
  <2> QED
    BY <2>1, <2>3, <2>4
<1>12. CASE Editor
  BY <1>4, <1>12 DEF Editor, PhaseInv, Fixed, Leave, Goto, Scans, Decided
<1>13. CASE Pushed
  BY <1>6, <1>13 DEF Pushed, Goto
<1>14. CASE Rescanned
  <2>1. \A r \in Repos : Judged(r)
    BY <1>14 DEF Rescanned, Judged, Scans
  <2> QED
    BY <1>7, <1>14, <2>1 DEF Rescanned, Fixed
<1>15. CASE FetchDone \/ PullDone
  BY <1>4, <1>15 DEF FetchDone, PullDone, PhaseInv, Fixed, Leave, Goto, Scans, Decided
<1>16. CASE UNCHANGED vars
  BY <1>16 DEF vars, VerdictInv, Judged, Decided, Unwatched
<1> QED
  BY <1>1, <1>2, <1>3, <1>5, <1>9, <1>10, <1>11, <1>12, <1>13, <1>14, <1>15, <1>16 DEF Next, Command

(* When check or end exits with 0, every repository the developer left     *)
(* alone during the scan that decided it, and of which git told ahead and  *)
(* stash, has everything of the branch checked out on the remote, and      *)
(* nothing in its files or its stash.                                      *)
THEOREM ReadyMeansNothingOnlyHereHolds == Spec => []ReadyMeansNothingOnlyHere
<1>1. Init => PhaseInv /\ VerdictInv
  <2> SUFFICES ASSUME Init PROVE PhaseInv /\ VerdictInv
    OBVIOUS
  <2>1. \A r \in Repos : job[r].at = "branch" /\ r \in todo
    BY DEF Init, NoJob
  <2>2. \A r \in Repos : ReadSoFar(job[r], repo[r])
    BY <2>1 DEF ReadSoFar
  <2>3. pc = (IF req.cmd = "commit" THEN "analyze" ELSE "scan")
    BY DEF Init
  <2> QED
    BY <2>1, <2>2, <2>3 DEF PhaseInv, VerdictInv, Judged, Decided, Unwatched
<1>2. TypeInv /\ VerdictInv => ReadyMeansNothingOnlyHere
  <2> SUFFICES ASSUME TypeInv, VerdictInv, Decided, NEW r \in Unwatched
               PROVE  LET s == repo[r] IN /\ s.files = {} /\ s.stash = {} /\ s.merging = "no" /\ s.on # "none"
                                          /\ s.local[s.on] \subseteq s.remote[s.on]
    BY DEF ReadyMeansNothingOnlyHere, Decided, Unwatched
  <2>1. SafeToLeave(repo[r]) /\ r \in Repos
    BY DEF VerdictInv, Judged, Unwatched
  <2>2. repo[r] \in States /\ Tracks(repo[r])
    BY <2>1 DEF TypeInv, ReposInv
  <2> QED
    BY <2>1, <2>2 DEF SafeToLeave, Tracks, States
<1>3. Spec => []TypeInv
  BY TypeInvariance
<1> QED
  BY <1>1, <1>2, <1>3, PhaseStep, VerdictStep, PTL DEF Spec


-----------------------------------------------------------------------------
(* What is held back.                                                      *)

(* A repository with something held is out of the plan before the          *)
(* analysis, and is not dirty after it, so nothing of it is committed.     *)
HeldInv ==
  /\ \A r \in Repos : seen.swept[r] # {} => pc \notin {"scan", "guard", "analyze"}
  /\ \A r \in Repos : pc \in {"scan", "guard"} => job[r].status # "dirty"
  /\ \A r \in Repos : seen.held[r] # {} =>
       /\ pc # "scan" /\ (pc \in {"guard", "analyze", "commit"} => r \notin todo)
       /\ pc = "guard" => r \notin plan
       /\ pc \in {"guard", "analyze"} => job[r].status # "dirty"
  /\ HeldItemsStay

Counted == <<seen.held, seen.swept>>

(* The scan changes the job of the repository it reads, as far as this.    *)
LEMMA ScanJobs ==
  ASSUME job \in [Repos -> Jobs], NEW r \in Repos, ReadBranch(r) \/ ReadAhead(r) \/ ReadStash(r) \/ ReadTree(r)
  PROVE  /\ \A q \in Repos \ {r} : job'[q] = job[q]
         /\ job'[r].status \in {job[r].status, "none"} /\ job'[r].at # "send"
<1>1. CASE ReadBranch(r)
  BY <1>1 DEF ReadBranch, In, Jobs
<1>2. CASE ReadAhead(r)
  <2>2. HasUpstream(repo[r]) \in BOOLEAN /\ Ahead(repo[r]) \in BOOLEAN
    BY DEF HasUpstream, Ahead
  <2>1. \E u \in BOOLEAN, a \in BOOLEAN : job' = [job EXCEPT ![r].at = "stash", ![r].upstream = u, ![r].ahead = a]
    BY <1>2, <2>2 DEF ReadAhead
  <2> QED
    BY <2>1 DEF Jobs
<1>3. CASE ReadStash(r)
  <2>1. \E x : job' = [job EXCEPT ![r].at = "tree", ![r].stash = x]
    BY <1>3 DEF ReadStash
  <2> QED
    BY <2>1 DEF Jobs
<1>4. CASE ReadTree(r)
  <2>1. \E report : job' = [job EXCEPT ![r] = [NoJob EXCEPT !.branch = job[r].branch, !.report = report]]
    BY <1>4 DEF ReadTree
  <2> QED
    BY <2>1 DEF NoJob
<1> QED
  BY <1>1, <1>2, <1>3, <1>4

LEMMA HeldStep == TypeInv /\ PhaseInv /\ HeldInv /\ [Next]_vars => HeldInv'
<1> SUFFICES ASSUME TypeInv, PhaseInv, HeldInv, [Next]_vars PROVE HeldInv'
  OBVIOUS
<1>0. /\ job \in [Repos -> Jobs] /\ todo \subseteq Repos /\ seen \in Sights
      /\ req.cmd \in {"check", "end", "start", "commit"}
  BY DEF TypeInv, CommandInv, CommandLines
<1>1. ASSUME UNCHANGED Counted,
             pc' \in {"scan", "guard", "analyze"} => pc' = pc,
             pc' \in {"scan", "guard", "analyze", "commit"} =>
               /\ pc' = pc /\ todo' \subseteq todo /\ (pc = "guard" => plan' \subseteq plan)
               /\ \A r \in Repos : job'[r].status = "dirty" => job[r].status = "dirty"
      PROVE  HeldInv'
  BY <1>1 DEF HeldInv, HeldItemsStay, Counted
<1>2. CASE Others
  <2>1. UNCHANGED Counted
    BY <1>0, <1>2 DEF Others, Sights, Counted
  <2> QED
    BY <1>1, <1>2, <2>1 DEF Others
<1>3. ASSUME NEW r \in Repos, ReadBranch(r) \/ ReadAhead(r) \/ ReadStash(r) \/ ReadTree(r) PROVE HeldInv'
  <2>1. UNCHANGED Counted
    BY <1>0, <1>3 DEF ReadBranch, ReadAhead, ReadStash, ReadTree, Sights, Counted
  <2>2. UNCHANGED <<pc, plan>> /\ todo' \subseteq todo
    BY <1>3 DEF ReadBranch, ReadAhead, ReadStash, ReadTree, At, Dealt
  <2>3. \A q \in Repos : job'[q].status = "dirty" => job[q].status = "dirty"
    BY <1>0, <1>3, ScanJobs DEF Jobs
  <2> QED
    BY <1>1, <2>1, <2>2, <2>3
<1>4. ASSUME NEW r \in Repos, Guard(r) PROVE HeldInv'
  <2>1. pc = "guard" /\ r \in todo /\ todo' = todo \ {r} /\ UNCHANGED <<pc, job>>
    BY <1>4 DEF Guard, At, Dealt
  <2>2. /\ plan' \subseteq plan /\ seen'.swept = seen.swept
        /\ \A q \in Repos \ {r} : seen'.held[q] = seen.held[q]
        /\ seen'.held[r] # {} => seen.held[r] # {} \/ r \notin plan'
    BY <1>0, <1>4 DEF Guard, Sights
  <2>3. \A q \in Repos : seen.swept[q] = {}
    BY <2>1 DEF HeldInv
  <2> QED
    BY <2>1, <2>2, <2>3 DEF HeldInv, HeldItemsStay
<1>5. ASSUME NEW r \in Repos, Analyze(r) PROVE HeldInv'
  <2>1. pc = "analyze" /\ r \in todo /\ todo' = todo \ {r} /\ UNCHANGED <<pc, plan>>
    BY <1>5 DEF Analyze, At, Dealt
  <2>2. /\ seen'.swept = seen.swept /\ \A q \in Repos \ {r} : seen'.held[q] = seen.held[q] /\ job'[q] = job[q]
    BY <1>0, <1>5 DEF Analyze, Sights
  <2>3. seen.held[r] = {} /\ \A q \in Repos : seen.swept[q] = {}
    BY <2>1 DEF HeldInv
  <2>4. seen'.held[r] # {} => job'[r].status # "dirty"
    <3>1. seen' # seen => job'[r].status = "conflicted"
      BY <1>5 DEF Analyze
    <3> QED
      BY <2>3, <3>1
  <2> QED
    BY <2>1, <2>2, <2>3, <2>4 DEF HeldInv, HeldItemsStay
<1>6. ASSUME NEW r \in Repos, Commit(r) PROVE HeldInv'
  <2>1. pc = "commit" /\ r \in todo /\ todo' = todo \ {r} /\ UNCHANGED <<pc, plan>>
    BY <1>6 DEF Commit, At, Dealt
  <2>2. seen'.held = seen.held /\ \A q \in Repos \ {r} : seen'.swept[q] = seen.swept[q]
    <3>1. seen' = seen \/ \E staged : seen' = [seen EXCEPT !.swept[r] = @ \cup staged]
      BY <1>6 DEF Commit
    <3> QED
      BY <1>0, <3>1 DEF Sights
  <2>3. seen.held[r] = {}
    BY <2>1 DEF HeldInv
  <2> QED
    BY <2>1, <2>2, <2>3 DEF HeldInv, HeldItemsStay
<1>7. ASSUME NEW r \in Repos, PushLook(r) \/ PushSend(r) \/ Fetch(r) \/ Pull(r) PROVE HeldInv'
  <2>1. UNCHANGED Counted /\ pc' = pc /\ pc \in {"push", "fetch", "pull"}
    BY <1>0, <1>7 DEF PushLook, PushSend, Fetch, Pull, At, Sights, Counted
  <2> QED
    BY <1>1, <2>1
<1>8. Afresh => UNCHANGED Counted
  BY <1>0 DEF Afresh, Sights, Counted
<1>9. ASSUME NEW repos, CheckpointOrRescan(repos), \A r \in Repos : seen.swept[r] = {},
             \A r \in Repos : job[r].status # "dirty", \A r \in Repos : seen.held[r] # {} => r \notin repos
      PROVE  HeldInv'
  <2>1. CASE pc' = "analyze" /\ todo' = repos /\ UNCHANGED <<job, seen>>
    BY <1>9, <2>1 DEF HeldInv, HeldItemsStay
  <2>2. CASE pc' = "rescan" /\ Afresh
    BY <1>1, <1>8, <2>2
  <2> QED
    BY <1>9, <2>1, <2>2 DEF CheckpointOrRescan, Goto
<1>10. CASE Scanned
  <2>1. \A r \in Repos : seen.swept[r] = {} /\ seen.held[r] = {} /\ job[r].status # "dirty"
    BY <1>10 DEF Scanned, HeldInv
  <2>2. CheckpointOrRescan(plan') \/ (pc' \in {"guard", "fetch", "done"} /\ UNCHANGED <<job, seen>>)
    BY <1>10 DEF Scanned, Goto, ByVerdict, Leave
  <2> QED
    BY <1>9, <2>1, <2>2 DEF HeldInv, HeldItemsStay
<1>11. CASE Guarded
  <2>1. /\ pc = "guard" /\ \A r \in Repos : /\ seen.swept[r] = {} /\ job[r].status # "dirty"
                                            /\ seen.held[r] # {} => r \notin plan
    BY <1>11 DEF Guarded, HeldInv
  <2>2. CheckpointOrRescan(plan) \/ (pc' = "done" /\ UNCHANGED <<job, seen>>)
    BY <1>11 DEF Guarded, ByVerdict, Leave, Screened
  <2> QED
    BY <1>1, <1>9, <2>1, <2>2 DEF Counted
<1>12. AfterCommit => pc' \in {"push", "rescan", "editor", "done"} /\ UNCHANGED Counted
  BY <1>8 DEF AfterCommit, Goto, CommitExit, Leave, Counted
<1>13. CASE Analyzed
  <2>1. CASE AfterCommit
    BY <1>1, <1>12, <2>1
  <2>2. CASE pc' = "commit" /\ todo' = Dirty /\ UNCHANGED <<job, seen>>
    <3>1. \A r \in Repos : seen.held[r] # {} => r \notin Dirty
      BY <1>13 DEF Analyzed, HeldInv, Dirty
    <3> QED
      BY <2>2, <3>1 DEF HeldInv, HeldItemsStay
  <2> QED
    BY <1>13, <2>1, <2>2 DEF Analyzed, Goto
<1>14. CASE Committed
  BY <1>1, <1>12, <1>14 DEF Committed
<1>15. CASE Editor
  <2>1. \A r \in Repos : seen'.held[r] = {} /\ seen'.swept[r] = {}
    BY <1>0, <1>15 DEF Editor, Unseen, Sights
  <2>2. pc' \in {"done", "analyze"}
    BY <1>15 DEF Editor, Leave, Goto
  <2> QED
    BY <2>1, <2>2 DEF HeldInv, HeldItemsStay
<1>16. CASE Pushed \/ Rescanned \/ FetchDone \/ PullDone
  <2>1. UNCHANGED Counted
    BY <1>0, <1>8, <1>16 DEF Pushed, Rescanned, FetchDone, PullDone, Counted, Sights
  <2>2. pc' \in {"rescan", "done", "pull"}
    BY <1>16 DEF Pushed, Rescanned, FetchDone, PullDone, ByVerdict, Goto, Leave
  <2> QED
    BY <1>1, <2>1, <2>2
<1>17. CASE UNCHANGED vars
  BY <1>17 DEF vars, HeldInv, HeldItemsStay
<1> QED
  BY <1>2, <1>3, <1>4, <1>5, <1>6, <1>7, <1>10, <1>11, <1>13, <1>14, <1>15, <1>16, <1>17 DEF Next, Command

(* What the guard found to be a credential, and the markers of a conflict  *)
(* the analysis found unresolved, no later step commits until the editor   *)
(* leads to a new analysis, whatever the developer does meanwhile.         *)
THEOREM HeldItemsStayHolds == Spec => []HeldItemsStay
<1>1. Init => PhaseInv /\ HeldInv
  <2> SUFFICES ASSUME Init PROVE PhaseInv /\ HeldInv
    OBVIOUS
  <2>1. \A r \in Repos : seen.held[r] = {} /\ seen.swept[r] = {} /\ job[r].status = "none"
    BY DEF Init, Unseen, NoJob
  <2>2. pc = (IF req.cmd = "commit" THEN "analyze" ELSE "scan")
    BY DEF Init
  <2> QED
    BY <2>1, <2>2 DEF PhaseInv, HeldInv, HeldItemsStay
<1>2. HeldInv => HeldItemsStay
  BY DEF HeldInv
<1>3. Spec => []TypeInv
  BY TypeInvariance
<1> QED
  BY <1>1, <1>2, <1>3, PhaseStep, HeldStep, PTL DEF Spec

-----------------------------------------------------------------------------
(* What is sent, and what arrives.                                         *)

(* A push is only begun for a branch that the policy allows.               *)
SendInv == \A r \in Repos : job[r].at = "send" => job[r].branch \notin Protected

LEMMA SendStep == TypeInv /\ SendInv /\ [Next]_vars => SendInv'
<1> SUFFICES ASSUME TypeInv, SendInv, [Next]_vars PROVE SendInv'
  OBVIOUS
<1>0. job \in [Repos -> Jobs]
  BY DEF TypeInv, CommandInv
<1>1. UNCHANGED job \/ job' = [r \in Repos |-> NoJob] => SendInv'
  BY DEF SendInv, NoJob
<1>2. ASSUME NEW r \in Repos, \/ ReadBranch(r) \/ ReadAhead(r) \/ ReadStash(r) \/ ReadTree(r) \/ PushLook(r)
                              \/ Analyze(r) \/ Commit(r)
      PROVE  SendInv'
  <2>1. \A q \in Repos \ {r} : job'[q] = job[q]
    BY <1>0, <1>2 DEF ReadBranch, ReadAhead, ReadStash, ReadTree, PushLook, Analyze, Commit
  <2>2. CASE ReadBranch(r) \/ ReadAhead(r) \/ ReadStash(r) \/ ReadTree(r)
    <3>1. job'[r].at # "send"
      BY <1>0, <2>2, ScanJobs
    <3> QED
      BY <2>1, <3>1 DEF SendInv
  <2>3. CASE PushLook(r)
    <3>1. job' = job \/ job'[r].branch \notin Protected
      BY <1>0, <2>3 DEF PushLook, Denied, Jobs
    <3> QED
      BY <2>1, <3>1 DEF SendInv
  <2>4. CASE Analyze(r) \/ Commit(r)
    <3>2. \E x : job' = [job EXCEPT ![r].status = x]
      BY <2>4 DEF Analyze, Commit
    <3>1. job'[r].at = job[r].at /\ job'[r].branch = job[r].branch
      BY <1>0, <3>2 DEF Jobs
    <3> QED
      BY <2>1, <3>1 DEF SendInv
  <2> QED
    BY <1>2, <2>2, <2>3, <2>4
<1>3. ASSUME NEW r \in Repos, Guard(r) \/ PushSend(r) \/ Fetch(r) \/ Pull(r) PROVE UNCHANGED job
  BY <1>3 DEF Guard, PushSend, Fetch, Pull
<1>4. Scanned \/ Guarded \/ Analyzed \/ Committed \/ Editor \/ Pushed \/ Rescanned \/ FetchDone \/ PullDone
        => UNCHANGED job \/ job' = [r \in Repos |-> NoJob]
  BY DEF Scanned, Guarded, Analyzed, Committed, Editor, Pushed, Rescanned, FetchDone, PullDone,
         CheckpointOrRescan, AfterCommit, CommitExit, Afresh
<1>5. Others \/ UNCHANGED vars => UNCHANGED job
  BY DEF Others, vars
<1> QED
  BY <1>1, <1>2, <1>3, <1>4, <1>5 DEF Next, Command

(* No step of the command changes a protected branch of the remote.        *)
LEMMA RemoteStep ==
  ASSUME TypeInv, SendInv, Command, NEW r \in Repos, NEW b \in Protected
  PROVE  repo'[r].remote[b] = repo[r].remote[b]
<1>0. repo \in [Repos -> States] /\ job \in [Repos -> Jobs] /\ b \in Branches
  BY DEF TypeInv, ReposInv, CommandInv, Protected, Branches
<1>1. ASSUME NEW q \in Repos, Commit(q) \/ Fetch(q) \/ Pull(q) PROVE repo'[r].remote = repo[r].remote
  <2>1. repo[q] \in States
    BY <1>0
  <2>2. CASE Commit(q)
    <3>1. \/ repo' = repo
          \/ \E on, staged : repo' = [repo EXCEPT ![q].local[on] = @ \cup staged, ![q].files = @ \ staged,
                                                  ![q].merging = "no"]
      BY <2>2 DEF Commit
    <3>2. ASSUME NEW on, NEW staged,
                 repo' = [repo EXCEPT ![q].local[on] = @ \cup staged, ![q].files = @ \ staged, ![q].merging = "no"]
          PROVE  repo'[r].remote = repo[r].remote
      <4>1. CASE r = q
        <5>1. repo'[q] = [repo[q] EXCEPT !.local[on] = @ \cup staged, !.files = @ \ staged, !.merging = "no"]
          BY <1>0, <3>2
        <5> QED
          BY <2>1, <4>1, <5>1 DEF States
      <4>2. CASE r # q
        BY <1>0, <3>2, <4>2
      <4> QED
        BY <4>1, <4>2
    <3> QED
      BY <3>1, <3>2
  <2>3. CASE Fetch(q)
    BY <1>0, <2>1, <2>3 DEF Fetch, Fetched, States
  <2>4. CASE Pull(q)
    <3>1. \/ repo' = repo
          \/ \E on, more : repo' = [repo EXCEPT ![q] = [Fetched(repo[q]) EXCEPT !.local[on] = @ \cup more]]
      BY <2>4 DEF Pull
    <3>2. ASSUME NEW on, NEW more,
                 repo' = [repo EXCEPT ![q] = [Fetched(repo[q]) EXCEPT !.local[on] = @ \cup more]]
          PROVE  repo'[r].remote = repo[r].remote
      <4>1. CASE r = q
        <5>1. repo'[q] = [Fetched(repo[q]) EXCEPT !.local[on] = @ \cup more]
          BY <1>0, <3>2
        <5> QED
          BY <2>1, <4>1, <5>1 DEF Fetched, States
      <4>2. CASE r # q
        BY <1>0, <3>2, <4>2
      <4> QED
        BY <4>1, <4>2
    <3> QED
      BY <3>1, <3>2
  <2> QED
    BY <1>1, <2>2, <2>3, <2>4
<1>2. ASSUME NEW q \in Repos, PushSend(q) PROVE repo'[r].remote[b] = repo[r].remote[b]
  <2>1. job[q].branch # b
    BY <1>2 DEF PushSend, In, SendInv
  <2> DEFINE c == job[q].branch
             sent == [repo EXCEPT ![q].remote[c] = repo[q].local[c]]
  <2>2. sent[r].remote[b] = repo[r].remote[b] /\ sent \in [Repos -> States] /\ c \in Branches
    <3>1. c \in Branches /\ repo[q].local[c] \subseteq Items
      BY <1>0 DEF Jobs, States
    <3> HIDE DEF c
    <3> QED
      BY <1>0, <2>1, <3>1, ZenonT(60) DEF States, c
  <2>3. \/ repo' = repo \/ repo' = sent
        \/ \E t, u : repo' = [sent EXCEPT ![q].tracking[c] = t, ![q].upstream = u]
    BY <1>2 DEF PushSend
  <2> HIDE DEF sent, c
  <2>4. ASSUME NEW t, NEW u, repo' = [sent EXCEPT ![q].tracking[c] = t, ![q].upstream = u]
        PROVE  repo'[r].remote = sent[r].remote
    BY <2>2, <2>4 DEF States
  <2> QED
    BY <2>2, <2>3, <2>4
<1>3. ASSUME NEW q \in Repos,
             \/ ReadBranch(q) \/ ReadAhead(q) \/ ReadStash(q) \/ ReadTree(q) \/ Guard(q) \/ Analyze(q) \/ PushLook(q)
      PROVE  UNCHANGED repo
  BY <1>3 DEF ReadBranch, ReadAhead, ReadStash, ReadTree, Guard, Analyze, PushLook
<1>4. Scanned \/ Guarded \/ Analyzed \/ Committed \/ Editor \/ Pushed \/ Rescanned \/ FetchDone \/ PullDone
        => UNCHANGED repo
  BY DEF Scanned, Guarded, Analyzed, Committed, Editor, Pushed, Rescanned, FetchDone, PullDone, Fixed
<1> QED
  BY <1>1, <1>2, <1>3, <1>4 DEF Command

(* No step of handoff end changes a protected branch of the remote, though *)
(* the developer may switch to it after the plan was made.                 *)
THEOREM ProtectedRemoteStaysHolds == Spec => ProtectedRemoteStays
<1>1. Init => SendInv
  BY DEF Init, SendInv, NoJob
<1>2. TypeInv /\ SendInv /\ [Next]_vars =>
        [req.cmd = "end" /\ moves' = moves =>
           \A r \in Repos, b \in Protected : repo'[r].remote[b] = repo[r].remote[b]]_vars
  <2>1. ASSUME TypeInv, Others PROVE moves' # moves
    <3>1. moves' = moves + 1 /\ moves < OtherSteps
      BY <2>1 DEF Others
    <3> QED
      BY <3>1
  <2> QED
    BY <2>1, RemoteStep DEF Next
<1>3. Spec => []TypeInv
  BY TypeInvariance
<1> QED
  BY <1>1, <1>2, <1>3, SendStep, PTL DEF Spec, ProtectedRemoteStays

(* What was pulled has arrived where the developer left it alone.          *)
Aligned(r) == seen.pulled[r] # {} /\ seen.pulled[r] \subseteq repo[r].local[repo[r].on]

ArrivalInv ==
  /\ pc = "pull" => \A r \in plan \ (todo \cup bad \cup seen.touched) : Aligned(r)
  /\ ArrivedMeansAligned

LEMMA ArrivalStep == TypeInv /\ PhaseInv /\ ArrivalInv /\ [Next]_vars => ArrivalInv'
<1> SUFFICES ASSUME TypeInv, PhaseInv, ArrivalInv, [Next]_vars PROVE ArrivalInv'
  OBVIOUS
<1>0. repo \in [Repos -> States] /\ plan \subseteq Repos /\ seen \in Sights
  BY DEF TypeInv, ReposInv, CommandInv
<1> USE DEF ArrivalInv, ArrivedMeansAligned, Aligned
<1>1. CASE Others
  <2>1. PICK r \in Repos : Touch(r) /\ seen' = [seen EXCEPT !.touched = @ \cup {r}]
    BY <1>1, OthersTouch
  <2>2. seen'.touched = seen.touched \cup {r} /\ seen'.pulled = seen.pulled
    BY <1>0, <2>1 DEF Sights
  <2>3. UNCHANGED <<pc, req, todo, plan, bad, exit>>
    BY <1>1 DEF Others
  <2> QED
    BY <1>0, <2>1, <2>2, <2>3 DEF Touch
<1>2. ASSUME pc' # "pull", ~(pc' = "done" /\ exit' = 0 /\ req'.cmd = "start" /\ ~req'.dry) PROVE ArrivalInv'
  BY <1>2
<1>3. ASSUME NEW r \in Repos,
             \/ ReadBranch(r) \/ ReadAhead(r) \/ ReadStash(r) \/ ReadTree(r) \/ Guard(r)
             \/ Analyze(r) \/ Commit(r) \/ PushLook(r) \/ PushSend(r) \/ Fetch(r)
      PROVE  ArrivalInv'
  <2>1. pc' = pc /\ pc \in {"scan", "rescan", "guard", "analyze", "commit", "push", "fetch"}
    BY <1>3 DEF ReadBranch, ReadAhead, ReadStash, ReadTree, Guard, Analyze, Commit, PushLook, PushSend, Fetch, At, Scans
  <2> QED
    BY <1>2, <2>1
<1>4. ASSUME NEW r \in Repos, Pull(r) PROVE ArrivalInv'
  <2>1. pc = "pull" /\ r \in todo /\ todo' = todo \ {r} /\ UNCHANGED <<pc, plan>>
    BY <1>4 DEF Pull, At, Dealt
  <2>2. seen'.touched = seen.touched /\ \A q \in Repos \ {r} : seen'.pulled[q] = seen.pulled[q] /\ repo'[q] = repo[q]
    BY <1>0, <1>4 DEF Pull, Sights
  <2>3. bad' = bad \cup {r} \/ (bad' = bad /\ Aligned(r)')
    <3> DEFINE s == repo[r]
    <3>1. ASSUME s.remote[s.on] # {}, seen' = [seen EXCEPT !.pulled[r] = s.remote[s.on]],
                 repo' = [repo EXCEPT ![r] = [Fetched(s) EXCEPT !.local[s.on] = @ \cup s.remote[s.on]]]
          PROVE  Aligned(r)'
      <4>1. repo'[r].on = s.on /\ repo'[r].local[s.on] = s.local[s.on] \cup s.remote[s.on]
        <5>1. s \in States
          BY <1>0
        <5>2. repo'[r] = [Fetched(s) EXCEPT !.local[s.on] = @ \cup s.remote[s.on]]
          BY <1>0, <3>1
        <5> HIDE DEF s
        <5> QED
          BY <5>1, <5>2 DEF Fetched, States
      <4>2. seen'.pulled[r] = s.remote[s.on]
        BY <1>0, <3>1 DEF Sights
      <4> QED
        BY <3>1, <4>1, <4>2
    <3> QED
      BY <1>4, <3>1 DEF Pull, Refused
  <2>4. \A q \in plan' \ (todo' \cup bad' \cup seen'.touched) : Aligned(q)'
    BY <1>0, <2>1, <2>2, <2>3
  <2> QED
    BY <2>1, <2>4
<1>5. CASE Scanned
  <2>1. /\ pc' \in {"guard", "analyze", "rescan", "fetch", "done"} /\ req' = req
        /\ pc' = "done" => req.cmd \in {"check", "end"} \/ req.dry
    BY <1>5 DEF Scanned, Fixed, ByVerdict, Leave, Goto, CheckpointOrRescan
  <2> QED
    BY <1>2, <2>1
<1>6. CASE Guarded
  BY <1>2, <1>6 DEF Guarded, PhaseInv, Fixed, ByVerdict, Leave, Goto, CheckpointOrRescan
<1>7. CASE Analyzed \/ Committed
  BY <1>2, <1>7 DEF Analyzed, Committed, PhaseInv, Fixed, AfterCommit, CommitExit, Leave, Goto
<1>8. CASE Editor \/ Pushed \/ Rescanned
  BY <1>2, <1>8 DEF Editor, Pushed, Rescanned, PhaseInv, Fixed, ByVerdict, Leave, Goto
<1>9. CASE FetchDone
  BY <1>9 DEF FetchDone, Goto
<1>10. CASE PullDone
  <2>1. pc = "pull" /\ todo = {} /\ pc' = "done" /\ UNCHANGED <<repo, seen, plan, bad>>
        /\ (exit' = 0 => plan = Repos /\ bad = {})
    BY <1>10 DEF PullDone, Fixed, Leave
  <2> QED
    BY <2>1
<1>11. CASE UNCHANGED vars
  BY <1>11 DEF vars
<1> QED
  BY <1>1, <1>3, <1>4, <1>5, <1>6, <1>7, <1>8, <1>9, <1>10, <1>11 DEF Next, Command

(* When start exits with 0, every repository has what its remote had when  *)
(* it was pulled, if the developer has left it alone since the fetch.      *)
THEOREM ArrivedMeansAlignedHolds == Spec => []ArrivedMeansAligned
<1>1. Init => PhaseInv /\ ArrivalInv
  BY DEF Init, PhaseInv, ArrivalInv, ArrivedMeansAligned
<1>2. ArrivalInv => ArrivedMeansAligned
  BY DEF ArrivalInv
<1>3. Spec => []TypeInv
  BY TypeInvariance
<1> QED
  BY <1>1, <1>2, <1>3, PhaseStep, ArrivalStep, PTL DEF Spec
=============================================================================
