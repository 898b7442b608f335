---------------------------- MODULE WorkspaceSync ----------------------------
(***************************************************************************)
(* gz-git workspace sync: the configuration is loaded (ConfigLoad), child  *)
(* configurations are made, forge, git and config workspaces are planned,  *)
(* the repository of the configuration itself is fetched or pulled, the    *)
(* plan is shown and executed, the workspaces inside what was synced       *)
(* follow, and what was synced is pushed.  Planning looks at the disk, the *)
(* execution changes it later, and the developer works there meanwhile.    *)
(*                                                                         *)
(* A path is a sequence of names below the directory of the configuration, *)
(* where the command runs; a name is a sequence of words (flat layouts     *)
(* join them).                                                             *)
(***************************************************************************)
EXTENDS ConfigLoad, SequencesExt

CONSTANTS
  Paths,          \* directories there can be
  Workspaces,     \* name -> workspace: where, of what kind, how
  Forge,          \* forge workspace -> repositories of its organisation
  Listed,         \* repositories the root configuration lists
  Inside,         \* repository -> the configuration it carries, or NoFile
  LinkLists,      \* what the target of a configLink lists
  Disks,          \* states of the disk at the start
  SelfSync,       \* selfSync is enabled and its strategy is not skip
  Requests,
  MaxDepth,       \* --recursive-depth
  OtherSteps      \* bound: actions of the developer

NoFile == [by |-> "nobody", lists |-> {}]

Segments == UNION {Range(p) : p \in Paths}
ConfigFiles == [by : {"nobody", "tool", "user", "link"}, lists : SUBSET Paths]

ASSUME WorkspaceAssumption ==
  /\ MaxDepth \in Nat /\ OtherSteps \in Nat /\ SelfSync \in BOOLEAN
  /\ Paths \subseteq Seq(Segments) /\ <<>> \in Paths
  /\ Listed \subseteq Paths /\ LinkLists \subseteq Paths /\ Inside \in [Paths -> ConfigFiles]
  /\ \A p \in Paths : Inside[p].by = "nobody" => Inside[p] = NoFile
  /\ Requests \subseteq [dry : BOOLEAN, machine : BOOLEAN, ask : BOOLEAN, recursive : BOOLEAN, push : BOOLEAN]

VARIABLES
  disk,      \* directories, those with a .git, configuration file per directory
  moves, req,
  pc,
  todo,      \* workspaces the phase has not dealt with
  plan,      \* actions, one per path as it is spelled
  results,   \* actions that succeeded, actions that failed
  kids,      \* workspaces inside workspaces: a stack of directories to sync
  visited,
  exit,
  seen       \* observed: places that may go, repositories changed and pushed, said no,
             \* developer was active

vars == <<loading, disk, moves, req, pc, todo, plan, results, kids, visited, exit, seen>>

Init ==
  /\ LoadInit /\ disk \in Disks /\ req \in Requests /\ moves = 0
  /\ pc = "load" /\ todo = {} /\ plan = {} /\ results = [ok |-> {}, failed |-> {}]
  /\ kids = <<>> /\ visited = {<<>>} /\ exit = -1
  /\ seen = [loose |-> {}, changed |-> {}, pushed |-> {}, declined |-> FALSE, active |-> FALSE]

-----------------------------------------------------------------------------
(* The disk.                                                               *)

Within(p, q) == IsPrefix(p, q)
Ancestors(p) == {q \in Paths : Within(q, p)}

(* A state of a file system: what is a repository or keeps a configuration *)
(* is a directory, and so are its parents.                                 *)
Tree(d) ==
  /\ d \in [dirs : SUBSET Paths, repos : SUBSET Paths, file : [Paths -> ConfigFiles]]
  /\ d.repos \subseteq d.dirs
  /\ \A p \in d.dirs : Ancestors(p) \subseteq d.dirs
  /\ \A p \in Paths : d.file[p].by # "nobody" => p \in d.dirs

ASSUME DiskAssumption == \A d \in Disks : Tree(d)

Without(d, p) ==
  [dirs  |-> {q \in d.dirs : ~Within(p, q)}, repos |-> {q \in d.repos : ~Within(p, q)},
   file  |-> [q \in Paths |-> IF Within(p, q) THEN NoFile ELSE d.file[q]]]
MkdirAll(d, p) == [d EXCEPT !.dirs = @ \cup Ancestors(p)]
WriteFile(d, p, by, lists) == [MkdirAll(d, p) EXCEPT !.file[p] = [by |-> by, lists |-> lists]]
Cloned(d, p) ==
  LET made == MkdirAll(Without(d, p), p) IN [made EXCEPT !.repos = @ \cup {p}, !.file[p] = Inside[p]]

(* The developer makes a directory, keeps a configuration, makes a clone,  *)
(* removes a directory.                                                    *)
Developer ==
  /\ moves < OtherSteps /\ moves' = moves + 1
  /\ \E p \in Paths \ {<<>>} :
       \/ p \notin disk.dirs /\ disk' = MkdirAll(disk, p)
       \/ p \in disk.dirs /\ disk.file[p].by = "nobody" /\ disk' = WriteFile(disk, p, "user", {})
       \/ p \notin disk.dirs /\ disk' = Cloned(disk, p)
       \/ p \in disk.dirs /\ disk' = Without(disk, p)
  /\ seen' = [seen EXCEPT !.active = TRUE]
  /\ UNCHANGED <<loading, req, pc, todo, plan, results, kids, visited, exit>>

-----------------------------------------------------------------------------
(* Phases.                                                                 *)

Goto(place, names) == pc' = place /\ todo' = names /\ UNCHANGED exit
Leave(code) == pc' = "done" /\ todo' = {} /\ exit' = code
Stay(place) == pc = place /\ UNCHANGED <<loading, moves, req>>
NoSync == UNCHANGED <<results, kids, visited>>
Dealt(n) == Goto(pc, todo \ {n})

Kind(k) == {n \in DOMAIN Workspaces : Workspaces[n].kind = k}

(* What is done where, and how the place is spelled: the list of a         *)
(* configuration is taken as it is written, from where the command runs,   *)
(* the place of a workspace is resolved.                                   *)
Action(p, spelled, type) == [at |-> p, as |-> spelled, type |-> type]
Places(actions) == {a.at : a \in actions}

(* createActionsFromFlatConfig: never the directory of the file itself.    *)
Update(p) == Action(p, "listed", "update")
FlatActions(lists, own) == {Update(p) : p \in lists \ {own}}

Load ==
  /\ pc = "load" /\ LoadStep
  /\ UNCHANGED <<disk, moves, req, pc, todo, plan, results, kids, visited, exit, seen>>

(* When it cannot be loaded there is a warning, and what the file itself   *)
(* lists is synced.                                                        *)
Loaded ==
  /\ Stay("load") /\ stack = <<>> /\ NoSync /\ UNCHANGED <<disk, seen>>
  /\ plan' = FlatActions(Listed, <<>>)
  /\ IF ret.is = "ok" THEN Goto("bootstrap", Kind("config")) ELSE Goto("ready", {})

(* configLink: whatever is there goes, for a forge workspace only a link.  *)
(* The target of the link may be missing.                                  *)
Linked(p) == disk' = WriteFile(disk, p, "link", LinkLists)

(* ensureChildConfigs.                                                     *)
Bootstrap(n) ==
  LET w == Workspaces[n]
      missing == disk.file[w.dir].by = "nobody"
  IN  /\ Stay("bootstrap") /\ n \in todo /\ NoSync /\ UNCHANGED <<plan, seen>>
      /\ \/ w.child = "none" /\ UNCHANGED disk /\ Dealt(n)
         \/ w.child = "link" /\ Linked(w.dir) /\ Dealt(n)
         \/ w.child = "link" /\ UNCHANGED disk /\ Leave(1)
         \/ w.child = "write" /\ missing /\ disk' = WriteFile(disk, w.dir, "tool", {}) /\ Dealt(n)
         \/ w.child = "write" /\ missing /\ disk' \in {disk, MkdirAll(disk, w.dir)} /\ Leave(1)
         \/ w.child = "write" /\ ~missing /\ UNCHANGED disk /\ Dealt(n)

(* buildTargetPath.                                                        *)
Target(w, r) ==
  CASE w.layout = "name"   -> Append(w.dir, Last(r.path))
    [] w.layout = "flat"   -> Append(w.dir, FlattenSeq(r.path))
    [] w.layout = "nested" -> w.dir \o r.path

(* Every place a plan can name is a path, and so is its last name from     *)
(* where the command runs, which is how a child configuration lists it.    *)
ASSUME PlacesAssumption ==
  /\ \A n \in DOMAIN Workspaces : Workspaces[n].dir \in Paths
  /\ \A n \in Kind("forge") : \A r \in Forge[n] : Target(Workspaces[n], r) \in Paths \ {<<>>}
  /\ \A p \in Paths \ {<<>>} : <<Last(p)>> \in Paths

(* filterRepos.                                                            *)
Wanted(n) == {r \in Forge[n] : r.wanted}

(* Mutant: what the filters leave out looks like an orphan.                *)
ExpectedWanted(n) == {Last(Target(Workspaces[n], r)) : r \in Wanted(n)}

(* The base name of every repository's place, filtered or not.             *)
Expected(n) == {Last(Target(Workspaces[n], r)) : r \in Forge[n]}

(* planOrphanCleanup.                                                      *)
Orphans(n) ==
  {p \in disk.dirs : Len(p) = Len(Workspaces[n].dir) + 1 /\ Within(Workspaces[n].dir, p) /\ Last(p) \notin Expected(n)}

Sync(n) ==
  {LET p == Target(Workspaces[n], r) IN Action(p, "resolved", IF p \in disk.repos THEN "update" ELSE "clone") : r \in Wanted(n)}

(* ForgePlanner.Plan: with nothing wanted there is no cleanup either.      *)
ForgePlan(n) ==
  IF Wanted(n) = {} THEN {}
  ELSE Sync(n) \cup {Action(p, "resolved", "delete") : p \in IF Workspaces[n].cleanup THEN Orphans(n) ELSE {}}

(* Mutant: two planners act on one path.                                   *)
DeduplicatedNever(first, more) == first \cup more

(* deduplicateActions: the first for a path stays.  The strings are        *)
(* compared, so a place that is both listed and a workspace's, or a        *)
(* repository of its forge, keeps two actions.                             *)
Deduplicated(first, more) == first \cup {a \in more : \A b \in first : <<b.at, b.as>> # <<a.at, a.as>>}

(* writeChildForgeConfig: a file somebody wrote is left alone; paths are   *)
(* written by their last name.                                             *)
WithChildConfig(n, actions) ==
  LET w == Workspaces[n]
  IN  CASE actions = {} -> disk
        [] actions # {} /\ w.child = "none" -> MkdirAll(disk, w.dir)
        [] actions # {} /\ w.child = "write" /\ disk.file[w.dir].by = "user" -> disk
        [] OTHER -> WriteFile(disk, w.dir, "tool", {<<Last(a.at)>> : a \in actions})

(* A directory that is no repository's place, and a place for a repository *)
(* where there is none.  In a nested layout the directory may be a group   *)
(* with repositories in it: the planner takes it for an orphan, too.       *)
Loose(n) ==
  {p \in disk.dirs : /\ Len(p) = Len(Workspaces[n].dir) + 1 /\ Within(Workspaces[n].dir, p)
                     /\ \A r \in Forge[n] : Target(Workspaces[n], r) # p}
  \cup Places({a \in Sync(n) : a.type = "clone"})

PlanForge(n) ==
  LET w == Workspaces[n]
      actions == ForgePlan(n)
      link == w.child = "link"
  IN  /\ Stay("forge") /\ n \in todo /\ NoSync
      /\ \/ Leave(1) /\ disk' \in {disk, MkdirAll(disk, w.dir)} /\ UNCHANGED <<plan, seen>>
         \/ /\ link => disk.file[w.dir].by \in {"nobody", "link"}
            /\ IF link THEN Linked(w.dir) ELSE disk' = WithChildConfig(n, actions)
            /\ plan' = Deduplicated(plan, actions) /\ Dealt(n)
            /\ seen' = [seen EXCEPT !.loose = @ \cup Loose(n)]

(* planGitWorkspaces.                                                      *)
PlanGit(n) ==
  LET w == Workspaces[n]
  IN  /\ Stay("git") /\ n \in todo /\ NoSync /\ UNCHANGED seen
      /\ \/ w.child = "link" /\ Leave(1) /\ UNCHANGED <<disk, plan>>
         \/ /\ IF w.child = "link" THEN Linked(w.dir) ELSE UNCHANGED disk
            /\ plan' = Deduplicated(plan, {Action(w.dir, "resolved", "update")}) /\ Dealt(n)

(* planConfigWorkspaces.  What the child lists is taken from where the     *)
(* command runs.                                                           *)
PlanConfig(n) ==
  LET w == Workspaces[n]
      file == disk.file[w.dir]
  IN  /\ Stay("config") /\ n \in todo /\ NoSync /\ UNCHANGED <<disk, seen>>
      /\ \/ file.by # "nobody" /\ Leave(1) /\ UNCHANGED plan
         \/ /\ plan' = IF file.by = "nobody" THEN plan ELSE Deduplicated(plan, FlatActions(file.lists, w.dir))
            /\ Dealt(n)

(* A workspace at the configuration's own directory is skipped.            *)
Following == [bootstrap |-> "forge", forge |-> "git", git |-> "config", config |-> "self"]
Names(place) ==
  {n \in Kind(place) : Workspaces[n].dir # <<>> /\ (place = "config" => Workspaces[n].recursive)}

NextPhase ==
  /\ pc \in DOMAIN Following /\ todo = {} /\ Goto(Following[pc], Names(Following[pc]))
  /\ UNCHANGED <<loading, disk, moves, req, plan, seen>> /\ NoSync

-----------------------------------------------------------------------------
(* Preview, confirmation, execution.                                       *)

(* Mutant: --dry-run is only looked at with the preview.                   *)
DryUnlessMachine == req.dry /\ ~req.machine

(* --dry-run of the flags, handed on to the self-sync and to the executor. *)
Dry == req.dry

(* executeSelfSync, before the preview and the question: a failure is a    *)
(* warning.  What a pull changes in files below is left out.               *)
SelfSynced ==
  /\ Stay("self") /\ NoSync /\ UNCHANGED <<disk, plan>> /\ Goto("ready", {})
  /\ \/ UNCHANGED seen
     \/ SelfSync /\ <<>> \in disk.repos /\ ~Dry /\ seen' = [seen EXCEPT !.changed = @ \cup {<<>>}]

(* A machine format shows no preview and asks nothing.                     *)
Ready ==
  /\ Stay("ready") /\ NoSync /\ UNCHANGED <<disk, plan, seen>>
  /\ CASE plan = {} -> Leave(0)
       [] plan # {} /\ ~req.machine /\ req.ask /\ ~req.dry -> Goto("ask", {})
       [] plan # {} /\ ~req.machine /\ req.dry -> Leave(0)
       [] OTHER -> Goto("execute", {})

Ask ==
  /\ Stay("ask") /\ NoSync /\ UNCHANGED <<disk, plan>>
  /\ \/ Goto("execute", {}) /\ UNCHANGED seen
     \/ (Leave(0) \/ Leave(1)) /\ seen' = [seen EXCEPT !.declined = TRUE]

(* What an action may leave, and whether it succeeded: CloneOrUpdate as    *)
(* CloneUpdate models it, and RemoveAll, which may stop half way.          *)
Outcomes(d, a) ==
  LET there == a.at \in d.dirs
      repo == a.at \in d.repos
      gone == Without(d, a.at)
      half == [gone EXCEPT !.dirs = d.dirs]
      fresh == Cloned(d, a.at)
  IN  {[d |-> d, ok |-> FALSE]} \cup
      CASE a.type = "delete" -> {[d |-> gone, ok |-> TRUE], [d |-> half, ok |-> FALSE]}
        [] a.type = "clone" -> {[d |-> fresh, ok |-> TRUE], [d |-> gone, ok |-> FALSE]}
        [] a.type = "update" /\ ~there -> {[d |-> fresh, ok |-> TRUE]}
        [] a.type = "update" /\ repo -> {[d |-> [d EXCEPT !.file[a.at] = IF Inside[a.at] = NoFile THEN @ ELSE Inside[a.at]], ok |-> TRUE]}
        [] OTHER -> {}

Settled == results.ok \cup results.failed

Settle(a, ok) ==
  results' = IF ok THEN [results EXCEPT !.ok = @ \cup {a}] ELSE [results EXCEPT !.failed = @ \cup {a}]

(* The pool takes the actions in any order, also two for one place.        *)
Execute(a) ==
  /\ Stay("execute") /\ a \notin Settled /\ UNCHANGED <<plan, kids, visited, pc, todo, exit>>
  /\ IF Dry THEN Settle(a, TRUE) /\ UNCHANGED <<disk, seen>>
     ELSE \E o \in Outcomes(disk, a) :
            /\ disk' = o.d /\ Settle(a, o.ok)
            /\ seen' = [seen EXCEPT !.changed = @ \cup {a.at}]

(* errSyncPartialFailure; mutant: a failed deletion is left to the next run.*)
ExitCodeLenient == IF \A a \in results.failed : a.type = "delete" THEN 0 ELSE 1
ExitCode == IF results.failed = {} THEN 0 ELSE 1

-----------------------------------------------------------------------------
(* Workspaces inside what was synced.                                      *)

Children(actions, d, met) == {a \in actions : a.at \notin met /\ d.file[a.at].by # "nobody"}

(* A sync of what a configuration lists, then of the workspaces in there,  *)
(* once for every action that succeeded.                                   *)
Frame(of, list, ok, depth) ==
  [of |-> of, list |-> list, ok |-> ok, dirs |-> {}, depth |-> depth, at |-> "sync"]
Replaced(frame) == Append(Front(kids), frame)

Executed ==
  /\ Stay("execute") /\ plan \subseteq Settled
  /\ UNCHANGED <<disk, plan, results, visited, seen>>
  /\ IF req.machine THEN Leave(ExitCode) /\ UNCHANGED kids
     ELSE /\ kids' = IF req.recursive THEN <<Frame(<<>>, {}, results.ok, 0)>> ELSE <<>>
          /\ Goto("children", {})

(* Mutant: only the root is known.                                         *)
VisitedNever(p) == visited

Visited(p) == visited \cup {p}

(* runChildSync: a configuration that cannot be loaded is a warning.       *)
RunChild ==
  /\ Stay("children") /\ kids # <<>> /\ UNCHANGED <<disk, plan, results, pc, todo, exit, seen>>
  /\ \E a \in Last(kids).dirs :
       LET p == a.at
           rest == Replaced([Last(kids) EXCEPT !.dirs = @ \ {a}])
       IN  /\ visited' = Visited(p)
           /\ \/ kids' = rest
              \/ kids' = Append(rest, Frame(p, disk.file[p].lists \ {p}, {}, Last(kids).depth + 1))

(* The pool takes what the child lists in any order; failures are warnings.*)
SyncListed ==
  /\ Stay("children") /\ kids # <<>> /\ UNCHANGED <<plan, results, visited, pc, todo, exit>>
  /\ \E p \in Last(kids).list : \E o \in Outcomes(disk, Update(p)) :
       /\ disk' = o.d /\ seen' = [seen EXCEPT !.changed = @ \cup {p}]
       /\ kids' = Replaced([Last(kids) EXCEPT !.list = @ \ {p}, !.ok = IF o.ok THEN @ \cup {Update(p)} ELSE @])

(* syncChildWorkspaces: the directories of one level are collected before  *)
(* the first of them is synced.                                            *)
CollectChildren ==
  /\ Stay("children") /\ kids # <<>> /\ Last(kids).at = "sync" /\ Last(kids).list = {}
  /\ kids' = Replaced([Last(kids) EXCEPT !.at = "descend",
                                !.dirs = IF Last(kids).depth >= MaxDepth THEN {} ELSE Children(Last(kids).ok, disk, visited)])
  /\ UNCHANGED <<disk, plan, results, visited, pc, todo, exit, seen>>

ChildrenDone ==
  /\ Stay("children") /\ kids # <<>> /\ Last(kids).at = "descend" /\ Last(kids).dirs = {}
  /\ kids' = Front(kids) /\ UNCHANGED <<disk, plan, results, visited, pc, todo, exit, seen>>

(* executePushForSyncedRepos.                                              *)
PushSynced ==
  /\ Stay("children") /\ kids = <<>> /\ NoSync /\ UNCHANGED <<disk, plan>> /\ Leave(ExitCode)
  /\ \E pushed \in SUBSET (IF req.push /\ ~req.dry THEN Places(results.ok) \cap disk.repos ELSE {}) :
       seen' = [seen EXCEPT !.pushed = pushed]

Command ==
  \/ Load \/ Loaded \/ NextPhase \/ SelfSynced \/ Ready \/ Ask \/ Executed \/ RunChild \/ SyncListed \/ CollectChildren \/ ChildrenDone \/ PushSynced
  \/ \E n \in DOMAIN Workspaces : Bootstrap(n) \/ PlanForge(n) \/ PlanGit(n) \/ PlanConfig(n)
  \/ \E a \in plan : Execute(a)

Next == Command \/ Developer

Spec == Init /\ [][Next]_vars

-----------------------------------------------------------------------------
(* Properties.                                                             *)

(* Every variable has the type its comment says, the disk stays a tree, one *)
(* action is planned per path as it is spelled, and an exit code is given  *)
(* exactly at the end.                                                     *)
TypeOK ==
  /\ pc \in DOMAIN Following \cup {"load", "self", "ready", "ask", "execute", "children", "done"}
  /\ Tree(disk)
  /\ todo \subseteq DOMAIN Workspaces
  /\ \A a, b \in plan : a.at = b.at /\ a.as = b.as => a = b
  /\ Settled \subseteq plan /\ results.ok \cap results.failed = {}
  /\ visited \subseteq Paths /\ exit \in -1..1 /\ (exit = -1 <=> pc # "done")

(* No step of the command makes a directory disappear, unless it is, or    *)
(* is in, one that was no repository's place when it was planned, or a     *)
(* place for a repository where there was none ("filters limit sync        *)
(* targets, but must not make valid forge repositories look like local     *)
(* orphans").  That says less of a nested layout, whose groups are no      *)
(* repository's place: the cleanup removes them.                           *)
OnlyOrphansGo ==
  [][moves' = moves => \A p \in disk.dirs \ disk'.dirs : \E q \in seen.loose : Within(q, p)]_vars

(* With --dry-run no repository is cloned, changed, deleted or pushed; when *)
(* the developer says no, at most the configuration's own was fetched or   *)
(* pulled, before the question, where self-sync is on.                     *)
DryRunKeepsRepositories ==
  req.dry \/ seen.declined => seen.changed \subseteq (IF ~req.dry /\ SelfSync THEN {<<>>} ELSE {}) /\ seen.pushed = {}

(* Every repository has its place directly below the workspace.            *)
Flat(n) == \A r \in Forge[n] : Len(Target(Workspaces[n], r)) = Len(Workspaces[n].dir) + 1

(* When the command exits with 0 after it has executed its plan, and the   *)
(* developer did nothing, every repository wanted of the forge is in its   *)
(* place, and where cleanup is on and something is wanted there is nothing *)
(* but places of the forge; but in a workspace with groups the cleanup may *)
(* have taken them.                                                        *)
SuccessMeansMirrored ==
  pc = "done" /\ exit = 0 /\ ret.is = "ok" /\ ~req.dry /\ ~seen.declined /\ ~seen.active =>
    \A n \in Names("forge") : (Workspaces[n].cleanup => Flat(n)) =>
      /\ \A r \in Wanted(n) : Target(Workspaces[n], r) \in disk.repos
      /\ Workspaces[n].cleanup /\ Wanted(n) # {} => Orphans(n) = {}

(* No workspace is synced inside its own sync, the root's included, however *)
(* the configurations refer to each other.                                 *)
NoWorkspaceWithinItself ==
  \A i, j \in 1..Len(kids) : i < j => kids[i].of # kids[j].of
=============================================================================
