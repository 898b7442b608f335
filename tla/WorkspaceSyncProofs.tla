------------------------ MODULE WorkspaceSyncProofs ------------------------
(***************************************************************************)
(* Theorems about ConfigLoad and WorkspaceSync, for every set of files,    *)
(* workspaces, forge repositories and disks: what a dry run and a refused  *)
(* plan leave, the types, what may disappear from the disk, no workspace   *)
(* is synced inside its own sync, a configuration that loads is resolved   *)
(* along its whole chain of parents, and what a successful sync leaves.    *)
(***************************************************************************)
EXTENDS WorkspaceSync, SequenceTheorems, FiniteSetTheorems, TLAPS

-----------------------------------------------------------------------------
(* What a dry run may still reach.                                         *)

Early == {"load", "bootstrap", "forge", "git", "config", "self", "ready", "ask"}

(* What self-sync may have changed.                                        *)
Own == IF ~req.dry /\ SelfSync THEN {<<>>} ELSE {}

Observed ==
  seen = [loose |-> seen.loose, changed |-> seen.changed, pushed |-> seen.pushed,
          declined |-> seen.declined, active |-> seen.active]

(* Before the plan is executed nothing but the configuration's own         *)
(* repository is changed; a dry run is not asked and reaches the children  *)
(* of no workspace; who says no is finished.                               *)
Kept ==
  /\ Observed
  /\ pc \in Early => seen.changed \subseteq Own /\ seen.pushed = {}
  /\ seen.declined => pc = "done"
  /\ req.dry => pc \notin {"ask", "children"} /\ (pc = "execute" => req.machine)
  /\ DryRunKeepsRepositories

LEMMA KeptInit == Init => Kept
  BY DEF Init, Kept, Observed, DryRunKeepsRepositories, Own

LEMMA KeptStep == Kept /\ [Next]_vars => Kept'
<1> SUFFICES ASSUME Kept, [Next]_vars PROVE Kept'
  OBVIOUS
<1> USE DEF Kept, Observed, DryRunKeepsRepositories, Own, Early, Stay, Goto, Leave, NoSync, Dealt
<1>1. CASE Load
  BY <1>1 DEF Load
<1>2. CASE Loaded
  BY <1>2 DEF Loaded
<1>3. CASE NextPhase
  BY <1>3 DEF NextPhase, Following
<1>15. CASE SelfSynced
  BY <1>15 DEF SelfSynced, Dry
<1>4. CASE Ready
  BY <1>4 DEF Ready
<1>5. CASE Ask
  BY <1>5 DEF Ask
<1>6. CASE Executed
  BY <1>6 DEF Executed
<1>7. CASE RunChild
  BY <1>7 DEF RunChild
<1>8. CASE ChildrenDone \/ CollectChildren
  BY <1>8 DEF ChildrenDone, CollectChildren
<1>14. CASE SyncListed
  BY <1>14 DEF SyncListed
<1>9. CASE PushSynced
  BY <1>9 DEF PushSynced
<1>10. ASSUME NEW n \in DOMAIN Workspaces, Bootstrap(n) \/ PlanForge(n) \/ PlanGit(n) \/ PlanConfig(n)
       PROVE  Kept'
  BY <1>10 DEF Bootstrap, PlanForge, PlanGit, PlanConfig
<1>11. ASSUME NEW a \in plan, Execute(a) PROVE Kept'
  BY <1>11 DEF Execute, Dry
<1>12. CASE Developer
  BY <1>12 DEF Developer
<1>13. CASE UNCHANGED vars
  BY <1>13 DEF vars
<1> QED
  BY <1>1, <1>2, <1>3, <1>4, <1>5, <1>6, <1>7, <1>8, <1>9, <1>10, <1>11, <1>12, <1>13, <1>14, <1>15 DEF Next, Command

(* With --dry-run no repository is cloned, changed, deleted or pushed; when *)
(* the developer says no, at most the configuration's own was, by          *)
(* self-sync, before the question.                                         *)
THEOREM DryRunHolds == Spec => []DryRunKeepsRepositories
<1>1. Kept => DryRunKeepsRepositories
  BY DEF Kept
<1> QED
  BY <1>1, KeptInit, KeptStep, PTL DEF Spec

-----------------------------------------------------------------------------
(* Paths.                                                                  *)

(* Being within, element by element.                                       *)
LEMMA WithinIs ==
  ASSUME NEW p \in Paths, NEW q \in Paths
  PROVE  Within(p, q) <=> Len(p) <= Len(q) /\ \A i \in 1..Len(p) : p[i] = q[i]
<1>1. /\ p \in Seq(Segments) /\ q \in Seq(Segments)
      /\ Len(p) \in Nat /\ Len(q) \in Nat
  BY WorkspaceAssumption
<1>2. SubSeq(p, 1, Len(p)) = p
  BY <1>1, SubSeqFull
<1>3. ASSUME Len(p) <= Len(q)
      PROVE  /\ SubSeq(q, 1, Len(p)) \in Seq(Segments) /\ Len(SubSeq(q, 1, Len(p))) = Len(p)
             /\ \A i \in 1..Len(p) : SubSeq(q, 1, Len(p))[i] = q[i]
  BY <1>1, <1>3
<1>4. ASSUME Len(p) <= Len(q), \A i \in 1..Len(p) : p[i] = q[i]
      PROVE  p = SubSeq(q, 1, Len(p))
  BY <1>1, <1>3, <1>4, SeqEqual
<1> QED
  BY <1>1, <1>2, <1>3, <1>4 DEF Within, IsPrefix

LEMMA WithinItself == ASSUME NEW p \in Paths PROVE Within(p, p)
  BY WithinIs, WorkspaceAssumption

LEMMA WithinTransitive ==
  ASSUME NEW p \in Paths, NEW q \in Paths, NEW r \in Paths, Within(p, q), Within(q, r)
  PROVE  Within(p, r)
<1>1. /\ Len(p) \in Nat /\ Len(q) \in Nat /\ Len(r) \in Nat
      /\ Len(p) <= Len(q) /\ \A i \in 1..Len(p) : p[i] = q[i]
      /\ Len(q) <= Len(r) /\ \A i \in 1..Len(q) : q[i] = r[i]
  BY WithinIs, WorkspaceAssumption
<1>2. Len(p) <= Len(r) /\ \A i \in 1..Len(p) : p[i] = r[i]
  BY <1>1
<1> QED
  BY <1>2, WithinIs

LEMMA WithinSameLength ==
  ASSUME NEW p \in Paths, NEW q \in Paths, Within(p, q), Len(p) = Len(q)
  PROVE  p = q
<1>1. p \in Seq(Segments) /\ q \in Seq(Segments) /\ \A i \in 1..Len(p) : p[i] = q[i]
  BY WithinIs, WorkspaceAssumption
<1> QED
  BY <1>1, SeqEqual

-----------------------------------------------------------------------------
(* What the file operations leave is a tree again.                         *)

LEMMA TreeWithout ==
  ASSUME NEW d, Tree(d), NEW p \in Paths
  PROVE  /\ Tree(Without(d, p)) /\ Without(d, p).dirs \subseteq d.dirs
         /\ \A q \in d.dirs \ Without(d, p).dirs : Within(p, q)
<1> DEFINE e == Without(d, p)
<1>1. /\ e.dirs = {q \in d.dirs : ~Within(p, q)} /\ e.repos = {q \in d.repos : ~Within(p, q)}
      /\ e.file = [q \in Paths |-> IF Within(p, q) THEN NoFile ELSE d.file[q]]
  BY DEF Without
<1>2. /\ d.dirs \subseteq Paths /\ d.repos \subseteq d.dirs /\ d.file \in [Paths -> ConfigFiles]
      /\ \A q \in d.dirs : Ancestors(q) \subseteq d.dirs
      /\ \A q \in Paths : d.file[q].by # "nobody" => q \in d.dirs
  BY DEF Tree
<1>3. NoFile \in ConfigFiles /\ NoFile.by = "nobody"
  BY DEF NoFile, ConfigFiles
<1>4. e \in [dirs : SUBSET Paths, repos : SUBSET Paths, file : [Paths -> ConfigFiles]]
  <2>1. e.dirs \subseteq Paths /\ e.repos \subseteq Paths
    BY <1>1, <1>2
  <2>2. e.file \in [Paths -> ConfigFiles]
    BY <1>1, <1>2, <1>3
  <2>3. e = [dirs |-> e.dirs, repos |-> e.repos, file |-> e.file]
    BY DEF Without
  <2> HIDE DEF e
  <2> QED
    BY <2>1, <2>2, <2>3
<1>5. e.repos \subseteq e.dirs
  BY <1>1, <1>2
<1>6. ASSUME NEW q \in e.dirs PROVE Ancestors(q) \subseteq e.dirs
  <2> SUFFICES ASSUME NEW r \in Ancestors(q) PROVE r \in e.dirs
    OBVIOUS
  <2>1. r \in Paths /\ Within(r, q) /\ q \in d.dirs /\ q \in Paths /\ ~Within(p, q) /\ r \in d.dirs
    BY <1>1, <1>2, <1>6 DEF Ancestors
  <2>2. ~Within(p, r)
    BY <2>1, WithinTransitive
  <2> QED
    BY <1>1, <2>1, <2>2
<1>7. ASSUME NEW q \in Paths, e.file[q].by # "nobody" PROVE q \in e.dirs
  BY <1>1, <1>2, <1>3, <1>7
<1> HIDE DEF e
<1>8. Tree(e)
  BY <1>4, <1>5, <1>6, <1>7 DEF Tree
<1> QED
  BY <1>1, <1>8 DEF e

LEMMA TreeMkdirAll ==
  ASSUME NEW d, Tree(d), NEW p \in Paths
  PROVE  /\ Tree(MkdirAll(d, p)) /\ d.dirs \subseteq MkdirAll(d, p).dirs /\ p \in MkdirAll(d, p).dirs
         /\ MkdirAll(d, p).file = d.file /\ MkdirAll(d, p).repos = d.repos
<1> DEFINE e == MkdirAll(d, p)
<1>1. d \in [dirs : SUBSET Paths, repos : SUBSET Paths, file : [Paths -> ConfigFiles]]
  BY DEF Tree
<1>2. e.dirs = d.dirs \cup Ancestors(p) /\ e.repos = d.repos /\ e.file = d.file
  BY <1>1 DEF MkdirAll
<1>3. e \in [dirs : SUBSET Paths, repos : SUBSET Paths, file : [Paths -> ConfigFiles]]
  BY <1>1 DEF MkdirAll, Ancestors
<1>4. p \in Ancestors(p)
  BY WithinItself DEF Ancestors
<1>5. ASSUME NEW q \in e.dirs PROVE Ancestors(q) \subseteq e.dirs
  <2>1. CASE q \in d.dirs
    BY <1>2, <2>1 DEF Tree
  <2>2. CASE q \in Ancestors(p)
    BY <1>2, <2>2, WithinTransitive DEF Ancestors
  <2> QED
    BY <1>2, <1>5, <2>1, <2>2
<1> HIDE DEF e
<1>6. Tree(e)
  BY <1>2, <1>3, <1>5 DEF Tree
<1> QED
  BY <1>2, <1>4, <1>6 DEF e

(* A repository or a configuration in a directory that is there.           *)
LEMMA TreeFilled ==
  ASSUME NEW d, Tree(d), NEW p \in d.dirs, NEW file \in ConfigFiles,
         NEW repos \in {d.repos, d.repos \cup {p}},
         NEW e, e = [dirs |-> d.dirs, repos |-> repos, file |-> [d.file EXCEPT ![p] = file]]
  PROVE  Tree(e) /\ e.dirs = d.dirs
<1>1. d \in [dirs : SUBSET Paths, repos : SUBSET Paths, file : [Paths -> ConfigFiles]] /\ p \in Paths
  BY DEF Tree
<1>3. e \in [dirs : SUBSET Paths, repos : SUBSET Paths, file : [Paths -> ConfigFiles]]
  <2>1. [d.file EXCEPT ![p] = file] \in [Paths -> ConfigFiles]
    BY <1>1
  <2>2. repos \subseteq Paths
    BY <1>1
  <2> QED
    BY <1>1, <2>1, <2>2
<1>4. \A q \in Paths : e.file[q].by # "nobody" => q \in e.dirs
  BY <1>1 DEF Tree
<1> QED
  BY <1>3, <1>4 DEF Tree

LEMMA TreeWritten ==
  ASSUME NEW d, Tree(d), NEW p \in Paths,
         NEW by \in {"nobody", "tool", "user", "link"}, NEW lists \in SUBSET Paths
  PROVE  Tree(WriteFile(d, p, by, lists)) /\ d.dirs \subseteq WriteFile(d, p, by, lists).dirs
<1> DEFINE made == MkdirAll(d, p)
           file == [by |-> by, lists |-> lists]
           e == [made EXCEPT !.file[p] = file]
<1>1. Tree(made) /\ p \in made.dirs /\ d.dirs \subseteq made.dirs /\ file \in ConfigFiles
  BY TreeMkdirAll DEF ConfigFiles
<1>2. WriteFile(d, p, by, lists) = e
  BY DEF WriteFile
<1>e. e = [dirs |-> made.dirs, repos |-> made.repos, file |-> [made.file EXCEPT ![p] = file]]
  BY <1>1 DEF Tree
<1> HIDE DEF made, file, e
<1>3. Tree(e) /\ e.dirs = made.dirs
  BY <1>1, <1>e, TreeFilled
<1> QED
  BY <1>1, <1>2, <1>3

LEMMA TreeCloned ==
  ASSUME NEW d, Tree(d), NEW p \in Paths
  PROVE  /\ Tree(Cloned(d, p)) /\ Without(d, p).dirs \subseteq Cloned(d, p).dirs
<1> DEFINE gone == Without(d, p)
           made == MkdirAll(gone, p)
           file == Inside[p]
           e == [made EXCEPT !.repos = @ \cup {p}, !.file[p] = file]
<1>1. Tree(gone)
  BY TreeWithout
<1>2. Tree(made) /\ p \in made.dirs /\ gone.dirs \subseteq made.dirs /\ file \in ConfigFiles
  BY <1>1, TreeMkdirAll, WorkspaceAssumption
<1>3. Cloned(d, p) = e
  BY DEF Cloned
<1> HIDE DEF made, file, gone
<1> DEFINE x == [made EXCEPT !.repos = @ \cup {p}]
<1>t. made \in [dirs : SUBSET Paths, repos : SUBSET Paths, file : [Paths -> ConfigFiles]]
  BY <1>2 DEF Tree
<1>x. x = [dirs |-> made.dirs, repos |-> made.repos \cup {p}, file |-> made.file]
  BY <1>t
<1> HIDE DEF x
<1>e. [x EXCEPT !.file[p] = file]
        = [dirs |-> made.dirs, repos |-> made.repos \cup {p}, file |-> [made.file EXCEPT ![p] = file]]
  BY <1>x
<1>f. e = [x EXCEPT !.file[p] = file]
  BY DEF x
<1> HIDE DEF made, file, gone, e
<1>4. Tree(e) /\ e.dirs = made.dirs
  BY <1>2, <1>e, <1>f, TreeFilled
<1> QED
  BY <1>2, <1>3, <1>4 DEF gone

(* An action leaves a tree, and takes away only what is in its place, and  *)
(* only when it deletes or clones.                                         *)
Actions == [at : Paths, as : {"listed", "resolved"}, type : {"update", "clone", "delete"}]

LEMMA TreeOutcome ==
  ASSUME NEW d, Tree(d), NEW a \in Actions, NEW o \in Outcomes(d, a)
  PROVE  /\ Tree(o.d) /\ o.ok \in BOOLEAN
         /\ \A p \in d.dirs \ o.d.dirs : Within(a.at, p) /\ a.type \in {"delete", "clone"}
<1> DEFINE gone == Without(d, a.at)
           half == [gone EXCEPT !.dirs = d.dirs]
           fresh == Cloned(d, a.at)
           kept == [d EXCEPT !.file[a.at] = IF Inside[a.at] = NoFile THEN @ ELSE Inside[a.at]]
<1>1. a.at \in Paths /\ a.type \in {"update", "clone", "delete"}
  BY DEF Actions
<1>2. Tree(gone) /\ \A p \in d.dirs \ gone.dirs : Within(a.at, p)
  BY <1>1, TreeWithout
<1>3. Tree(fresh) /\ \A p \in d.dirs \ fresh.dirs : Within(a.at, p)
  BY <1>1, <1>2, TreeCloned
<1>4. Tree(half) /\ half.dirs = d.dirs
  <2>1. gone \in [dirs : SUBSET Paths, repos : SUBSET Paths, file : [Paths -> ConfigFiles]]
    BY <1>2 DEF Tree
  <2>2. gone.dirs \subseteq d.dirs
    BY <1>1, TreeWithout
  <2> HIDE DEF gone
  <2>3. half.dirs = d.dirs /\ half.repos = gone.repos /\ half.file = gone.file
    BY <2>1
  <2>4. half \in [dirs : SUBSET Paths, repos : SUBSET Paths, file : [Paths -> ConfigFiles]]
    BY <2>1 DEF Tree
  <2> HIDE DEF half
  <2> QED
    BY <1>2, <2>2, <2>3, <2>4 DEF Tree
<1>5. a.at \in d.repos => Tree(kept) /\ kept.dirs = d.dirs
  <2> SUFFICES ASSUME a.at \in d.repos PROVE Tree(kept) /\ kept.dirs = d.dirs
    OBVIOUS
  <2> DEFINE file == IF Inside[a.at] = NoFile THEN d.file[a.at] ELSE Inside[a.at]
  <2>1. a.at \in d.dirs /\ file \in ConfigFiles
    BY <1>1, WorkspaceAssumption DEF Tree
  <2>2. kept = [dirs |-> d.dirs, repos |-> d.repos, file |-> [d.file EXCEPT ![a.at] = file]]
    BY <1>1 DEF Tree
  <2> HIDE DEF file, kept
  <2> QED
    BY <2>1, <2>2, TreeFilled
<1>6. \/ o = [d |-> d, ok |-> FALSE]
      \/ a.type = "delete" /\ (o = [d |-> gone, ok |-> TRUE] \/ o = [d |-> half, ok |-> FALSE])
      \/ a.type = "clone" /\ (o = [d |-> fresh, ok |-> TRUE] \/ o = [d |-> gone, ok |-> FALSE])
      \/ a.type = "update" /\ a.at \notin d.dirs /\ o = [d |-> fresh, ok |-> TRUE]
      \/ a.type = "update" /\ a.at \in d.repos /\ o = [d |-> kept, ok |-> TRUE]
  <2> HIDE DEF gone, half, fresh, kept
  <2> QED
    BY DEF Outcomes, gone, half, fresh, kept
<1>7. a.at \notin d.dirs => \A p \in d.dirs : ~Within(a.at, p)
  BY <1>1 DEF Tree, Ancestors
<1> HIDE DEF gone, half, fresh, kept
<1>8. CASE o = [d |-> d, ok |-> FALSE]
  BY <1>8
<1>9. CASE a.type = "delete" /\ (o = [d |-> gone, ok |-> TRUE] \/ o = [d |-> half, ok |-> FALSE])
  <2>1. CASE o = [d |-> gone, ok |-> TRUE]
    BY <1>2, <1>9, <2>1
  <2>2. CASE o = [d |-> half, ok |-> FALSE]
    BY <1>4, <2>2
  <2> QED
    BY <1>9, <2>1, <2>2
<1>10. CASE a.type = "clone" /\ (o = [d |-> fresh, ok |-> TRUE] \/ o = [d |-> gone, ok |-> FALSE])
  <2>1. CASE o = [d |-> fresh, ok |-> TRUE]
    BY <1>3, <1>10, <2>1
  <2>2. CASE o = [d |-> gone, ok |-> FALSE]
    BY <1>2, <1>10, <2>2
  <2> QED
    BY <1>10, <2>1, <2>2
<1>11. CASE a.at \notin d.dirs /\ o = [d |-> fresh, ok |-> TRUE]
  BY <1>3, <1>7, <1>11
<1>12. CASE a.at \in d.repos /\ o = [d |-> kept, ok |-> TRUE]
  BY <1>5, <1>12
<1> QED
  BY <1>6, <1>8, <1>9, <1>10, <1>11, <1>12

-----------------------------------------------------------------------------
(* The types.                                                              *)

Frames ==
  [of : Paths, list : SUBSET Paths, ok : SUBSET Actions, dirs : SUBSET Actions, depth : Nat, at : {"sync", "descend"}]

ControlInv ==
  /\ pc \in DOMAIN Following \cup {"load", "self", "ready", "ask", "execute", "children", "done"}
  /\ todo \subseteq DOMAIN Workspaces /\ (pc = "forge" => todo \subseteq Names("forge"))
  /\ exit \in -1..1 /\ (exit = -1 <=> pc # "done") /\ moves \in Nat

OnePerPath(actions) == \A a, b \in actions : a.at = b.at /\ a.as = b.as => a = b

(* Before the plan is executed nothing is settled.                         *)
PlanInv ==
  /\ plan \subseteq Actions /\ OnePerPath(plan)
  /\ results \in [ok : SUBSET Actions, failed : SUBSET Actions]
  /\ Settled \subseteq plan /\ results.ok \cap results.failed = {}
  /\ pc \in Early => Settled = {}

KidsInv == kids \in Seq(Frames) /\ visited \subseteq Paths

TypeInv == Tree(disk) /\ ControlInv /\ PlanInv /\ KidsInv

LEMMA TypeInvInit == Init => TypeInv
<1> SUFFICES ASSUME Init PROVE TypeInv
  OBVIOUS
<1>1. Tree(disk)
  BY DiskAssumption DEF Init
<1>2. ControlInv
  BY DEF Init, ControlInv
<1>3. PlanInv
  BY DEF Init, PlanInv, OnePerPath, Settled
<1>4. KidsInv
  BY WorkspaceAssumption DEF Init, KidsInv
<1> QED
  BY <1>1, <1>2, <1>3, <1>4 DEF TypeInv

(* Where the command is, and what it has still to deal with.               *)
LEMMA ControlStep == ControlInv /\ [Next]_vars => ControlInv'
<1> SUFFICES ASSUME ControlInv, [Next]_vars PROVE ControlInv'
  OBVIOUS
<1> USE DEF ControlInv, Stay, Goto, Leave, Dealt
<1>1. CASE UNCHANGED <<pc, todo, exit>> /\ moves' \in {moves, moves + 1}
  BY <1>1
<1>2. CASE Loaded
  <2>1. Kind("config") \subseteq DOMAIN Workspaces
    BY DEF Kind
  <2> QED
    BY <1>2, <2>1 DEF Loaded, Following
<1>3. ASSUME NEW n \in DOMAIN Workspaces, Bootstrap(n) \/ PlanForge(n) \/ PlanGit(n) \/ PlanConfig(n)
      PROVE  ControlInv'
  BY <1>3 DEF Bootstrap, PlanForge, PlanGit, PlanConfig
<1>4. CASE NextPhase
  <2>1. \A place : Names(place) \subseteq DOMAIN Workspaces
    BY DEF Names, Kind
  <2> QED
    BY <1>4, <2>1 DEF NextPhase, Following
<1>11. CASE SelfSynced
  BY <1>11 DEF SelfSynced
<1>5. CASE Ready
  BY <1>5 DEF Ready
<1>6. CASE Ask
  BY <1>6 DEF Ask
<1>7. CASE Executed
  BY <1>7 DEF Executed, ExitCode
<1>8. CASE PushSynced
  BY <1>8 DEF PushSynced, ExitCode
<1>9. CASE Load \/ RunChild \/ SyncListed \/ CollectChildren \/ ChildrenDone \/ Developer \/ UNCHANGED vars
  BY <1>1, <1>9 DEF Load, RunChild, SyncListed, CollectChildren, ChildrenDone, Developer, vars
<1>10. ASSUME NEW a \in plan, Execute(a) PROVE ControlInv'
  BY <1>1, <1>10 DEF Execute
<1> QED
  BY <1>2, <1>3, <1>4, <1>5, <1>6, <1>7, <1>8, <1>9, <1>10, <1>11 DEF Next, Command

(* All elements but the last.                                              *)
LEMMA AllButLast ==
  ASSUME NEW S, NEW s \in Seq(S), s # <<>>
  PROVE  /\ Len(s) \in Nat /\ Len(s) > 0
         /\ Front(s) \in Seq(S) /\ Len(Front(s)) = Len(s) - 1
         /\ \A i \in 1..Len(s) - 1 : Front(s)[i] = s[i]
<1> DEFINE m == Len(s) - 1
<1>1. Len(s) \in Nat /\ Len(s) > 0
  OBVIOUS
<1>2. Front(s) = SubSeq(s, 1, m)
  BY DEF Front
<1>6. m \in 0..Len(s) /\ 1 \in 1..Len(s) + 1
  BY <1>1
<1> HIDE DEF m
<1>3. m \in Nat /\ (1 <= m \/ m = 0) /\ m - 1 + 1 = m
  BY <1>1, <1>6
<1>4. /\ SubSeq(s, 1, m) \in Seq(S) /\ Len(SubSeq(s, 1, m)) = IF 1 <= m THEN m - 1 + 1 ELSE 0
      /\ \A i \in 1..m - 1 + 1 : SubSeq(s, 1, m)[i] = s[1 + i - 1]
  BY <1>6, SubSeqProperties
<1>5. \A i \in 1..m : SubSeq(s, 1, m)[i] = s[i]
  BY <1>3, <1>4
<1> QED
  BY <1>1, <1>2, <1>3, <1>4, <1>5 DEF m

(* Replacing the last element leaves the others.                           *)
LEMMA ReplacedLast ==
  ASSUME NEW S, NEW s \in Seq(S), s # <<>>, NEW r \in S
  PROVE  LET t == Append(Front(s), r)
         IN  t \in Seq(S) /\ Len(t) = Len(s) /\ t[Len(s)] = r /\ \A i \in 1..Len(s) - 1 : t[i] = s[i]
BY AllButLast

(* A forge workspace the command deals with.                               *)
LEMMA ForgeNamed ==
  ASSUME ControlInv, NEW n, PlanForge(n) PROVE n \in Names("forge") /\ n \in Kind("forge") /\ pc = "forge"
  BY DEF ControlInv, PlanForge, Stay, Names

(* The last frame and what replaces it.                                    *)
LEMMA FrameTypes ==
  ASSUME kids \in Seq(Frames), kids # <<>>
  PROVE  /\ Last(kids) \in Frames /\ Front(kids) \in Seq(Frames)
         /\ \A f \in Frames : Replaced(f) \in Seq(Frames)
<1>1. Len(kids) \in Nat /\ Len(kids) > 0 /\ Front(kids) \in Seq(Frames)
  BY AllButLast
<1>2. Last(kids) \in Frames
  BY <1>1 DEF Last
<1> QED
  BY <1>1, <1>2 DEF Replaced

LEMMA KidsStep == TypeInv /\ [Next]_vars => KidsInv'
<1> SUFFICES ASSUME TypeInv, [Next]_vars PROVE KidsInv'
  OBVIOUS
<1>0. kids \in Seq(Frames) /\ visited \subseteq Paths /\ Tree(disk) /\ PlanInv
  BY DEF TypeInv, KidsInv
<1>1. CASE UNCHANGED <<kids, visited>>
  BY <1>0, <1>1 DEF KidsInv
<1>2. CASE Executed
  <2>1. Frame(<<>>, {}, results.ok, 0) \in Frames
    BY <1>0, WorkspaceAssumption DEF PlanInv, Frame, Frames
  <2> QED
    <3> DEFINE f == Frame(<<>>, {}, results.ok, 0)
    <3>1. visited' = visited /\ kids' \in {kids, <<f>>, <<>>}
      BY <1>2 DEF Executed
    <3>2. f \in Frames
      BY <2>1
    <3> HIDE DEF f
    <3>3. <<f>> \in Seq(Frames) /\ <<>> \in Seq(Frames)
      BY <3>2
    <3> QED
      BY <1>0, <3>1, <3>3 DEF KidsInv
<1>3. CASE RunChild
  <2>1. kids # <<>> /\ Last(kids) \in Frames
    BY <1>0, <1>3, FrameTypes DEF RunChild
  <2>2. PICK a \in Last(kids).dirs :
          /\ visited' = Visited(a.at)
          /\ \/ kids' = Replaced([Last(kids) EXCEPT !.dirs = @ \ {a}])
             \/ kids' = Append(Replaced([Last(kids) EXCEPT !.dirs = @ \ {a}]),
                               Frame(a.at, disk.file[a.at].lists \ {a.at}, {}, Last(kids).depth + 1))
    BY <1>3 DEF RunChild
  <2> DEFINE p == a.at
  <2>3. p \in Paths /\ [Last(kids) EXCEPT !.dirs = @ \ {a}] \in Frames /\ Last(kids).depth + 1 \in Nat
    BY <2>1 DEF Frames, Actions
  <2>4. disk.file[p].lists \ {p} \in SUBSET Paths
    BY <1>0, <2>3 DEF Tree, ConfigFiles
  <2>5. Frame(p, disk.file[p].lists \ {p}, {}, Last(kids).depth + 1) \in Frames
    BY <2>3, <2>4 DEF Frame, Frames
  <2>6. Replaced([Last(kids) EXCEPT !.dirs = @ \ {a}]) \in Seq(Frames)
    BY <1>0, <2>1, <2>3, FrameTypes
  <2> QED
    <3> DEFINE t == Replaced([Last(kids) EXCEPT !.dirs = @ \ {a}])
               f == Frame(p, disk.file[p].lists \ {p}, {}, Last(kids).depth + 1)
    <3>1. t \in Seq(Frames) /\ f \in Frames /\ (kids' = t \/ kids' = Append(t, f))
      BY <2>2, <2>5, <2>6
    <3>2. visited' \subseteq Paths
      BY <1>0, <2>2, <2>3 DEF Visited
    <3> HIDE DEF t, f
    <3>3. Append(t, f) \in Seq(Frames)
      BY <3>1
    <3> QED
      BY <3>1, <3>2, <3>3 DEF KidsInv
<1>4. CASE SyncListed
  <2>1. kids # <<>> /\ Last(kids) \in Frames /\ UNCHANGED visited
    BY <1>0, <1>4, FrameTypes DEF SyncListed
  <2>2. PICK p \in Last(kids).list :
          \E ok \in {Last(kids).ok, Last(kids).ok \cup {Update(p)}} :
            kids' = Replaced([Last(kids) EXCEPT !.list = @ \ {p}, !.ok = ok])
    <3>1. PICK p \in Last(kids).list : \E o \in Outcomes(disk, Update(p)) :
            kids' = Replaced([Last(kids) EXCEPT !.list = @ \ {p}, !.ok = IF o.ok THEN @ \cup {Update(p)} ELSE @])
      BY <1>4 DEF SyncListed
    <3> QED
      BY <2>1, <3>1 DEF Frames
  <2>3. PICK ok \in {Last(kids).ok, Last(kids).ok \cup {Update(p)}} :
          kids' = Replaced([Last(kids) EXCEPT !.list = @ \ {p}, !.ok = ok])
    BY <2>2
  <2>5. p \in Paths /\ Update(p) \in Actions
    BY <2>1 DEF Update, Action, Actions, Frames
  <2>4. [Last(kids) EXCEPT !.list = @ \ {p}, !.ok = ok] \in Frames
    BY <2>1, <2>5 DEF Frames
  <2> QED
    BY <1>0, <2>1, <2>3, <2>4, FrameTypes DEF KidsInv
<1>5. CASE CollectChildren
  <2>1. kids # <<>> /\ Last(kids) \in Frames /\ UNCHANGED visited
    BY <1>0, <1>5, FrameTypes DEF CollectChildren
  <2> DEFINE dirs == IF Last(kids).depth >= MaxDepth THEN {} ELSE Children(Last(kids).ok, disk, visited)
  <2>2. dirs \subseteq Actions
    BY <2>1 DEF Children, Frames
  <2>3. kids' = Replaced([Last(kids) EXCEPT !.at = "descend", !.dirs = dirs])
    BY <1>5 DEF CollectChildren
  <2> HIDE DEF dirs
  <2>4. [Last(kids) EXCEPT !.at = "descend", !.dirs = dirs] \in Frames
    BY <2>1, <2>2 DEF Frames
  <2> QED
    BY <1>0, <2>1, <2>3, <2>4, FrameTypes DEF KidsInv
<1>6. CASE ChildrenDone
  BY <1>0, <1>6, FrameTypes DEF ChildrenDone, KidsInv
<1>7. ASSUME NEW n \in DOMAIN Workspaces, Bootstrap(n) \/ PlanForge(n) \/ PlanGit(n) \/ PlanConfig(n)
      PROVE  UNCHANGED <<kids, visited>>
  BY <1>7 DEF Bootstrap, PlanForge, PlanGit, PlanConfig, NoSync
<1>8. ASSUME NEW a \in plan, Execute(a) PROVE UNCHANGED <<kids, visited>>
  BY <1>8 DEF Execute
<1>9. CASE Load \/ Loaded \/ NextPhase \/ SelfSynced \/ Ready \/ Ask \/ PushSynced \/ Developer \/ UNCHANGED vars
  BY <1>1, <1>9 DEF Load, Loaded, NextPhase, SelfSynced, Ready, Ask, PushSynced, Developer, NoSync, vars
<1> QED
  BY <1>1, <1>2, <1>3, <1>4, <1>5, <1>6, <1>7, <1>8, <1>9 DEF Next, Command

-----------------------------------------------------------------------------
(* What is planned.                                                        *)

LEMMA PathLength ==
  ASSUME NEW p \in Paths
  PROVE  Len(p) \in Nat /\ (p = <<>> <=> Len(p) = 0)
  BY WorkspaceAssumption

(* The planner of a forge names a place once, and never the directory      *)
(* where the command runs.                                                 *)
LEMMA ForgePlanPlaces ==
  ASSUME Tree(disk), NEW n \in Kind("forge")
  PROVE  /\ ForgePlan(n) \subseteq Actions /\ OnePerPath(ForgePlan(n))
         /\ \A a \in ForgePlan(n) : a.at # <<>>
<1> DEFINE w == Workspaces[n]
           deletes == {Action(p, "resolved", "delete") : p \in IF w.cleanup THEN Orphans(n) ELSE {}}
<1>1. w.dir \in Paths /\ Len(w.dir) \in Nat
  BY PlacesAssumption, PathLength DEF Kind
<1>2. \A r \in Wanted(n) : Target(w, r) \in Paths \ {<<>>} /\ Last(Target(w, r)) \in Expected(n)
  BY PlacesAssumption DEF Wanted, Expected
<1>3. \A a \in Sync(n) : /\ a.at \in Paths \ {<<>>} /\ Last(a.at) \in Expected(n)
                          /\ a = Action(a.at, "resolved", IF a.at \in disk.repos THEN "update" ELSE "clone")
  <2> HIDE DEF w
  <2> QED
    BY <1>2 DEF Sync, Action, w
<1>4. \A a \in deletes : /\ a.at \in Paths \ {<<>>} /\ Last(a.at) \notin Expected(n)
                          /\ a = Action(a.at, "resolved", "delete")
  <2>1. \A p \in Orphans(n) : p \in Paths /\ p # <<>> /\ Last(p) \notin Expected(n)
    BY <1>1, PathLength DEF Orphans, Tree
  <2> QED
    BY <2>1 DEF Action
<1>5. ForgePlan(n) \subseteq Sync(n) \cup deletes
  BY DEF ForgePlan
<1> HIDE DEF deletes
<1>6. \A a \in Sync(n) \cup deletes : a \in Actions /\ a.at # <<>>
  <2>1. \A a \in Sync(n) : a \in Actions /\ a.at # <<>>
    BY <1>3 DEF Actions, Action
  <2>2. \A a \in deletes : a \in Actions /\ a.at # <<>>
    BY <1>4 DEF Actions, Action
  <2> QED
    BY <2>1, <2>2
<1>7. OnePerPath(Sync(n) \cup deletes)
  <2> SUFFICES ASSUME NEW a \in Sync(n) \cup deletes, NEW b \in Sync(n) \cup deletes, a.at = b.at PROVE a = b
    BY DEF OnePerPath
  <2> QED
    BY <1>3, <1>4
<1> QED
  BY <1>5, <1>6, <1>7 DEF OnePerPath

LEMMA FlatPlanPlaces ==
  ASSUME NEW lists \in SUBSET Paths, NEW own
  PROVE  FlatActions(lists, own) \subseteq Actions /\ OnePerPath(FlatActions(lists, own))
  BY DEF FlatActions, Update, Action, Actions, OnePerPath

LEMMA DeduplicatedPlaces ==
  ASSUME NEW first \in SUBSET Actions, NEW more \in SUBSET Actions, OnePerPath(first), OnePerPath(more)
  PROVE  /\ Deduplicated(first, more) \subseteq Actions /\ OnePerPath(Deduplicated(first, more))
         /\ first \subseteq Deduplicated(first, more)
  BY DEF Deduplicated, OnePerPath

(* A plan changes only as long as nothing is settled.                      *)
LEMMA Planned ==
  ASSUME PlanInv, pc \in Early, plan' \subseteq Actions, OnePerPath(plan'), UNCHANGED results
  PROVE  PlanInv'
<1>1. Settled = {} /\ Settled' = Settled
  BY DEF PlanInv, Settled
<1> QED
  BY <1>1 DEF PlanInv

LEMMA PlanStep == TypeInv /\ [Next]_vars => PlanInv'
<1> SUFFICES ASSUME TypeInv, [Next]_vars PROVE PlanInv'
  OBVIOUS
<1>0. Tree(disk) /\ ControlInv /\ PlanInv
  BY DEF TypeInv
<1> USE DEF Stay, Goto, Leave, NoSync, Dealt
<1>1. ASSUME UNCHANGED <<plan, results>>, pc' \in Early => pc \in Early PROVE PlanInv'
  BY <1>0, <1>1 DEF PlanInv, Settled
<1>2. CASE Loaded
  <2>1. FlatActions(Listed, <<>>) \subseteq Actions /\ OnePerPath(FlatActions(Listed, <<>>))
    BY WorkspaceAssumption, FlatPlanPlaces
  <2> QED
    BY <1>0, <1>2, <2>1, Planned DEF Loaded, Early
<1>3. ASSUME NEW n \in DOMAIN Workspaces, Bootstrap(n) PROVE PlanInv'
  BY <1>1, <1>3 DEF Bootstrap, Early
<1>4. ASSUME NEW n \in DOMAIN Workspaces, PlanForge(n) PROVE PlanInv'
  <2>1. n \in Kind("forge") /\ pc \in Early /\ UNCHANGED results
    BY <1>0, <1>4, ForgeNamed DEF PlanForge, Early
  <2>2. plan' \in {plan, Deduplicated(plan, ForgePlan(n))}
    BY <1>4 DEF PlanForge
  <2>3. plan' \subseteq Actions /\ OnePerPath(plan')
    BY <1>0, <2>1, <2>2, ForgePlanPlaces, DeduplicatedPlaces DEF PlanInv
  <2> QED
    BY <1>0, <2>1, <2>3, Planned
<1>5. ASSUME NEW n \in DOMAIN Workspaces, PlanGit(n) PROVE PlanInv'
  <2> DEFINE pull == Action(Workspaces[n].dir, "resolved", "update")
  <2>1. pc \in Early /\ UNCHANGED results /\ plan' \in {plan, Deduplicated(plan, {pull})}
    BY <1>5 DEF PlanGit, Early
  <2>2. {pull} \subseteq Actions /\ OnePerPath({pull})
    BY PlacesAssumption DEF Action, Actions, OnePerPath
  <2> HIDE DEF pull
  <2>3. plan' \subseteq Actions /\ OnePerPath(plan')
    BY <1>0, <2>1, <2>2, DeduplicatedPlaces DEF PlanInv
  <2> QED
    BY <1>0, <2>1, <2>3, Planned
<1>6. ASSUME NEW n \in DOMAIN Workspaces, PlanConfig(n) PROVE PlanInv'
  <2> DEFINE more == FlatActions(disk.file[Workspaces[n].dir].lists, Workspaces[n].dir)
  <2>1. pc \in Early /\ UNCHANGED results /\ plan' \in {plan, Deduplicated(plan, more)}
    BY <1>6 DEF PlanConfig, Early
  <2>2. disk.file[Workspaces[n].dir].lists \in SUBSET Paths
    BY <1>0, PlacesAssumption DEF Tree, ConfigFiles
  <2>3. more \subseteq Actions /\ OnePerPath(more)
    BY <2>2, FlatPlanPlaces
  <2> HIDE DEF more
  <2>4. plan' \subseteq Actions /\ OnePerPath(plan')
    BY <1>0, <2>1, <2>3, DeduplicatedPlaces DEF PlanInv
  <2> QED
    BY <1>0, <2>1, <2>4, Planned
<1>7. CASE NextPhase
  BY <1>1, <1>7 DEF NextPhase, Following, Early
<1>14. CASE SelfSynced
  BY <1>1, <1>14 DEF SelfSynced, Early
<1>8. CASE Ready
  BY <1>1, <1>8 DEF Ready, Early
<1>9. CASE Ask
  BY <1>1, <1>9 DEF Ask, Early
<1>10. CASE Executed
  BY <1>1, <1>10 DEF Executed, Early
<1>11. CASE PushSynced
  BY <1>1, <1>11 DEF PushSynced, Early
<1>12. CASE Load \/ RunChild \/ SyncListed \/ CollectChildren \/ ChildrenDone \/ Developer \/ UNCHANGED vars
  BY <1>1, <1>12 DEF Load, RunChild, SyncListed, CollectChildren, ChildrenDone, Developer, vars
<1>13. ASSUME NEW a \in plan, Execute(a) PROVE PlanInv'
  <2>1. a \in Actions /\ a \notin Settled /\ UNCHANGED plan /\ pc' \notin Early
    BY <1>0, <1>13 DEF Execute, PlanInv, Early
  <2>2. \E ok : Settle(a, ok)
    BY <1>13 DEF Execute
  <2>3. \/ results' = [results EXCEPT !.ok = @ \cup {a}]
        \/ results' = [results EXCEPT !.failed = @ \cup {a}]
    BY <2>2 DEF Settle
  <2>4. /\ results' \in [ok : SUBSET Actions, failed : SUBSET Actions]
        /\ Settled' = Settled \cup {a} /\ results'.ok \cap results'.failed = {}
    BY <1>0, <2>1, <2>3 DEF PlanInv, Settled
  <2> QED
    BY <1>0, <2>1, <2>4 DEF PlanInv
<1> QED
  BY <1>2, <1>3, <1>4, <1>5, <1>6, <1>7, <1>8, <1>9, <1>10, <1>11, <1>12, <1>13, <1>14 DEF Next, Command

-----------------------------------------------------------------------------
(* The disk stays a tree, and the command makes directories disappear only *)
(* by an action that deletes or clones.                                    *)

Removes(a) == a.type \in {"delete", "clone"}

LEMMA DiskStep ==
  ASSUME TypeInv, [Next]_vars
  PROVE  /\ Tree(disk')
         /\ moves' = moves => \A p \in disk.dirs \ disk'.dirs : \E a \in plan : Removes(a) /\ Within(a.at, p)
<1> DEFINE Grows == Tree(disk') /\ disk.dirs \subseteq disk'.dirs
<1>0. Tree(disk) /\ ControlInv /\ PlanInv /\ KidsInv
  BY DEF TypeInv
<1>1. CASE UNCHANGED disk
  BY <1>0, <1>1
<1>2. ASSUME NEW p \in Paths, Linked(p) PROVE Grows
  BY <1>0, <1>2, TreeWritten, WorkspaceAssumption DEF Linked
<1>3. ASSUME NEW n \in DOMAIN Workspaces, Bootstrap(n) PROVE Grows
  <2>1. Workspaces[n].dir \in Paths
    BY PlacesAssumption
  <2>2. \/ UNCHANGED disk \/ Linked(Workspaces[n].dir) \/ disk' = MkdirAll(disk, Workspaces[n].dir)
        \/ disk' = WriteFile(disk, Workspaces[n].dir, "tool", {})
    BY <1>3 DEF Bootstrap
  <2> QED
    BY <1>0, <1>2, <2>1, <2>2, TreeWritten, TreeMkdirAll
<1>4. ASSUME NEW n \in DOMAIN Workspaces, PlanForge(n) PROVE Grows
  <2> DEFINE w == Workspaces[n]
             lists == {<<Last(a.at)>> : a \in ForgePlan(n)}
  <2>1. n \in Kind("forge") /\ w.dir \in Paths
    BY <1>0, <1>4, ForgeNamed, PlacesAssumption
  <2>2. lists \subseteq Paths
    BY <1>0, <2>1, ForgePlanPlaces, PlacesAssumption DEF Actions
  <2>3. UNCHANGED disk \/ Linked(w.dir) \/ disk' = WithChildConfig(n, ForgePlan(n)) \/ disk' = MkdirAll(disk, w.dir)
    BY <1>4 DEF PlanForge
  <2>4. WithChildConfig(n, ForgePlan(n)) \in {disk, MkdirAll(disk, w.dir), WriteFile(disk, w.dir, "tool", lists)}
    BY DEF WithChildConfig
  <2> HIDE DEF w, lists
  <2> QED
    BY <1>0, <1>2, <2>1, <2>2, <2>3, <2>4, TreeWritten, TreeMkdirAll
<1>5. ASSUME NEW n \in DOMAIN Workspaces, PlanGit(n) \/ PlanConfig(n) PROVE Grows
  <2>1. Workspaces[n].dir \in Paths
    BY PlacesAssumption
  <2>2. UNCHANGED disk \/ Linked(Workspaces[n].dir)
    BY <1>5 DEF PlanGit, PlanConfig
  <2> QED
    BY <1>0, <1>2, <2>1, <2>2
<1>6. CASE SyncListed
  <2>1. Last(kids) \in Frames
    BY <1>0, <1>6, FrameTypes DEF KidsInv, SyncListed
  <2>2. PICK p \in Last(kids).list : \E o \in Outcomes(disk, Update(p)) : disk' = o.d
    BY <1>6 DEF SyncListed
  <2>3. PICK o \in Outcomes(disk, Update(p)) : disk' = o.d
    BY <2>2
  <2>4. Update(p) \in Actions /\ Update(p).type = "update"
    BY <2>1 DEF Update, Action, Actions, Frames
  <2>5. Tree(disk') /\ \A q \in disk.dirs \ disk'.dirs : Update(p).type \in {"delete", "clone"}
    BY <1>0, <2>3, <2>4, TreeOutcome
  <2> QED
    BY <2>4, <2>5
<1>7. ASSUME NEW a \in plan, Execute(a)
      PROVE  Tree(disk') /\ \A p \in disk.dirs \ disk'.dirs : Removes(a) /\ Within(a.at, p)
  <2>1. a \in Actions
    BY <1>0, <1>7 DEF PlanInv
  <2>2. UNCHANGED disk \/ \E o \in Outcomes(disk, a) : disk' = o.d
    BY <1>7 DEF Execute
  <2> QED
    BY <1>0, <2>1, <2>2, TreeOutcome DEF Removes
<1>8. CASE Developer
  <2>1. moves' # moves
    BY <1>0, <1>8 DEF ControlInv, Developer
  <2>2. PICK p \in Paths : disk' \in {MkdirAll(disk, p), WriteFile(disk, p, "user", {}), Cloned(disk, p), Without(disk, p)}
    BY <1>8 DEF Developer
  <2>3. Tree(disk')
    BY <1>0, <2>2, TreeMkdirAll, TreeWritten, TreeCloned, TreeWithout
  <2> QED
    BY <2>1, <2>3
<1>9. CASE Load \/ Loaded \/ NextPhase \/ SelfSynced \/ Ready \/ Ask \/ Executed \/ RunChild \/ CollectChildren \/ ChildrenDone
           \/ PushSynced \/ UNCHANGED vars
  BY <1>1, <1>9 DEF Load, Loaded, NextPhase, SelfSynced, Ready, Ask, Executed, RunChild, CollectChildren, ChildrenDone, PushSynced, vars
<1> QED
  BY <1>3, <1>4, <1>5, <1>6, <1>7, <1>8, <1>9 DEF Next, Command

LEMMA TypeInvariance == Spec => []TypeInv
<1>1. TypeInv /\ [Next]_vars => TypeInv'
  <2>1. TypeInv => ControlInv
    BY DEF TypeInv
  <2> QED
    BY <2>1, DiskStep, ControlStep, PlanStep, KidsStep DEF TypeInv
<1> QED
  BY TypeInvInit, <1>1, PTL DEF Spec

(* The command and the disk keep their types, the disk stays a tree, one   *)
(* action is planned per path as it is spelled, and an exit code is given  *)
(* exactly at the end.                                                     *)
THEOREM TypeHolds == Spec => []TypeOK
<1>1. TypeInv => TypeOK
  BY DEF TypeInv, ControlInv, PlanInv, KidsInv, OnePerPath, TypeOK
<1> QED
  BY TypeInvariance, <1>1, PTL

-----------------------------------------------------------------------------
(* What may disappear.                                                     *)

(* What an action removes was seen to be loose when it was planned.        *)
LooseInv ==
  /\ seen.loose \subseteq Paths
  /\ \A a \in plan : Removes(a) => \E q \in seen.loose : Within(q, a.at)

LEMMA ForgeRemovesLoose ==
  ASSUME Tree(disk), NEW n \in Kind("forge"), NEW a \in ForgePlan(n), Removes(a)
  PROVE  a.at \in Loose(n)
<1> DEFINE w == Workspaces[n]
<1>1. a \in Sync(n) \/ (w.cleanup /\ a.at \in Orphans(n))
  BY DEF ForgePlan, Action
<1>2. CASE a \in Sync(n)
  <2>1. a.type = "clone"
    BY <1>2 DEF Sync, Action, Removes
  <2> QED
    BY <1>2, <2>1 DEF Loose, Places
<1>3. CASE w.cleanup /\ a.at \in Orphans(n)
  <2>1. /\ a.at \in disk.dirs /\ a.at \in Paths /\ Len(a.at) = Len(w.dir) + 1 /\ Within(w.dir, a.at)
        /\ Last(a.at) \notin Expected(n)
    BY <1>3 DEF Orphans, Tree
  <2>2. \A r \in Forge[n] : Target(w, r) # a.at
    BY <2>1 DEF Expected
  <2> QED
    BY <2>1, <2>2 DEF Loose
<1> QED
  BY <1>1, <1>2, <1>3

LEMMA LoosePlaces == ASSUME Tree(disk), NEW n \in Kind("forge") PROVE Loose(n) \subseteq Paths
<1>1. \A a \in Sync(n) : a.at \in Paths
  BY PlacesAssumption DEF Sync, Action, Wanted
<1> QED
  BY <1>1 DEF Loose, Places, Tree

LEMMA LooseStep == TypeInv /\ Kept /\ LooseInv /\ [Next]_vars => LooseInv'
<1> SUFFICES ASSUME TypeInv, Kept, LooseInv, [Next]_vars PROVE LooseInv'
  OBVIOUS
<1>0. Tree(disk) /\ ControlInv /\ Observed
  BY DEF TypeInv, Kept
<1>1. ASSUME \A a \in plan' : a \in plan \/ ~Removes(a), seen'.loose = seen.loose PROVE LooseInv'
  BY <1>1 DEF LooseInv
<1>2. CASE Loaded
  BY <1>1, <1>2 DEF Loaded, FlatActions, Update, Action, Removes
<1>3. ASSUME NEW n \in DOMAIN Workspaces, PlanForge(n) PROVE LooseInv'
  <2>1. n \in Kind("forge")
    BY <1>0, <1>3, ForgeNamed
  <2>2. CASE UNCHANGED <<plan, seen>>
    BY <1>1, <2>2
  <2>3. CASE plan' = Deduplicated(plan, ForgePlan(n)) /\ seen' = [seen EXCEPT !.loose = @ \cup Loose(n)]
    <3>1. seen'.loose = seen.loose \cup Loose(n) /\ Loose(n) \subseteq Paths
      BY <1>0, <2>1, <2>3, LoosePlaces DEF Observed
    <3>2. \A a \in ForgePlan(n) : Removes(a) => a.at \in Loose(n)
      BY <1>0, <2>1, ForgeRemovesLoose
    <3>3. \A a \in plan' : a \in plan \/ a \in ForgePlan(n)
      BY <2>3 DEF Deduplicated
    <3> QED
      BY <3>1, <3>2, <3>3, WithinItself DEF LooseInv
  <2> QED
    BY <1>3, <2>2, <2>3 DEF PlanForge
<1>4. ASSUME NEW n \in DOMAIN Workspaces, Bootstrap(n) \/ PlanGit(n) \/ PlanConfig(n) PROVE LooseInv'
  BY <1>1, <1>4 DEF Bootstrap, PlanGit, PlanConfig, FlatActions, Update, Action, Deduplicated, Removes
<1>5. ASSUME NEW a \in plan, Execute(a) PROVE LooseInv'
  BY <1>0, <1>1, <1>5 DEF Execute, Observed
<1>6. CASE SyncListed
  BY <1>0, <1>1, <1>6 DEF SyncListed, Observed
<1>7. CASE SelfSynced \/ Ask \/ PushSynced \/ Developer
  BY <1>0, <1>1, <1>7 DEF SelfSynced, Ask, PushSynced, Developer, Observed
<1>8. CASE Load \/ NextPhase \/ Ready \/ Executed \/ RunChild \/ CollectChildren \/ ChildrenDone \/ UNCHANGED vars
  BY <1>1, <1>8 DEF Load, NextPhase, Ready, Executed, RunChild, CollectChildren, ChildrenDone, vars
<1> QED
  BY <1>2, <1>3, <1>4, <1>5, <1>6, <1>7, <1>8 DEF Next, Command

(* No step of the command makes a directory disappear, unless it is, or    *)
(* is in, one that was loose when it was planned.                          *)
THEOREM OnlyOrphansGoHolds == Spec => OnlyOrphansGo
<1>1. Init => LooseInv
  BY DEF Init, LooseInv
<1>2. TypeInv /\ LooseInv /\ [Next]_vars
        => [moves' = moves => \A p \in disk.dirs \ disk'.dirs : \E q \in seen.loose : Within(q, p)]_vars
  <2> SUFFICES ASSUME TypeInv, LooseInv, [Next]_vars, moves' = moves, NEW p \in disk.dirs \ disk'.dirs
               PROVE  \E q \in seen.loose : Within(q, p)
    OBVIOUS
  <2>1. PICK a \in plan : Removes(a) /\ Within(a.at, p)
    BY DiskStep
  <2>2. PICK q \in seen.loose : Within(q, a.at)
    BY <2>1 DEF LooseInv
  <2>3. q \in Paths /\ a.at \in Paths /\ p \in Paths
    BY <2>1, <2>2 DEF LooseInv, TypeInv, PlanInv, Actions, Tree
  <2> QED
    BY <2>1, <2>2, <2>3, WithinTransitive
<1>3. Spec => []Kept
  BY KeptInit, KeptStep, PTL DEF Spec
<1>4. TypeInv /\ Kept /\ LooseInv /\ [Next]_vars => LooseInv'
  BY LooseStep
<1> QED
  BY <1>1, <1>2, <1>3, <1>4, TypeInvariance, PTL DEF Spec, OnlyOrphansGo

-----------------------------------------------------------------------------
(* The workspaces being synced.                                            *)

(* Each workspace in progress was met before, and was not collected by     *)
(* itself or a workspace in progress inside it.                            *)
NestedIn(frames, met) ==
  /\ <<>> \in met
  /\ \A i \in 1..Len(frames) : frames[i].of \in met
  /\ \A i, j \in 1..Len(frames) : i <= j => frames[i].of \notin Places(frames[j].dirs)
  /\ \A i, j \in 1..Len(frames) : i < j => frames[i].of # frames[j].of

Nested == NestedIn(kids, visited)

LEMMA NestedMore ==
  ASSUME NEW frames, NEW met, NEW more, NestedIn(frames, met), met \subseteq more
  PROVE  NestedIn(frames, more)
  BY DEF NestedIn

LEMMA NestedFront ==
  ASSUME kids \in Seq(Frames), kids # <<>>, Nested PROVE NestedIn(Front(kids), visited)
<1>1. /\ Len(kids) \in Nat /\ Len(Front(kids)) = Len(kids) - 1
      /\ \A i \in 1..Len(kids) - 1 : Front(kids)[i] = kids[i] /\ i \in 1..Len(kids)
  BY AllButLast
<1> QED
  BY <1>1 DEF Nested, NestedIn

(* The frame on top may lose directories, or collect new ones.             *)
LEMMA NestedReplaced ==
  ASSUME kids \in Seq(Frames), kids # <<>>, Nested,
         NEW f \in Frames, f.of = Last(kids).of,
         f.dirs \subseteq Last(kids).dirs \/ Places(f.dirs) \cap visited = {}
  PROVE  NestedIn(Replaced(f), visited)
<1> DEFINE t == Replaced(f)
<1>1. PICK n \in Nat : n = Len(kids) /\ n > 0 /\ n \in 1..n
  BY AllButLast
<1>2. t \in Seq(Frames) /\ Len(t) = n /\ t[n] = f /\ \A i \in 1..n - 1 : t[i] = kids[i]
  BY <1>1, ReplacedLast DEF Replaced
<1>3. Last(kids) = kids[n]
  BY <1>1 DEF Last
<1> HIDE DEF t
<1>4. \A i \in 1..n : i \in 1..n - 1 \/ i = n
  OBVIOUS
<1>5. \A i \in 1..n : t[i].of = kids[i].of /\ t[i].of \in visited
  BY <1>1, <1>2, <1>3, <1>4 DEF Nested, NestedIn
<1>6. \A i \in 1..n : Places(t[i].dirs) \subseteq Places(kids[i].dirs) \/ Places(t[i].dirs) \cap visited = {}
  BY <1>1, <1>2, <1>3, <1>4 DEF Places
<1>7. \A i, j \in 1..n : i <= j => t[i].of \notin Places(t[j].dirs)
  BY <1>1, <1>5, <1>6 DEF Nested, NestedIn
<1>8. \A i, j \in 1..n : i < j => t[i].of # t[j].of
  BY <1>1, <1>5 DEF Nested, NestedIn
<1> QED
  BY <1>2, <1>5, <1>7, <1>8 DEF Nested, NestedIn, t

(* A workspace that is none of those in progress goes on top.              *)
LEMMA NestedAppend ==
  ASSUME NEW frames \in Seq(Frames), NEW met, NestedIn(frames, met),
         NEW f \in Frames, f.dirs = {}, f.of \in met, \A i \in 1..Len(frames) : frames[i].of # f.of
  PROVE  NestedIn(Append(frames, f), met)
<1> DEFINE t == Append(frames, f)
<1>1. PICK n \in Nat : n = Len(frames)
  OBVIOUS
<1>2. Len(t) = n + 1 /\ t[n + 1] = f /\ \A i \in 1..n : t[i] = frames[i]
  BY <1>1
<1> HIDE DEF t
<1>3. \A i \in 1..n + 1 : i \in 1..n \/ i = n + 1
  OBVIOUS
<1>4. \A i \in 1..n + 1 : t[i].of \in met
  BY <1>1, <1>2, <1>3 DEF NestedIn
<1>5. ASSUME NEW i \in 1..n + 1, NEW j \in 1..n + 1, i <= j PROVE t[i].of \notin Places(t[j].dirs)
  <2>1. CASE j = n + 1
    BY <1>2, <2>1 DEF Places
  <2>2. CASE j \in 1..n
    <3>1. i \in 1..n
      BY <1>5, <2>2
    <3> QED
      BY <1>1, <1>2, <1>5, <2>2, <3>1 DEF NestedIn
  <2> QED
    BY <1>3, <2>1, <2>2
<1>6. ASSUME NEW i \in 1..n + 1, NEW j \in 1..n + 1, i < j PROVE t[i].of # t[j].of
  <2>1. i \in 1..n
    BY <1>6
  <2>2. CASE j = n + 1
    BY <1>1, <1>2, <2>1, <2>2
  <2>3. CASE j \in 1..n
    BY <1>1, <1>2, <1>6, <2>1, <2>3 DEF NestedIn
  <2> QED
    BY <1>3, <2>2, <2>3
<1> QED
  BY <1>2, <1>4, <1>5, <1>6 DEF NestedIn, t

LEMMA NestedStep == TypeInv /\ Nested /\ [Next]_vars => Nested'
<1> SUFFICES ASSUME TypeInv, Nested, [Next]_vars PROVE Nested'
  OBVIOUS
<1>0. kids \in Seq(Frames)
  BY DEF TypeInv, KidsInv
<1>1. ASSUME UNCHANGED <<kids, visited>> PROVE Nested'
  BY <1>1 DEF Nested
<1>2. CASE Executed
  <2> DEFINE f == Frame(<<>>, {}, results.ok, 0)
  <2>1. UNCHANGED visited /\ kids' \in {kids, <<f>>, <<>>}
    BY <1>2 DEF Executed
  <2>2. <<>> \in visited
    BY DEF Nested, NestedIn
  <2>3. NestedIn(<<>>, visited)
    BY <2>2 DEF NestedIn
  <2>4. f.of = <<>> /\ f.dirs = {}
    BY DEF Frame
  <2> HIDE DEF f
  <2>5. Len(<<f>>) = 1 /\ <<f>>[1] = f
    OBVIOUS
  <2>6. NestedIn(<<f>>, visited)
    BY <2>2, <2>4, <2>5 DEF NestedIn, Places
  <2> QED
    BY <2>1, <2>3, <2>6 DEF Nested
<1>3. CASE RunChild
  <2>1. kids # <<>> /\ Last(kids) \in Frames
    BY <1>0, <1>3, FrameTypes DEF RunChild
  <2>2. PICK a \in Last(kids).dirs :
          /\ visited' = Visited(a.at)
          /\ \/ kids' = Replaced([Last(kids) EXCEPT !.dirs = @ \ {a}])
             \/ kids' = Append(Replaced([Last(kids) EXCEPT !.dirs = @ \ {a}]),
                               Frame(a.at, disk.file[a.at].lists \ {a.at}, {}, Last(kids).depth + 1))
    BY <1>3 DEF RunChild
  <2> DEFINE p == a.at
             rest == [Last(kids) EXCEPT !.dirs = @ \ {a}]
             t == Replaced(rest)
             f == Frame(p, disk.file[p].lists \ {p}, {}, Last(kids).depth + 1)
  <2>3. rest \in Frames /\ rest.of = Last(kids).of /\ rest.dirs \subseteq Last(kids).dirs
    BY <2>1 DEF Frames
  <2>4. f.of = p /\ f.dirs = {} /\ f \in Frames
    <3>1. p \in Paths /\ Last(kids).depth + 1 \in Nat
      BY <2>1 DEF Frames, Actions
    <3>2. disk.file[p].lists \ {p} \in SUBSET Paths
      BY <3>1 DEF TypeInv, Tree, ConfigFiles
    <3> QED
      BY <3>1, <3>2 DEF Frame, Frames
  <2>5. visited \subseteq visited' /\ p \in visited' /\ (kids' = t \/ kids' = Append(t, f))
    BY <2>2 DEF Visited
  <2> HIDE DEF rest, f
  <2>6. t \in Seq(Frames) /\ Len(t) = Len(kids) /\ NestedIn(t, visited)
    BY <1>0, <2>1, <2>3, NestedReplaced, ReplacedLast DEF Replaced
  <2>7. NestedIn(t, visited')
    BY <2>5, <2>6, NestedMore
  <2>8. \A i \in 1..Len(t) : t[i].of # p
    <3>1. PICK n \in Nat : n = Len(kids) /\ n > 0 /\ n \in 1..n
      BY <1>0, <2>1, AllButLast
    <3>2. t[n] = rest /\ \A i \in 1..n - 1 : t[i] = kids[i]
      BY <1>0, <2>1, <2>3, <3>1, ReplacedLast DEF Replaced
    <3>3. Last(kids) = kids[n] /\ \A i \in 1..n : i \in 1..n - 1 \/ i = n
      BY <3>1 DEF Last
    <3>4. \A i \in 1..n : t[i].of = kids[i].of
      BY <2>3, <3>2, <3>3
    <3>5. \A i \in 1..n : kids[i].of # p
      BY <3>1, <3>3, <2>2 DEF Nested, NestedIn, Places
    <3> QED
      BY <2>6, <3>1, <3>4, <3>5
  <2> HIDE DEF t
  <2>9. NestedIn(Append(t, f), visited')
    BY <2>4, <2>5, <2>6, <2>7, <2>8, NestedAppend
  <2> QED
    BY <2>5, <2>7, <2>9 DEF Nested
<1>4. CASE SyncListed
  <2>1. kids # <<>> /\ Last(kids) \in Frames /\ UNCHANGED visited
    BY <1>0, <1>4, FrameTypes DEF SyncListed
  <2>2. PICK p \in Last(kids).list : \E o \in Outcomes(disk, Update(p)) :
          kids' = Replaced([Last(kids) EXCEPT !.list = @ \ {p}, !.ok = IF o.ok THEN @ \cup {Update(p)} ELSE @])
    BY <1>4 DEF SyncListed
  <2>5. Update(p) \in Actions
    BY <2>1 DEF Update, Action, Actions, Frames
  <2>3. PICK ok \in SUBSET Actions : kids' = Replaced([Last(kids) EXCEPT !.list = @ \ {p}, !.ok = ok])
    BY <2>1, <2>2, <2>5 DEF Frames
  <2> DEFINE f == [Last(kids) EXCEPT !.list = @ \ {p}, !.ok = ok]
  <2>4. f \in Frames /\ f.of = Last(kids).of /\ f.dirs = Last(kids).dirs
    BY <2>1 DEF Frames
  <2> HIDE DEF f
  <2> QED
    BY <1>0, <2>1, <2>3, <2>4, NestedReplaced DEF Nested, f
<1>5. CASE CollectChildren
  <2>1. kids # <<>> /\ Last(kids) \in Frames /\ UNCHANGED visited
    BY <1>0, <1>5, FrameTypes DEF CollectChildren
  <2> DEFINE dirs == IF Last(kids).depth >= MaxDepth THEN {} ELSE Children(Last(kids).ok, disk, visited)
             f == [Last(kids) EXCEPT !.at = "descend", !.dirs = dirs]
  <2>2. dirs \subseteq Actions /\ Places(dirs) \cap visited = {}
    BY <2>1 DEF Children, Frames, Places
  <2>3. kids' = Replaced(f)
    BY <1>5 DEF CollectChildren
  <2> HIDE DEF dirs
  <2>4. f \in Frames /\ f.of = Last(kids).of /\ f.dirs = dirs
    BY <2>1, <2>2 DEF Frames
  <2> HIDE DEF f
  <2> QED
    BY <1>0, <2>1, <2>2, <2>3, <2>4, NestedReplaced DEF Nested
<1>6. CASE ChildrenDone
  BY <1>0, <1>6, NestedFront DEF ChildrenDone, Nested
<1>7. ASSUME NEW n \in DOMAIN Workspaces, Bootstrap(n) \/ PlanForge(n) \/ PlanGit(n) \/ PlanConfig(n)
      PROVE  UNCHANGED <<kids, visited>>
  BY <1>7 DEF Bootstrap, PlanForge, PlanGit, PlanConfig, NoSync
<1>8. ASSUME NEW a \in plan, Execute(a) PROVE UNCHANGED <<kids, visited>>
  BY <1>8 DEF Execute
<1>9. CASE Load \/ Loaded \/ NextPhase \/ SelfSynced \/ Ready \/ Ask \/ PushSynced \/ Developer \/ UNCHANGED vars
  BY <1>1, <1>9 DEF Load, Loaded, NextPhase, SelfSynced, Ready, Ask, PushSynced, Developer, NoSync, vars
<1> QED
  BY <1>1, <1>2, <1>3, <1>4, <1>5, <1>6, <1>7, <1>8, <1>9 DEF Next, Command

(* No workspace is synced inside its own sync, the root's included, however *)
(* the configurations refer to each other.                                 *)
THEOREM NoWorkspaceWithinItselfHolds == Spec => []NoWorkspaceWithinItself
<1>1. Init => Nested
  BY DEF Init, Nested, NestedIn
<1>2. Nested => NoWorkspaceWithinItself
  BY DEF Nested, NestedIn, NoWorkspaceWithinItself
<1> QED
  BY <1>1, <1>2, NestedStep, TypeInvariance, PTL DEF Spec

-----------------------------------------------------------------------------
(* The chain of parents.                                                   *)

Settings == {Files[d].setting : d \in DOMAIN Files} \cup {Unset}

(* Going up from d, through files that are not among those met, the        *)
(* nearest setting is this one.                                            *)
Resolved(d, value, met) ==
  \E top \in Nat : \E chain \in [0..top -> DOMAIN Files \ met] :
    IsInjective(chain) /\ GoesUp(chain, top, d) /\ Nearest(chain, top, value)

(* A file without a parent is its own chain.                               *)
LEMMA ResolvedTop ==
  ASSUME NEW d \in DOMAIN Files, NEW met, d \notin met, Files[d].state = "there", Up(d) = Nowhere
  PROVE  Resolved(d, Files[d].setting, met)
<1> DEFINE chain == [n \in 0..0 |-> d]
<1>1. 0..0 = {0} /\ 0 \in 0..0
  OBVIOUS
<1>2. chain \in [0..0 -> DOMAIN Files \ met] /\ chain[0] = d /\ DOMAIN chain = {0}
  BY <1>1
<1> HIDE DEF chain
<1>3. IsInjective(chain)
  BY <1>2 DEF IsInjective
<1>4. GoesUp(chain, 0, d)
  BY <1>1, <1>2 DEF GoesUp
<1>5. Nearest(chain, 0, Files[d].setting)
  BY <1>1, <1>2 DEF Nearest
<1> QED
  BY <1>2, <1>3, <1>4, <1>5 DEF Resolved

(* A file below a chain that it is not in makes the chain longer.          *)
LEMMA ResolvedBelow ==
  ASSUME NEW d \in DOMAIN Files, NEW met, NEW value, d \in met,
         Files[d].state = "there", Up(d) # Nowhere, Resolved(Up(d), value, met)
  PROVE  Resolved(d, MergeParent(Files[d].setting, value), met \ {d})
<1>1. PICK top \in Nat : \E chain \in [0..top -> DOMAIN Files \ met] :
        IsInjective(chain) /\ GoesUp(chain, top, Up(d)) /\ Nearest(chain, top, value)
  BY DEF Resolved
<1>2. PICK chain \in [0..top -> DOMAIN Files \ met] :
        IsInjective(chain) /\ GoesUp(chain, top, Up(d)) /\ Nearest(chain, top, value)
  BY <1>1
<1> DEFINE last == top + 1
           longer == [n \in 0..last |-> IF n = 0 THEN d ELSE chain[n - 1]]
<1>3. /\ last \in Nat /\ 0 \in 0..last
      /\ \A n \in 0..last : n = 0 \/ (n \in 1..last /\ n - 1 \in 0..top)
      /\ \A n \in 0..top : n + 1 \in 1..last /\ n + 1 \in 0..last /\ n + 1 - 1 = n
  OBVIOUS
<1>4. \A n \in 0..top : chain[n] \in DOMAIN Files \ met /\ chain[n] # d
  OBVIOUS
<1>5. longer \in [0..last -> DOMAIN Files \ (met \ {d})]
  BY <1>3, <1>4
<1>6. DOMAIN longer = 0..last /\ longer[0] = d /\ \A n \in 1..last : n \in 0..last /\ longer[n] = chain[n - 1]
  BY <1>3
<1> HIDE DEF longer, last
<1>7. IsInjective(longer)
  <2> SUFFICES ASSUME NEW n \in 0..last, NEW m \in 0..last, longer[n] = longer[m] PROVE n = m
    BY <1>6 DEF IsInjective
  <2>1. CASE n = 0 \/ m = 0
    BY <2>1, <1>3, <1>4, <1>6
  <2>2. CASE n # 0 /\ m # 0
    <3>1. n - 1 \in 0..top /\ m - 1 \in 0..top /\ chain[n - 1] = chain[m - 1]
      BY <2>2, <1>3, <1>6
    <3>2. n - 1 = m - 1
      BY <3>1, <1>2 DEF IsInjective
    <3> QED
      BY <3>2
  <2> QED
    BY <2>1, <2>2
<1>8. GoesUp(longer, last, d)
  <2>1. chain[0] = Up(d) /\ Up(chain[top]) = Nowhere
    BY <1>2 DEF GoesUp
  <2>2. Up(longer[last]) = Nowhere
    BY <2>1, <1>3, <1>6 DEF last
  <2>3. \A n \in 1..last : longer[n] = Up(longer[n - 1])
    <3> SUFFICES ASSUME NEW n \in 1..last PROVE longer[n] = Up(longer[n - 1])
      OBVIOUS
    <3>1. CASE n = 1
      BY <3>1, <2>1, <1>6
    <3>2. CASE n # 1
      <4>1. n - 1 \in 1..last /\ n - 1 \in 1..top
        BY <3>2 DEF last
      <4>2. longer[n] = chain[n - 1] /\ longer[n - 1] = chain[n - 1 - 1]
        BY <4>1, <1>6
      <4>3. chain[n - 1] = Up(chain[n - 1 - 1])
        BY <4>1, <1>2 DEF GoesUp
      <4> QED
        BY <4>2, <4>3
    <3> QED
      BY <3>1, <3>2
  <2>4. \A n \in 0..last : Files[longer[n]].state = "there"
    BY <1>2, <1>3, <1>6 DEF GoesUp
  <2> QED
    BY <2>2, <2>3, <2>4, <1>6 DEF GoesUp
<1>9. Nearest(longer, last, MergeParent(Files[d].setting, value))
  <2> DEFINE set(n) == Files[longer[n]].setting
  <2>1. set(0) = Files[d].setting /\ \A n \in 1..last : set(n) = Files[chain[n - 1]].setting
    BY <1>6
  <2>2. CASE Files[d].setting # Unset
    <3>1. 0..0 - 1 = {}
      OBVIOUS
    <3>2. MergeParent(Files[d].setting, value) = set(0)
      BY <2>1, <2>2 DEF MergeParent
    <3> QED
      BY <1>3, <3>1, <3>2, <2>1, <2>2 DEF Nearest
  <2>3. CASE Files[d].setting = Unset /\ value = Unset
    <3>1. \A n \in 0..top : Files[chain[n]].setting = Unset
      BY <1>2, <2>3 DEF Nearest
    <3>2. \A n \in 0..last : set(n) = Unset
      BY <3>1, <1>3, <2>1, <2>3
    <3> QED
      BY <3>2, <2>3 DEF Nearest, MergeParent
  <2>4. CASE Files[d].setting = Unset /\ value # Unset
    <3>1. PICK n \in 0..top : value = Files[chain[n]].setting /\ \A m \in 0..n - 1 : Files[chain[m]].setting = Unset
      BY <1>2, <2>4 DEF Nearest
    <3>2. n + 1 \in 0..last /\ set(n + 1) = value
      BY <3>1, <1>3, <2>1
    <3>3. \A m \in 0..n + 1 - 1 : set(m) = Unset
      <4> SUFFICES ASSUME NEW m \in 0..n + 1 - 1 PROVE set(m) = Unset
        OBVIOUS
      <4>1. CASE m = 0
        BY <4>1, <2>1, <2>4
      <4>2. CASE m # 0
        <5>1. m \in 1..last /\ m - 1 \in 0..n - 1
          BY <4>2 DEF last
        <5> HIDE DEF set
        <5> QED
          BY <5>1, <3>1, <2>1
      <4> QED
        BY <4>1, <4>2
    <3> QED
      BY <3>2, <3>3, <2>4 DEF Nearest, MergeParent
  <2> QED
    BY <2>2, <2>3, <2>4
<1> QED
  BY <1>3, <1>5, <1>7, <1>8, <1>9 DEF Resolved

(* A chain is no longer than there are files.                              *)
LEMMA ResolvedWithin ==
  ASSUME NEW d, NEW value, Resolved(d, value, {})
  PROVE  \E top \in 0..Cardinality(DOMAIN Files) - 1 : \E chain \in [0..top -> DOMAIN Files] :
           GoesUp(chain, top, d) /\ Nearest(chain, top, value)
<1>1. PICK top \in Nat : \E chain \in [0..top -> DOMAIN Files \ {}] :
        IsInjective(chain) /\ GoesUp(chain, top, d) /\ Nearest(chain, top, value)
  BY DEF Resolved
<1>2. PICK chain \in [0..top -> DOMAIN Files \ {}] :
        IsInjective(chain) /\ GoesUp(chain, top, d) /\ Nearest(chain, top, value)
  BY <1>1
<1>3. chain \in [0..top -> DOMAIN Files] /\ chain \in Injection(0..top, DOMAIN Files)
  BY <1>2 DEF Injection
<1>4. IsFiniteSet(DOMAIN Files) /\ Cardinality(DOMAIN Files) \in Nat
  BY ConfigAssumption, FS_CardinalityType
<1>5. Cardinality(0..top) <= Cardinality(DOMAIN Files)
  BY <1>3, <1>4, FS_Injection
<1>6. Cardinality(0..top) = top + 1
  BY FS_Interval
<1>7. top \in 0..Cardinality(DOMAIN Files) - 1
  BY <1>4, <1>5, <1>6
<1> QED
  BY <1>2, <1>3, <1>7

(* A file in progress: it is one of those met as soon as it is open; its   *)
(* setting is its own until the parent's is merged into it, and from then  *)
(* on what its chain comes to.                                             *)
Calls ==
  [dir : DOMAIN Files, visited : SUBSET DOMAIN Files, follow : BOOLEAN, depth : Nat,
   at : {"open", "parent", "children", "next", "workspace"}, value : Settings, todo : SUBSET DOMAIN Files]

MetBefore(f) == IF f.at = "open" THEN f.visited ELSE f.visited \ {f.dir}

Sound(f) ==
  /\ f.at # "open" => f.dir \in f.visited
  /\ f.at = "parent" => Files[f.dir].state = "there" /\ Up(f.dir) # Nowhere /\ f.value = Files[f.dir].setting
  /\ f.at \in {"children", "next", "workspace"} => Resolved(f.dir, f.value, MetBefore(f))

(* A file that waits for its parent has handed on all that it met.         *)
Leads(f, g) == f.at = "parent" => g.dir = Up(f.dir) /\ MetBefore(g) = f.visited

Chained(calls) ==
  /\ \A i \in 1..Len(calls) : Sound(calls[i])
  /\ \A i \in 1..Len(calls) - 1 : Leads(calls[i], calls[i + 1])
  /\ calls # <<>> => calls[1].dir = start /\ MetBefore(calls[1]) = {}

(* What has just been returned is what the file that waits for it needs.   *)
Answers(calls, value) ==
  IF calls = <<>> THEN Resolved(start, value, {})
  ELSE Last(calls).at = "parent" => Resolved(Up(Last(calls).dir), value, Last(calls).visited)

Returns == {Nothing} \cup [is : {"ok", "absent", "error"}, value : Settings]

LoadTypes == start \in DOMAIN Files /\ stack \in Seq(Calls) /\ ret \in Returns

LoadInv == LoadTypes /\ Chained(stack) /\ (ret.is = "ok" => Answers(stack, ret.value))

(* The call on top, and what its steps make of the stack.                  *)
LEMMA TopOfCalls ==
  ASSUME LoadTypes, stack # <<>>
  PROVE  /\ Top \in Calls /\ Below = Front(stack) /\ Below \in Seq(Calls)
         /\ Len(stack) \in Nat /\ Len(stack) > 0 /\ Len(Below) = Len(stack) - 1
         /\ \A i \in 1..Len(stack) - 1 : Below[i] = stack[i]
<1>1. /\ Len(stack) \in Nat /\ Len(stack) > 0 /\ Front(stack) \in Seq(Calls)
      /\ Len(Front(stack)) = Len(stack) - 1 /\ \A i \in 1..Len(stack) - 1 : Front(stack)[i] = stack[i]
  BY AllButLast DEF LoadTypes
<1>2. Len(stack) \in 1..Len(stack)
  BY <1>1
<1>3. Top \in Calls
  BY <1>2 DEF Top, LoadTypes
<1>4. Below = Front(stack)
  BY DEF Below, Front
<1> QED
  BY <1>1, <1>3, <1>4

LEMMA ChainedBelow ==
  ASSUME LoadTypes, stack # <<>>, Chained(stack) PROVE Chained(Below)
<1>1. PICK n \in Nat : n = Len(Below) /\ Len(stack) = n + 1 /\ \A i \in 1..n : Below[i] = stack[i]
  BY TopOfCalls
<1>2. Below # <<>> => 1 \in 1..n
  BY <1>1, TopOfCalls
<1>3. \A i \in 1..n : i \in 1..n + 1 /\ Sound(stack[i])
  BY <1>1 DEF Chained
<1>4. \A i \in 1..n - 1 : i \in 1..n /\ i + 1 \in 1..n /\ Leads(stack[i], stack[i + 1])
  BY <1>1 DEF Chained
<1>5. stack # <<>> /\ stack[1].dir = start /\ MetBefore(stack[1]) = {}
  BY DEF Chained
<1> QED
  BY <1>1, <1>2, <1>3, <1>4, <1>5 DEF Chained

(* The call on top goes on, with the same file.                            *)
LEMMA ChainedContinued ==
  ASSUME LoadTypes, stack # <<>>, Chained(stack),
         NEW f \in Calls, f.dir = Top.dir, MetBefore(f) = MetBefore(Top), Sound(f)
  PROVE  /\ Append(Below, f) \in Seq(Calls) /\ Append(Below, f) # <<>>
         /\ Last(Append(Below, f)) = f /\ Chained(Append(Below, f))
<1> DEFINE t == Append(Below, f)
<1>1. PICK n \in Nat : n = Len(stack) /\ n > 0 /\ n \in 1..n
  BY TopOfCalls
<1>2. t \in Seq(Calls) /\ Len(t) = n /\ t[n] = f /\ \A i \in 1..n - 1 : t[i] = stack[i]
  BY <1>1, TopOfCalls, AppendProperties
<1>3. stack[n] = Top /\ Last(t) = f /\ t # <<>>
  BY <1>1, <1>2 DEF Top, Last
<1> HIDE DEF t
<1>4. \A i \in 1..n : i \in 1..n - 1 \/ i = n
  OBVIOUS
<1>5. \A i \in 1..n : Sound(t[i]) /\ t[i].dir = stack[i].dir /\ MetBefore(t[i]) = MetBefore(stack[i])
  BY <1>1, <1>2, <1>3, <1>4 DEF Chained
<1>6. \A i \in 1..n - 1 : Leads(t[i], t[i + 1])
  <2> SUFFICES ASSUME NEW i \in 1..n - 1 PROVE Leads(t[i], t[i + 1])
    OBVIOUS
  <2>1. i + 1 \in 1..n
    BY <1>1
  <2> QED
    BY <2>1, <1>1, <1>2, <1>5 DEF Chained, Leads
<1>7. 1 \in 1..n
  BY <1>1
<1> QED
  BY <1>1, <1>2, <1>3, <1>5, <1>6, <1>7 DEF Chained, t

(* It calls for another file.                                              *)
LEMMA ChainedCalled ==
  ASSUME NEW s \in Seq(Calls), s # <<>>, Chained(s), NEW c \in Calls, Sound(c), Leads(Last(s), c)
  PROVE  Append(s, c) \in Seq(Calls) /\ Chained(Append(s, c))
<1> DEFINE t == Append(s, c)
<1>1. PICK n \in Nat : n = Len(s) /\ n > 0 /\ Last(s) = s[n]
  BY AllButLast DEF Last
<1>2. t \in Seq(Calls) /\ Len(t) = n + 1 /\ t[n + 1] = c /\ \A i \in 1..n : t[i] = s[i]
  BY <1>1, AppendProperties
<1> HIDE DEF t
<1>3. \A i \in 1..n + 1 : i \in 1..n \/ i = n + 1
  OBVIOUS
<1>4. \A i \in 1..n + 1 : Sound(t[i])
  BY <1>1, <1>2, <1>3 DEF Chained
<1>5. \A i \in 1..n + 1 - 1 : Leads(t[i], t[i + 1])
  <2> SUFFICES ASSUME NEW i \in 1..n PROVE Leads(t[i], t[i + 1])
    BY <1>1
  <2>1. CASE i = n
    BY <2>1, <1>1, <1>2
  <2>2. CASE i # n
    <3>1. i \in 1..n - 1 /\ i + 1 \in 1..n
      BY <2>2
    <3> QED
      BY <3>1, <1>1, <1>2 DEF Chained
  <2> QED
    BY <2>1, <2>2
<1>6. 1 \in 1..n /\ t[1] = s[1]
  BY <1>1, <1>2
<1> QED
  BY <1>1, <1>2, <1>4, <1>5, <1>6 DEF Chained, t

(* It returns what its chain comes to.                                     *)
LEMMA AnswersBelow ==
  ASSUME LoadTypes, stack # <<>>, Chained(stack), Resolved(Top.dir, Top.value, MetBefore(Top))
  PROVE  Answers(Below, Top.value)
<1>1. PICK n \in Nat : n = Len(Below) /\ Len(stack) = n + 1 /\ Below \in Seq(Calls) /\ \A i \in 1..n : Below[i] = stack[i]
  BY TopOfCalls
<1>2. stack[n + 1] = Top
  BY <1>1 DEF Top
<1>3. CASE Below = <<>>
  <2>1. n = 0
    BY <1>1, <1>3
  <2>2. Top.dir = start /\ MetBefore(Top) = {}
    BY <2>1, <1>1, <1>2 DEF Chained
  <2> QED
    BY <2>2, <1>3 DEF Answers
<1>4. CASE Below # <<>>
  <2>1. n > 0 /\ Last(Below) = stack[n] /\ n \in 1..n + 1 - 1
    BY <1>1, <1>4, AllButLast DEF Last
  <2>2. Leads(Last(Below), Top)
    BY <2>1, <1>1, <1>2 DEF Chained
  <2> QED
    BY <2>2, <1>4 DEF Answers, Leads
<1> QED
  BY <1>3, <1>4

LEMMA LoadInvInit == LoadInit => LoadInv
<1> SUFFICES ASSUME LoadInit PROVE LoadInv
  OBVIOUS
<1>1. start \in DOMAIN Files /\ Fresh(start) \in Calls
  BY ConfigAssumption DEF LoadInit, Fresh, Call, Calls, Settings
<1>2. stack = <<Fresh(start)>> /\ stack \in Seq(Calls) /\ Len(stack) = 1 /\ stack[1] = Fresh(start)
  BY <1>1 DEF LoadInit
<1>3. Chained(stack)
  BY <1>2 DEF Chained, Sound, MetBefore, Fresh, Call
<1> QED
  BY <1>1, <1>2, <1>3 DEF LoadInit, LoadInv, LoadTypes, Nothing, Returns

(* What a step makes of the stack and of the return value.                 *)
LEMMA LoadedTo ==
  ASSUME LoadInv, start' = start, NEW calls \in Seq(Calls), stack' = calls, Chained(calls),
         ret' \in Returns,
         ret'.is = "ok" => Answers(calls, ret'.value)
  PROVE  LoadInv'
<1>1. LoadTypes'
  BY DEF LoadInv, LoadTypes
<1>2. Chained(stack)'
  BY DEF Chained
<1>3. ret'.is = "ok" => Answers(stack, ret.value)'
  BY DEF Answers
<1> QED
  BY <1>1, <1>2, <1>3 DEF LoadInv

LEMMA LoadReturns ==
  ASSUME LoadInv, start' = start, stack # <<>>, NEW outcome \in {"ok", "absent", "error"}, NEW value \in Settings,
         Return(outcome, value),
         outcome = "ok" => value = Top.value /\ Resolved(Top.dir, Top.value, MetBefore(Top))
  PROVE  LoadInv'
<1>1. Below \in Seq(Calls) /\ Chained(Below)
  BY TopOfCalls, ChainedBelow DEF LoadInv
<1>2. outcome = "ok" => Answers(Below, value)
  BY AnswersBelow DEF LoadInv
<1>3. stack' = Below /\ ret' = [is |-> outcome, value |-> value]
  BY DEF Return
<1> QED
  BY <1>1, <1>2, <1>3, LoadedTo DEF Returns

LEMMA LoadContinues ==
  ASSUME LoadInv, start' = start, stack # <<>>,
         NEW f \in Calls, f.dir = Top.dir, MetBefore(f) = MetBefore(Top), Sound(f), Continue(f)
  PROVE  LoadInv'
<1>1. Append(Below, f) \in Seq(Calls) /\ Chained(Append(Below, f))
  BY ChainedContinued DEF LoadInv
<1>2. stack' = Append(Below, f) /\ ret' = Nothing
  BY DEF Continue
<1>3. ret' \in Returns /\ ret'.is # "ok"
  BY <1>2 DEF Nothing, Returns
<1> QED
  BY <1>1, <1>2, <1>3, LoadedTo

LEMMA LoadCalls ==
  ASSUME LoadInv, start' = start, stack # <<>>,
         NEW f \in Calls, f.dir = Top.dir, MetBefore(f) = MetBefore(Top), Sound(f),
         NEW c \in Calls, Sound(c), Leads(f, c), Push(f, c)
  PROVE  LoadInv'
<1> DEFINE rest == Append(Below, f)
<1>1. rest \in Seq(Calls) /\ rest # <<>> /\ Last(rest) = f /\ Chained(rest)
  BY ChainedContinued DEF LoadInv
<1>2. stack' = Append(rest, c) /\ ret' = Nothing
  BY DEF Push
<1>3. ret' \in Returns /\ ret'.is # "ok"
  BY <1>2 DEF Nothing, Returns
<1> HIDE DEF rest
<1>4. Append(rest, c) \in Seq(Calls) /\ Chained(Append(rest, c))
  BY <1>1, ChainedCalled
<1> QED
  BY <1>2, <1>3, <1>4, LoadedTo

LEMMA LoadInvStep == LoadInv /\ [LoadStep]_loading => LoadInv'
<1> SUFFICES ASSUME LoadInv, [LoadStep]_loading PROVE LoadInv'
  OBVIOUS
<1>1. CASE UNCHANGED loading
  BY <1>1 DEF loading, LoadInv, LoadTypes, Chained, Answers
<1>2. ASSUME LoadStep, stack # <<>> PROVE start' = start /\ Top \in Calls /\ Sound(Top) /\ Unset \in Settings
  <2>1. Len(stack) \in 1..Len(stack) /\ Top \in Calls
    BY <1>2, TopOfCalls DEF LoadInv
  <2> QED
    BY <1>2, <2>1 DEF LoadStep, LoadInv, Chained, Top, Settings
<1>3. ASSUME LoadStep, OpenFile PROVE LoadInv'
  <2>1. stack # <<>> /\ Top.at = "open"
    BY <1>3 DEF OpenFile, InCall
  <2>2. start' = start /\ Top \in Calls /\ Unset \in Settings
    BY <1>2, <1>3, <2>1
  <2>3. CASE Rejected(Top)
    BY <1>3, <2>1, <2>2, <2>3, LoadReturns DEF OpenFile
  <2>4. CASE ~Rejected(Top) /\ Files[Top.dir].state = "missing"
    BY <1>3, <2>1, <2>2, <2>4, LoadReturns DEF OpenFile
  <2>5. CASE ~Rejected(Top) /\ Files[Top.dir].state # "missing"
    <3> DEFINE d == Top.dir
               up == Up(d)
               frame == Opened(Top)
               alone == [frame EXCEPT !.at = "children"]
               call == Call(up, frame.visited, FALSE, frame.depth + 1)
    <3>1. d \in DOMAIN Files /\ Files[d].state = "there" /\ d \notin Top.visited
      BY <2>2, <2>5, ConfigAssumption DEF Calls, Rejected, Circular
    <3>2. /\ frame \in Calls /\ frame.dir = d /\ frame.at = "parent" /\ frame.value = Files[d].setting
          /\ frame.visited = Top.visited \cup {d} /\ d \in frame.visited
      BY <2>2, <3>1 DEF Opened, Calls, Settings
    <3>3. MetBefore(frame) = MetBefore(Top) /\ MetBefore(Top) = Top.visited
      BY <2>1, <3>1, <3>2 DEF MetBefore
    <3>4. CASE up = Nowhere
      <4>1. /\ alone \in Calls /\ alone.dir = d /\ alone.at = "children"
            /\ alone.value = Files[d].setting /\ alone.visited = frame.visited
        BY <3>2 DEF Calls
      <4>2. MetBefore(alone) = MetBefore(Top)
        BY <3>2, <3>3, <4>1 DEF MetBefore
      <4>3. Continue(alone)
        BY <1>3, <2>5, <3>4 DEF OpenFile, Up
      <4> HIDE DEF alone, frame, d
      <4>4. Resolved(d, Files[d].setting, MetBefore(Top))
        BY <3>1, <3>3, <3>4, ResolvedTop
      <4>5. Sound(alone)
        BY <3>2, <4>1, <4>2, <4>4 DEF Sound
      <4> QED
        BY <2>1, <2>2, <4>1, <4>2, <4>3, <4>5, LoadContinues DEF d
    <3>5. CASE up # Nowhere
      <4>1. up \in DOMAIN Files
        BY <3>1, <3>5, ConfigAssumption DEF Up
      <4>2. call \in Calls /\ call.at = "open" /\ call.dir = up /\ call.visited = frame.visited
        BY <2>2, <3>2, <4>1 DEF Call, Calls, Settings
      <4>3. Push(frame, call)
        BY <1>3, <2>5, <3>5 DEF OpenFile, Up
      <4>4. Sound(frame) /\ Sound(call) /\ Leads(frame, call)
        BY <3>1, <3>2, <3>5, <4>2 DEF Sound, Leads, MetBefore
      <4> HIDE DEF frame, call
      <4> QED
        BY <2>1, <2>2, <3>2, <3>3, <4>2, <4>3, <4>4, LoadCalls
    <3> QED
      BY <3>4, <3>5
  <2> QED
    BY <2>3, <2>4, <2>5
<1>4. ASSUME LoadStep, ParentLoaded PROVE LoadInv'
  <2>1. stack # <<>> /\ Top.at = "parent" /\ ret # Nothing
    BY <1>4 DEF ParentLoaded, InCall
  <2>2. start' = start /\ Top \in Calls /\ Sound(Top) /\ Unset \in Settings
    BY <1>2, <1>4, <2>1
  <2>3. CASE ret.is # "ok"
    <3>1. Return(ret.is, Unset)
      BY <1>4, <2>3 DEF ParentLoaded
    <3>2. ret.is \in {"absent", "error"}
      BY <3>1, <2>1, <2>2, <2>3 DEF LoadInv, LoadTypes, Returns
    <3> QED
      BY <2>1, <2>2, <3>1, <3>2, LoadReturns
  <2>4. CASE ret.is = "ok"
    <3> DEFINE merged == MergeParent(Top.value, ret.value)
               frame == [Top EXCEPT !.value = merged, !.at = "children"]
    <3>1. Continue(frame)
      BY <1>4, <2>4 DEF ParentLoaded
    <3>2. Resolved(Up(Top.dir), ret.value, Top.visited) /\ ret.value \in Settings
      BY <2>1, <2>4, TopOfCalls DEF LoadInv, LoadTypes, Returns, Nothing, Answers, Last, Top
    <3>3. merged \in Settings
      BY <2>2, <3>2 DEF MergeParent, Calls
    <3>4. /\ frame \in Calls /\ frame.dir = Top.dir /\ frame.at = "children"
          /\ frame.value = merged /\ frame.visited = Top.visited
      BY <2>2, <3>3 DEF Calls
    <3>5. MetBefore(frame) = MetBefore(Top) /\ MetBefore(Top) = Top.visited \ {Top.dir}
      BY <2>1, <3>4 DEF MetBefore
    <3>6. Resolved(Top.dir, merged, Top.visited \ {Top.dir})
      BY <2>1, <2>2, <3>2, ResolvedBelow DEF Sound, Calls
    <3> HIDE DEF frame, merged
    <3>7. Sound(frame)
      BY <2>1, <2>2, <3>4, <3>5, <3>6 DEF Sound
    <3> QED
      BY <2>1, <2>2, <3>1, <3>4, <3>5, <3>7, LoadContinues
  <2> QED
    BY <2>3, <2>4
<1>5. ASSUME LoadStep, EnterWorkspaces \/ AllLoaded \/ LoadWorkspace \/ WorkspaceLoaded PROVE LoadInv'
  <2>1. stack # <<>> /\ Top.at \in {"children", "next", "workspace"}
    BY <1>5 DEF EnterWorkspaces, AllLoaded, LoadWorkspace, WorkspaceLoaded, InCall
  <2>2. start' = start /\ Top \in Calls /\ Sound(Top) /\ Unset \in Settings
    BY <1>2, <1>5, <2>1
  <2>3. Resolved(Top.dir, Top.value, MetBefore(Top)) /\ Top.value \in Settings
    BY <2>1, <2>2 DEF Sound, Calls
  <2>4. ASSUME NEW f \in Calls, f.dir = Top.dir, f.visited = Top.visited, f.value = Top.value,
               f.at \in {"next", "workspace"}
        PROVE  MetBefore(f) = MetBefore(Top) /\ Sound(f)
    <3>1. MetBefore(f) = MetBefore(Top)
      BY <2>1, <2>4 DEF MetBefore
    <3> QED
      BY <2>1, <2>2, <2>3, <2>4, <3>1 DEF Sound
  <2>5. CASE Return("ok", Top.value)
    BY <2>1, <2>2, <2>3, <2>5, LoadReturns
  <2>6. CASE Return("error", Unset)
    BY <2>1, <2>2, <2>6, LoadReturns
  <2>7. CASE EnterWorkspaces
    <3> DEFINE frame == [Top EXCEPT !.at = "next", !.todo = Files[Top.dir].workspaces]
    <3>1. CASE Top.follow
      <4>1. Continue(frame)
        BY <2>7, <3>1 DEF EnterWorkspaces
      <4>2. /\ frame \in Calls /\ frame.dir = Top.dir /\ frame.visited = Top.visited
            /\ frame.value = Top.value /\ frame.at = "next"
        BY <2>2, ConfigAssumption DEF Calls
      <4> HIDE DEF frame
      <4> QED
        BY <2>1, <2>2, <2>4, <4>1, <4>2, LoadContinues
    <3> QED
      BY <2>5, <2>7, <3>1 DEF EnterWorkspaces
  <2>8. CASE LoadWorkspace
    <3>1. PICK d \in Top.todo : Push([Top EXCEPT !.todo = @ \ {d}, !.at = "workspace"], Fresh(d))
      BY <2>8 DEF LoadWorkspace
    <3> DEFINE frame == [Top EXCEPT !.todo = @ \ {d}, !.at = "workspace"]
    <3>2. /\ frame \in Calls /\ frame.dir = Top.dir /\ frame.visited = Top.visited
          /\ frame.value = Top.value /\ frame.at = "workspace"
      BY <2>2 DEF Calls
    <3>3. Push(frame, Fresh(d))
      BY <3>1
    <3>4. Fresh(d) \in Calls /\ Fresh(d).at = "open"
      BY <2>2 DEF Fresh, Call, Calls, Settings
    <3> HIDE DEF frame
    <3>5. Sound(Fresh(d)) /\ Leads(frame, Fresh(d))
      BY <3>2, <3>4 DEF Sound, Leads
    <3> QED
      BY <2>1, <2>2, <2>4, <3>2, <3>3, <3>4, <3>5, LoadCalls
  <2>9. CASE WorkspaceLoaded
    <3> DEFINE frame == [Top EXCEPT !.at = "next"]
    <3>1. CASE ret.is # "error"
      <4>1. Continue(frame)
        BY <2>9, <3>1 DEF WorkspaceLoaded
      <4>2. /\ frame \in Calls /\ frame.dir = Top.dir /\ frame.visited = Top.visited
            /\ frame.value = Top.value /\ frame.at = "next"
        BY <2>2 DEF Calls
      <4> HIDE DEF frame
      <4> QED
        BY <2>1, <2>2, <2>4, <4>1, <4>2, LoadContinues
    <3> QED
      BY <2>6, <2>9, <3>1 DEF WorkspaceLoaded
  <2> QED
    BY <1>5, <2>5, <2>7, <2>8, <2>9 DEF AllLoaded
<1> QED
  BY <1>1, <1>3, <1>4, <1>5 DEF LoadStep

(* The command takes the steps of the load, and no other moves it.         *)
LEMMA LoadingStep == [Next]_vars => [LoadStep]_loading
<1>1. Developer => UNCHANGED loading
  BY DEF Developer
<1>2. Command => [LoadStep]_loading
  <2>1. Load => LoadStep
    BY DEF Load
  <2>2. Loaded \/ NextPhase \/ SelfSynced \/ Ready \/ Ask \/ Executed \/ RunChild \/ SyncListed \/ CollectChildren
        \/ ChildrenDone \/ PushSynced => UNCHANGED loading
    BY DEF Loaded, NextPhase, SelfSynced, Ready, Ask, Executed, RunChild, SyncListed, CollectChildren, ChildrenDone,
           PushSynced, Stay
  <2>3. ASSUME NEW n \in DOMAIN Workspaces, Bootstrap(n) \/ PlanForge(n) \/ PlanGit(n) \/ PlanConfig(n)
        PROVE  UNCHANGED loading
    BY <2>3 DEF Bootstrap, PlanForge, PlanGit, PlanConfig, Stay
  <2>4. ASSUME NEW a \in plan, Execute(a) PROVE UNCHANGED loading
    BY <2>4 DEF Execute, Stay
  <2> QED
    BY <2>1, <2>2, <2>3, <2>4 DEF Command
<1> QED
  BY <1>1, <1>2 DEF Next, vars

(* When the load succeeds, every file going up from the one asked for is   *)
(* there, the last of them has no parent, and the setting it ends with is  *)
(* the one set nearest to it ("child overrides parent").                   *)
THEOREM LoadedMeansResolvedHolds == Spec => []LoadedMeansResolved
<1>1. Init => LoadInv
  BY LoadInvInit DEF Init
<1>2. LoadInv /\ [Next]_vars => LoadInv'
  BY LoadInvStep, LoadingStep
<1>3. LoadInv => LoadedMeansResolved
  BY ResolvedWithin DEF LoadInv, Answers, LoadedMeansResolved
<1> QED
  BY <1>1, <1>2, <1>3, PTL DEF Spec

-----------------------------------------------------------------------------
(* What a successful sync leaves.                                          *)

(* What the cleanup of a forge workspace would take for an orphan.         *)
OrphanPlaces(n) ==
  {p \in Paths : Len(p) = Len(Workspaces[n].dir) + 1 /\ Within(Workspaces[n].dir, p) /\ Last(p) \notin Expected(n)}

Cleaned == {n \in Kind("forge") : Workspaces[n].cleanup}
WantedPlaces == UNION {{Target(Workspaces[n], r) : r \in Wanted(n)} : n \in Kind("forge")}

(* What a child configuration of a forge workspace is made of.             *)
Written(n) == {Target(Workspaces[n], r) : r \in Wanted(n)} \cup IF Workspaces[n].cleanup THEN OrphanPlaces(n) ELSE {}

(* What a configuration below the root may list, whoever wrote it.         *)
InsideLists == UNION {Inside[p].lists : p \in Paths}
DiskLists   == UNION {UNION {d.file[p].lists : p \in Paths} : d \in Disks}
ChildLists  == UNION {IF Workspaces[n].child # "none" THEN {<<Last(p)>> : p \in Written(n)} ELSE {} : n \in Kind("forge")}
Lists       == LinkLists \cup InsideLists \cup DiskLists \cup ChildLists

AllPlaces == Listed \cup Lists \cup {Workspaces[n].dir : n \in DOMAIN Workspaces} \cup WantedPlaces

(* Nothing the configurations name is, or lies in, what the cleanup of a   *)
(* forge workspace would take for an orphan, and no repository wanted has  *)
(* its place inside another's.                                             *)
PlacesApart ==
  /\ \A n \in Cleaned : \A p \in AllPlaces : Ancestors(p) \cap OrphanPlaces(n) = {}
  /\ \A p, q \in WantedPlaces : Within(p, q) => p = q

LEMMA PlacesArePaths == Lists \subseteq Paths /\ AllPlaces \subseteq Paths /\ WantedPlaces \subseteq Paths
<1>1. \A n \in Kind("forge") : \A r \in Wanted(n) : Target(Workspaces[n], r) \in Paths \ {<<>>}
  BY PlacesAssumption DEF Wanted
<1>2. WantedPlaces \subseteq Paths
  BY <1>1 DEF WantedPlaces
<1>3. \A n \in Kind("forge") : Written(n) \subseteq Paths \ {<<>>}
  <2> TAKE n \in Kind("forge")
  <2>1. Len(Workspaces[n].dir) \in Nat
    BY PlacesAssumption, PathLength DEF Kind
  <2>2. OrphanPlaces(n) \subseteq Paths \ {<<>>}
    BY <2>1, PathLength DEF OrphanPlaces
  <2> QED
    BY <1>1, <2>2 DEF Written
<1>4. \A n \in Kind("forge") : \A p \in Written(n) : <<Last(p)>> \in Paths
  BY <1>3, PlacesAssumption
<1>5. \A d \in Disks : \A p \in Paths : d.file[p].lists \subseteq Paths
  BY DiskAssumption DEF Tree, ConfigFiles
<1>6. \A p \in Paths : Inside[p].lists \subseteq Paths
  BY WorkspaceAssumption DEF ConfigFiles
<1>7. Lists \subseteq Paths
  <2>1. InsideLists \subseteq Paths
    BY <1>6 DEF InsideLists
  <2>2. DiskLists \subseteq Paths
    BY <1>5 DEF DiskLists
  <2>3. ChildLists \subseteq Paths
    BY <1>4 DEF ChildLists
  <2> QED
    BY <2>1, <2>2, <2>3, WorkspaceAssumption DEF Lists
<1> QED
  BY <1>2, <1>7, WorkspaceAssumption, PlacesAssumption DEF AllPlaces

LEMMA OrphansAre == ASSUME Tree(disk), NEW n PROVE Orphans(n) = disk.dirs \cap OrphanPlaces(n)
  BY DEF Orphans, OrphanPlaces, Tree

(* The place of an action decides what kind it can be.                     *)
PlacedRight(a) ==
  \/ a.type = "update" /\ a.at \in AllPlaces
  \/ a.type = "clone" /\ a.at \in WantedPlaces
  \/ a.type = "delete" /\ \E n \in Cleaned : a.at \in OrphanPlaces(n)

ListsInv ==
  /\ \A p \in Paths : disk.file[p].lists \subseteq Lists
  /\ \A i \in 1..Len(kids) : kids[i].list \subseteq Lists
  /\ \A a \in plan : PlacedRight(a)

-----------------------------------------------------------------------------
(* What the file operations do to directories, repositories and lists.     *)

LEMMA MkdirAllDoes ==
  ASSUME NEW d, Tree(d), NEW p \in Paths
  PROVE  MkdirAll(d, p).dirs = d.dirs \cup Ancestors(p) /\ MkdirAll(d, p).repos = d.repos /\ MkdirAll(d, p).file = d.file
<1>1. d \in [dirs : SUBSET Paths, repos : SUBSET Paths, file : [Paths -> ConfigFiles]]
  BY DEF Tree
<1> QED
  BY <1>1 DEF MkdirAll

LEMMA WriteFileDoes ==
  ASSUME NEW d, Tree(d), NEW p \in Paths, NEW by, NEW lists
  PROVE  /\ WriteFile(d, p, by, lists).dirs = d.dirs \cup Ancestors(p) /\ WriteFile(d, p, by, lists).repos = d.repos
         /\ \A q \in Paths : WriteFile(d, p, by, lists).file[q] = IF q = p THEN [by |-> by, lists |-> lists] ELSE d.file[q]
<1> DEFINE made == MkdirAll(d, p)
           file == [by |-> by, lists |-> lists]
<1>1. /\ made \in [dirs : SUBSET Paths, repos : SUBSET Paths, file : [Paths -> ConfigFiles]]
      /\ made.dirs = d.dirs \cup Ancestors(p) /\ made.repos = d.repos /\ made.file = d.file
  BY TreeMkdirAll, MkdirAllDoes DEF Tree
<1>2. WriteFile(d, p, by, lists) = [made EXCEPT !.file[p] = file]
  BY DEF WriteFile
<1> HIDE DEF made, file
<1>3. [made EXCEPT !.file[p] = file] = [dirs |-> made.dirs, repos |-> made.repos, file |-> [made.file EXCEPT ![p] = file]]
  BY <1>1
<1>4. \A q \in Paths : [made.file EXCEPT ![p] = file][q] = IF q = p THEN file ELSE made.file[q]
  BY <1>1
<1> QED
  BY <1>1, <1>2, <1>3, <1>4 DEF file

LEMMA WriteFileGrows ==
  ASSUME NEW d, Tree(d), NEW p \in Paths, NEW by, NEW lists, NEW e, e = WriteFile(d, p, by, lists)
  PROVE  e.dirs = d.dirs \cup Ancestors(p) /\ e.repos = d.repos
<1> DEFINE made == MkdirAll(d, p)
           file == [by |-> by, lists |-> lists]
<1>1. /\ made \in [dirs : SUBSET Paths, repos : SUBSET Paths, file : [Paths -> ConfigFiles]]
      /\ made.dirs = d.dirs \cup Ancestors(p) /\ made.repos = d.repos
  BY TreeMkdirAll, MkdirAllDoes DEF Tree
<1>2. e = [made EXCEPT !.file[p] = file]
  BY DEF WriteFile
<1> HIDE DEF made, file
<1> QED
  BY <1>1, <1>2

LEMMA WithoutDoes ==
  ASSUME NEW d, NEW p
  PROVE  /\ Without(d, p).dirs = {q \in d.dirs : ~Within(p, q)} /\ Without(d, p).repos = {q \in d.repos : ~Within(p, q)}
         /\ \A q \in Paths : Without(d, p).file[q] = IF Within(p, q) THEN NoFile ELSE d.file[q]
  BY DEF Without

LEMMA ClonedDoes ==
  ASSUME NEW d, Tree(d), NEW p \in Paths
  PROVE  /\ Cloned(d, p).dirs = Without(d, p).dirs \cup Ancestors(p) /\ Cloned(d, p).repos = Without(d, p).repos \cup {p}
         /\ \A q \in Paths : Cloned(d, p).file[q] = IF q = p THEN Inside[p] ELSE Without(d, p).file[q]
<1> DEFINE gone == Without(d, p)
           made == MkdirAll(gone, p)
           file == Inside[p]
<1>1. Tree(gone)
  BY TreeWithout
<1>2. /\ made \in [dirs : SUBSET Paths, repos : SUBSET Paths, file : [Paths -> ConfigFiles]]
      /\ made.dirs = gone.dirs \cup Ancestors(p) /\ made.repos = gone.repos /\ made.file = gone.file
  BY <1>1, TreeMkdirAll, MkdirAllDoes DEF Tree
<1>3. Cloned(d, p) = [made EXCEPT !.repos = @ \cup {p}, !.file[p] = file]
  BY DEF Cloned
<1> HIDE DEF made, file, gone
<1> DEFINE x == [made EXCEPT !.repos = @ \cup {p}]
<1>4. x = [dirs |-> made.dirs, repos |-> made.repos \cup {p}, file |-> made.file]
  BY <1>2
<1> HIDE DEF x
<1>5. [x EXCEPT !.file[p] = file]
        = [dirs |-> made.dirs, repos |-> made.repos \cup {p}, file |-> [made.file EXCEPT ![p] = file]]
  BY <1>4
<1>6. Cloned(d, p) = [x EXCEPT !.file[p] = file]
  BY <1>3 DEF x
<1>7. \A q \in Paths : [made.file EXCEPT ![p] = file][q] = IF q = p THEN file ELSE made.file[q]
  BY <1>2
<1> QED
  BY <1>2, <1>5, <1>6, <1>7 DEF gone, file

LEMMA InsideListed == \A p \in Paths : Inside[p].lists \subseteq Lists
  BY DEF Lists, InsideLists

LEMMA AncestorsHold == ASSUME NEW p \in Paths PROVE p \in Ancestors(p)
  BY WithinItself DEF Ancestors

(* What an action does.                                                    *)
LEMMA OutcomeDoes ==
  ASSUME NEW d, Tree(d), NEW a \in Actions, NEW o \in Outcomes(d, a)
  PROVE  /\ o.d.dirs \subseteq d.dirs \cup IF a.type = "delete" THEN {} ELSE Ancestors(a.at)
         /\ \A p \in d.repos \ o.d.repos : a.type # "update" /\ Within(a.at, p)
         /\ o.ok => IF a.type = "delete" THEN a.at \notin o.d.dirs ELSE a.at \in o.d.repos
         /\ \A p \in Paths : o.d.file[p].lists \subseteq d.file[p].lists \cup Lists
<1> DEFINE gone == Without(d, a.at)
           half == [gone EXCEPT !.dirs = d.dirs]
           fresh == Cloned(d, a.at)
           kept == [d EXCEPT !.file[a.at] = IF Inside[a.at] = NoFile THEN @ ELSE Inside[a.at]]
<1>1. a.at \in Paths /\ a.type \in {"update", "clone", "delete"}
  BY DEF Actions
<1>2. \/ o = [d |-> d, ok |-> FALSE]
      \/ a.type = "delete" /\ (o = [d |-> gone, ok |-> TRUE] \/ o = [d |-> half, ok |-> FALSE])
      \/ a.type = "clone" /\ (o = [d |-> fresh, ok |-> TRUE] \/ o = [d |-> gone, ok |-> FALSE])
      \/ a.type = "update" /\ a.at \notin d.dirs /\ o = [d |-> fresh, ok |-> TRUE]
      \/ a.type = "update" /\ a.at \in d.repos /\ o = [d |-> kept, ok |-> TRUE]
  <2> HIDE DEF gone, half, fresh, kept
  <2> QED
    BY DEF Outcomes, gone, half, fresh, kept
<1>3. d \in [dirs : SUBSET Paths, repos : SUBSET Paths, file : [Paths -> ConfigFiles]] /\ d.repos \subseteq d.dirs
  BY DEF Tree
<1>4. NoFile.lists = {}
  BY DEF NoFile
<1>5. /\ gone.dirs \subseteq d.dirs /\ \A p \in d.repos \ gone.repos : Within(a.at, p)
      /\ a.at \notin gone.dirs /\ \A p \in Paths : gone.file[p].lists \subseteq d.file[p].lists
  BY <1>1, <1>4, WithoutDoes, WithinItself
<1>6. half.dirs = d.dirs /\ half.repos = gone.repos /\ half.file = gone.file
  <2>1. gone \in [dirs : SUBSET Paths, repos : SUBSET Paths, file : [Paths -> ConfigFiles]]
    BY <1>1, TreeWithout DEF Tree
  <2> HIDE DEF gone
  <2> QED
    BY <2>1
<1>7. /\ fresh.dirs \subseteq d.dirs \cup Ancestors(a.at) /\ a.at \in fresh.repos
      /\ \A p \in d.repos \ fresh.repos : Within(a.at, p)
      /\ \A p \in Paths : fresh.file[p].lists \subseteq d.file[p].lists \cup Lists
  <2>1. fresh.dirs = gone.dirs \cup Ancestors(a.at) /\ fresh.repos = gone.repos \cup {a.at}
    BY <1>1, ClonedDoes
  <2>2. \A q \in Paths : fresh.file[q] = IF q = a.at THEN Inside[a.at] ELSE gone.file[q]
    BY <1>1, ClonedDoes
  <2> HIDE DEF fresh, gone
  <2> QED
    BY <1>1, <1>5, <2>1, <2>2, InsideListed
<1>8. a.at \notin d.dirs => \A p \in d.repos : ~Within(a.at, p)
  BY <1>1 DEF Tree, Ancestors
<1>9. /\ kept.dirs = d.dirs /\ kept.repos = d.repos
      /\ \A p \in Paths : kept.file[p].lists \subseteq d.file[p].lists \cup Lists
  <2> DEFINE file == IF Inside[a.at] = NoFile THEN d.file[a.at] ELSE Inside[a.at]
  <2>1. kept = [dirs |-> d.dirs, repos |-> d.repos, file |-> [d.file EXCEPT ![a.at] = file]]
    BY <1>1, <1>3
  <2>2. \A p \in Paths : [d.file EXCEPT ![a.at] = file][p] = IF p = a.at THEN file ELSE d.file[p]
    BY <1>3
  <2>3. file.lists \subseteq d.file[a.at].lists \cup Lists
    BY <1>1, InsideListed
  <2> HIDE DEF kept, file
  <2> QED
    BY <2>1, <2>2, <2>3
<1> HIDE DEF gone, half, fresh, kept
<1>10. CASE o = [d |-> d, ok |-> FALSE]
  BY <1>10
<1>11. CASE a.type = "delete" /\ o = [d |-> gone, ok |-> TRUE]
  BY <1>5, <1>11
<1>12. CASE a.type = "delete" /\ o = [d |-> half, ok |-> FALSE]
  BY <1>5, <1>6, <1>12
<1>13. CASE a.type = "clone" /\ o = [d |-> fresh, ok |-> TRUE]
  BY <1>7, <1>13
<1>14. CASE a.type = "clone" /\ o = [d |-> gone, ok |-> FALSE]
  BY <1>5, <1>14
<1>15. CASE a.type = "update" /\ a.at \notin d.dirs /\ o = [d |-> fresh, ok |-> TRUE]
  BY <1>7, <1>8, <1>15
<1>16. CASE a.type = "update" /\ a.at \in d.repos /\ o = [d |-> kept, ok |-> TRUE]
  BY <1>9, <1>16
<1> QED
  BY <1>2, <1>10, <1>11, <1>12, <1>13, <1>14, <1>15, <1>16

-----------------------------------------------------------------------------
(* What is listed and planned names places.                                *)

LEMMA WrittenLists ==
  ASSUME Tree(disk), NEW n \in Kind("forge"), Workspaces[n].child # "none"
  PROVE  {<<Last(a.at)>> : a \in ForgePlan(n)} \subseteq Lists
<1>1. \A a \in ForgePlan(n) : a.at \in Written(n)
  BY OrphansAre DEF ForgePlan, Sync, Action, Written
<1>2. {<<Last(p)>> : p \in Written(n)} \subseteq Lists
  BY DEF Lists, ChildLists
<1> QED
  BY <1>1, <1>2

LEMMA ForgePlanPlaced == ASSUME Tree(disk), NEW n \in Kind("forge"), NEW a \in ForgePlan(n) PROVE PlacedRight(a)
<1>1. \A r \in Wanted(n) : Target(Workspaces[n], r) \in WantedPlaces
  BY DEF WantedPlaces
<1>2. CASE a \in Sync(n)
  <2>1. PICK r \in Wanted(n) : a.at = Target(Workspaces[n], r) /\ a.type \in {"update", "clone"}
    BY <1>2 DEF Sync, Action
  <2> QED
    BY <1>1, <2>1 DEF PlacedRight, AllPlaces
<1>3. CASE Workspaces[n].cleanup /\ a \in {Action(p, "resolved", "delete") : p \in Orphans(n)}
  BY <1>3, OrphansAre DEF PlacedRight, Action, Cleaned
<1> QED
  BY <1>2, <1>3 DEF ForgePlan

LEMMA ListsInit == Init => ListsInv
<1> SUFFICES ASSUME Init PROVE ListsInv
  OBVIOUS
<1>1. \A p \in Paths : disk.file[p].lists \subseteq Lists
  BY DEF Init, Lists, DiskLists
<1> QED
  BY <1>1 DEF Init, ListsInv

(* Files.                                                                  *)
LEMMA FilesStep ==
  ASSUME TypeInv, ListsInv, [Next]_vars
  PROVE  \A p \in Paths : disk'.file[p].lists \subseteq Lists
<1>0. Tree(disk) /\ ControlInv /\ PlanInv /\ KidsInv
  BY DEF TypeInv
<1>l. \A p \in Paths : disk.file[p].lists \subseteq Lists
  BY DEF ListsInv
<1> DEFINE Fine == \A p \in Paths : disk'.file[p].lists \subseteq Lists
<1>1. CASE UNCHANGED disk
  BY <1>l, <1>1
<1>2. ASSUME NEW p \in Paths, NEW by, NEW lists \in SUBSET Lists, disk' = WriteFile(disk, p, by, lists) PROVE Fine
  <2>1. \A q \in Paths : disk'.file[q] = IF q = p THEN [by |-> by, lists |-> lists] ELSE disk.file[q]
    BY <1>0, <1>2, WriteFileDoes
  <2> QED
    BY <1>l, <1>2, <2>1
<1>3. ASSUME NEW p \in Paths, Linked(p) PROVE Fine
  <2>1. LinkLists \subseteq Lists
    BY DEF Lists
  <2> QED
    BY <1>2, <1>3, <2>1 DEF Linked
<1>4. ASSUME NEW n \in DOMAIN Workspaces, Bootstrap(n) \/ PlanGit(n) \/ PlanConfig(n) PROVE Fine
  <2>1. Workspaces[n].dir \in Paths
    BY PlacesAssumption
  <2>2. \/ UNCHANGED disk \/ Linked(Workspaces[n].dir) \/ disk' = MkdirAll(disk, Workspaces[n].dir)
        \/ disk' = WriteFile(disk, Workspaces[n].dir, "tool", {})
    BY <1>4 DEF Bootstrap, PlanGit, PlanConfig
  <2>3. CASE disk' = MkdirAll(disk, Workspaces[n].dir)
    BY <1>0, <1>l, <2>1, <2>3, MkdirAllDoes
  <2> QED
    BY <1>1, <1>2, <1>3, <2>1, <2>2, <2>3
<1>5. ASSUME NEW n \in DOMAIN Workspaces, PlanForge(n) PROVE Fine
  <2> DEFINE w == Workspaces[n]
             lists == {<<Last(a.at)>> : a \in ForgePlan(n)}
  <2>1. n \in Kind("forge") /\ w.dir \in Paths
    BY <1>0, <1>5, ForgeNamed, PlacesAssumption
  <2>2. UNCHANGED disk \/ Linked(w.dir) \/ disk' = WithChildConfig(n, ForgePlan(n)) \/ disk' = MkdirAll(disk, w.dir)
    BY <1>5 DEF PlanForge
  <2>3. WithChildConfig(n, ForgePlan(n)) \in {disk, MkdirAll(disk, w.dir)}
          \/ (w.child # "none" /\ WithChildConfig(n, ForgePlan(n)) = WriteFile(disk, w.dir, "tool", lists))
    BY DEF WithChildConfig
  <2>4. w.child # "none" => lists \subseteq Lists
    BY <1>0, <2>1, WrittenLists
  <2> HIDE DEF w, lists
  <2>5. CASE disk' = MkdirAll(disk, w.dir)
    BY <1>0, <1>l, <2>1, <2>5, MkdirAllDoes
  <2>6. CASE w.child # "none" /\ disk' = WriteFile(disk, w.dir, "tool", lists)
    BY <1>2, <2>1, <2>4, <2>6
  <2> QED
    BY <1>1, <1>3, <2>1, <2>2, <2>3, <2>5, <2>6
<1>6. CASE SyncListed
  <2>1. Last(kids) \in Frames
    BY <1>0, <1>6, FrameTypes DEF KidsInv, SyncListed
  <2>2. PICK p \in Last(kids).list : \E o \in Outcomes(disk, Update(p)) : disk' = o.d
    BY <1>6 DEF SyncListed
  <2>3. Update(p) \in Actions
    BY <2>1 DEF Update, Action, Actions, Frames
  <2> QED
    BY <1>0, <1>l, <2>2, <2>3, OutcomeDoes
<1>7. ASSUME NEW a \in plan, Execute(a) PROVE Fine
  <2>1. a \in Actions
    BY <1>0, <1>7 DEF PlanInv
  <2>2. UNCHANGED disk \/ \E o \in Outcomes(disk, a) : disk' = o.d
    BY <1>7 DEF Execute
  <2> QED
    BY <1>0, <1>l, <1>1, <2>1, <2>2, OutcomeDoes
<1>8. CASE Developer
  <2>1. PICK p \in Paths : disk' \in {MkdirAll(disk, p), WriteFile(disk, p, "user", {}), Cloned(disk, p), Without(disk, p)}
    BY <1>8 DEF Developer
  <2>2. \A q \in Paths : Without(disk, p).file[q].lists \subseteq Lists
    BY <1>l, WithoutDoes DEF NoFile
  <2>3. CASE disk' = MkdirAll(disk, p)
    BY <1>0, <1>l, <2>3, MkdirAllDoes
  <2>4. CASE disk' = WriteFile(disk, p, "user", {})
    BY <1>2, <2>4
  <2>5. CASE disk' = Cloned(disk, p)
    BY <1>0, <2>2, <2>5, ClonedDoes, InsideListed
  <2> QED
    BY <2>1, <2>2, <2>3, <2>4, <2>5
<1>9. CASE Load \/ Loaded \/ NextPhase \/ SelfSynced \/ Ready \/ Ask \/ Executed \/ RunChild \/ CollectChildren \/ ChildrenDone
           \/ PushSynced \/ UNCHANGED vars
  BY <1>1, <1>9 DEF Load, Loaded, NextPhase, SelfSynced, Ready, Ask, Executed, RunChild, CollectChildren, ChildrenDone, PushSynced, vars
<1> QED
  BY <1>4, <1>5, <1>6, <1>7, <1>8, <1>9 DEF Next, Command

(* What a workspace being synced has still to sync.                        *)
LEMMA KidListsStep ==
  ASSUME TypeInv, ListsInv, [Next]_vars
  PROVE  \A i \in 1..Len(kids') : kids'[i].list \subseteq Lists
<1>0. Tree(disk) /\ kids \in Seq(Frames)
  BY DEF TypeInv, KidsInv
<1>l. /\ \A i \in 1..Len(kids) : kids[i].list \subseteq Lists
      /\ \A p \in Paths : disk.file[p].lists \subseteq Lists
  BY DEF ListsInv
<1> DEFINE Fine == \A i \in 1..Len(kids') : kids'[i].list \subseteq Lists
<1>1. CASE UNCHANGED kids
  BY <1>l, <1>1
<1>2. ASSUME kids # <<>>
      PROVE  /\ Last(kids) \in Frames /\ Last(kids).list \subseteq Lists
             /\ Front(kids) \in Seq(Frames) /\ \A i \in 1..Len(Front(kids)) : Front(kids)[i].list \subseteq Lists
  <2>1. /\ Len(kids) \in Nat /\ Len(kids) > 0 /\ Front(kids) \in Seq(Frames) /\ Len(Front(kids)) = Len(kids) - 1
        /\ \A i \in 1..Len(kids) - 1 : Front(kids)[i] = kids[i]
    BY <1>0, <1>2, AllButLast
  <2>2. Last(kids) = kids[Len(kids)] /\ Last(kids) \in Frames
    BY <1>0, <1>2, FrameTypes DEF Last
  <2> QED
    BY <1>l, <2>1, <2>2
<1>3. ASSUME NEW s \in Seq(Frames), \A i \in 1..Len(s) : s[i].list \subseteq Lists, NEW f \in Frames, f.list \subseteq Lists
      PROVE  \A i \in 1..Len(Append(s, f)) : Append(s, f)[i].list \subseteq Lists
  BY <1>3
<1>4. ASSUME kids # <<>>, NEW f \in Frames, f.list \subseteq Lists
      PROVE  Replaced(f) \in Seq(Frames) /\ \A i \in 1..Len(Replaced(f)) : Replaced(f)[i].list \subseteq Lists
  <2>1. Front(kids) \in Seq(Frames) /\ \A i \in 1..Len(Front(kids)) : Front(kids)[i].list \subseteq Lists
    BY <1>2, <1>4
  <2> QED
    BY <1>3, <1>4, <2>1 DEF Replaced
<1>5. CASE Executed
  <2>1. kids' = kids \/ kids' = <<>> \/ kids' = <<Frame(<<>>, {}, results.ok, 0)>>
    BY <1>5 DEF Executed
  <2> QED
    BY <1>1, <2>1 DEF Frame
<1>6. CASE RunChild
  <2>1. kids # <<>>
    BY <1>6 DEF RunChild
  <2>2. PICK a \in Last(kids).dirs :
          LET rest == Replaced([Last(kids) EXCEPT !.dirs = @ \ {a}])
          IN  kids' = rest \/ kids' = Append(rest, Frame(a.at, disk.file[a.at].lists \ {a.at}, {}, Last(kids).depth + 1))
    BY <1>6 DEF RunChild
  <2> DEFINE p == a.at
             same == [Last(kids) EXCEPT !.dirs = @ \ {a}]
             child == Frame(p, disk.file[p].lists \ {p}, {}, Last(kids).depth + 1)
  <2>3. Last(kids) \in Frames /\ Last(kids).list \subseteq Lists /\ p \in Paths
    BY <1>2, <2>1 DEF Frames, Actions
  <2>4. same \in Frames /\ same.list \subseteq Lists
    BY <2>3 DEF Frames
  <2>5. disk.file[p].lists \subseteq Lists /\ Lists \subseteq Paths
    BY <1>l, <2>3, PlacesArePaths
  <2>6. child \in Frames /\ child.list \subseteq Lists
    BY <2>3, <2>5 DEF Frames, Frame
  <2>7. kids' = Replaced(same) \/ kids' = Append(Replaced(same), child)
    BY <2>2
  <2> HIDE DEF same, child
  <2>8. Replaced(same) \in Seq(Frames) /\ \A i \in 1..Len(Replaced(same)) : Replaced(same)[i].list \subseteq Lists
    BY <1>4, <2>1, <2>4
  <2> QED
    BY <1>3, <2>6, <2>7, <2>8
<1>7. CASE SyncListed
  <2>1. kids # <<>>
    BY <1>7 DEF SyncListed
  <2>2. PICK p, o : /\ p \in Last(kids).list
                    /\ kids' = Replaced([Last(kids) EXCEPT !.list = @ \ {p}, !.ok = IF o.ok THEN @ \cup {Update(p)} ELSE @])
    BY <1>7 DEF SyncListed
  <2> DEFINE f == [Last(kids) EXCEPT !.list = @ \ {p}, !.ok = IF o.ok THEN @ \cup {Update(p)} ELSE @]
  <2>5. Update(p) \in Actions
    BY <1>2, <2>1, <2>2 DEF Update, Action, Actions, Frames
  <2>3. f \in Frames /\ f.list \subseteq Lists
    BY <1>2, <2>1, <2>2, <2>5 DEF Frames
  <2> HIDE DEF f
  <2>4. \A i \in 1..Len(Replaced(f)) : Replaced(f)[i].list \subseteq Lists
    BY <1>4, <2>1, <2>3
  <2> QED
    BY <2>2, <2>4 DEF f
<1>8. CASE CollectChildren
  <2>1. kids # <<>>
    BY <1>8 DEF CollectChildren
  <2> DEFINE dirs == IF Last(kids).depth >= MaxDepth THEN {} ELSE Children(Last(kids).ok, disk, visited)
             f == [Last(kids) EXCEPT !.at = "descend", !.dirs = dirs]
  <2>2. Last(kids) \in Frames /\ Last(kids).list \subseteq Lists
    BY <1>2, <2>1
  <2>3. dirs \subseteq Actions
    BY <2>2 DEF Children, Frames
  <2>4. f \in Frames /\ f.list \subseteq Lists
    <3> HIDE DEF dirs
    <3> QED
      BY <2>2, <2>3 DEF Frames
  <2>5. kids' = Replaced(f)
    BY <1>8 DEF CollectChildren
  <2> HIDE DEF f
  <2> QED
    BY <1>4, <2>1, <2>4, <2>5
<1>9. CASE ChildrenDone
  BY <1>2, <1>9 DEF ChildrenDone
<1>10. CASE Load \/ Loaded \/ NextPhase \/ SelfSynced \/ Ready \/ Ask \/ PushSynced \/ Developer \/ UNCHANGED vars
            \/ (\E n \in DOMAIN Workspaces : Bootstrap(n) \/ PlanForge(n) \/ PlanGit(n) \/ PlanConfig(n)) \/ (\E a \in plan : Execute(a))
  BY <1>1, <1>10 DEF Load, Loaded, NextPhase, SelfSynced, Ready, Ask, PushSynced, Developer, vars, Bootstrap, PlanForge, PlanGit, PlanConfig, Execute, NoSync
<1> QED
  BY <1>5, <1>6, <1>7, <1>8, <1>9, <1>10 DEF Next, Command

(* The plan.                                                               *)
LEMMA PlacedStep ==
  ASSUME TypeInv, ListsInv, [Next]_vars
  PROVE  \A a \in plan' : PlacedRight(a)
<1>0. Tree(disk) /\ ControlInv
  BY DEF TypeInv
<1>l. \A a \in plan : PlacedRight(a)
  BY DEF ListsInv
<1>1. CASE UNCHANGED plan
  BY <1>l, <1>1
<1>2. ASSUME NEW more, \A a \in more : PlacedRight(a), plan' \subseteq plan \cup more
      PROVE  \A a \in plan' : PlacedRight(a)
  BY <1>l, <1>2
<1>3. ASSUME NEW lists \in SUBSET AllPlaces, NEW own PROVE \A a \in FlatActions(lists, own) : PlacedRight(a)
  BY <1>3 DEF FlatActions, Update, Action, PlacedRight
<1>4. CASE Loaded
  <2>1. Listed \subseteq AllPlaces
    BY DEF AllPlaces
  <2> QED
    BY <1>2, <1>3, <1>4, <2>1 DEF Loaded
<1>5. ASSUME NEW n \in DOMAIN Workspaces, PlanForge(n) PROVE \A a \in plan' : PlacedRight(a)
  <2>1. n \in Kind("forge")
    BY <1>0, <1>5, ForgeNamed
  <2>2. plan' \subseteq plan \cup ForgePlan(n)
    BY <1>5 DEF PlanForge, Deduplicated
  <2> QED
    BY <1>0, <1>2, <2>1, <2>2, ForgePlanPlaced
<1>6. ASSUME NEW n \in DOMAIN Workspaces, PlanGit(n) PROVE \A a \in plan' : PlacedRight(a)
  <2>1. PlacedRight(Action(Workspaces[n].dir, "resolved", "update"))
    BY DEF Action, PlacedRight, AllPlaces
  <2>2. plan' \subseteq plan \cup {Action(Workspaces[n].dir, "resolved", "update")}
    BY <1>6 DEF PlanGit, Deduplicated
  <2> QED
    BY <1>l, <2>1, <2>2
<1>7. ASSUME NEW n \in DOMAIN Workspaces, PlanConfig(n) PROVE \A a \in plan' : PlacedRight(a)
  <2>1. disk.file[Workspaces[n].dir].lists \subseteq AllPlaces
    BY PlacesAssumption DEF ListsInv, AllPlaces
  <2>2. plan' \subseteq plan \cup FlatActions(disk.file[Workspaces[n].dir].lists, Workspaces[n].dir)
    BY <1>7 DEF PlanConfig, Deduplicated
  <2> QED
    BY <1>2, <1>3, <2>1, <2>2
<1>8. CASE Load \/ NextPhase \/ SelfSynced \/ Ready \/ Ask \/ Executed \/ RunChild \/ SyncListed \/ CollectChildren \/ ChildrenDone \/ PushSynced
           \/ Developer \/ UNCHANGED vars \/ (\E n \in DOMAIN Workspaces : Bootstrap(n)) \/ (\E a \in plan : Execute(a))
  BY <1>1, <1>8 DEF Load, NextPhase, SelfSynced, Ready, Ask, Executed, RunChild, SyncListed, CollectChildren, ChildrenDone, PushSynced, Developer,
    vars, Bootstrap, Execute
<1> QED
  BY <1>4, <1>5, <1>6, <1>7, <1>8 DEF Next, Command

LEMMA ListsStep == TypeInv /\ ListsInv /\ [Next]_vars => ListsInv'
<1> SUFFICES ASSUME TypeInv, ListsInv, [Next]_vars PROVE ListsInv'
  OBVIOUS
<1>1. \A a : PlacedRight(a)' <=> PlacedRight(a)
  BY DEF PlacedRight
<1> QED
  BY <1>1, FilesStep, KidListsStep, PlacedStep DEF ListsInv

-----------------------------------------------------------------------------
(* What has been planned, and what has become of it.                       *)

(* The forge workspace has been dealt with, and the command goes on or has *)
(* ended with 0.                                                           *)
HasPlan(n) ==
  /\ ret.is = "ok"
  /\ \/ pc \in {"git", "config", "self", "ready", "ask", "execute", "children"}
     \/ pc = "forge" /\ n \notin todo
     \/ pc = "done" /\ exit = 0

HasAction(p) == \E a \in plan : a.at = p

(* Every repository wanted has an action, and an orphan that is still      *)
(* there has one which has not succeeded.                                  *)
CoveredWanted(n) == \A r \in Wanted(n) : HasAction(Target(Workspaces[n], r))
CoveredOrphans(n) ==
  Workspaces[n].cleanup /\ Wanted(n) # {} => \A p \in disk.dirs \cap OrphanPlaces(n) : HasAction(p) /\ p \notin Places(results.ok)
Covered(n) == CoveredWanted(n) /\ CoveredOrphans(n)

InPlace == results.failed = {} => WantedPlaces \cap Places(results.ok) \subseteq disk.repos

Ended ==
  /\ pc = "children" \/ (pc = "done" /\ exit = 0 /\ ~seen.declined) => plan \subseteq Settled
  /\ pc = "done" /\ exit = 0 => results.failed = {}

MirrorInv ==
  ~req.dry /\ ~seen.active =>
    /\ \A n \in Names("forge") : HasPlan(n) => Covered(n)
    /\ InPlace /\ Ended

LEMMA MirrorInit == Init => MirrorInv
  BY DEF Init, MirrorInv, HasPlan, InPlace, Ended, Places

(* A step that only adds places the configurations name keeps what is      *)
(* covered and in place.                                                   *)
Grown == disk'.dirs \subseteq disk.dirs \cup UNION {Ancestors(p) : p \in AllPlaces} /\ disk.repos \subseteq disk'.repos

LEMMA GrownKeeps ==
  ASSUME PlacesApart, Grown, plan \subseteq plan', UNCHANGED results
  PROVE  (\A n \in Names("forge") : Covered(n) => Covered(n)') /\ (InPlace => InPlace')
<1>1. \A p : HasAction(p) => HasAction(p)'
  BY DEF HasAction
<1>2. ASSUME NEW n \in Names("forge"), Workspaces[n].cleanup
      PROVE  disk'.dirs \cap OrphanPlaces(n) \subseteq disk.dirs
  <2>1. \A p \in AllPlaces : Ancestors(p) \cap OrphanPlaces(n) = {}
    BY <1>2 DEF PlacesApart, Cleaned, Names
  <2> QED
    BY <2>1 DEF Grown
<1>3. ASSUME NEW n \in Names("forge"), Covered(n) PROVE Covered(n)'
  BY <1>1, <1>2, <1>3 DEF Covered, CoveredWanted, CoveredOrphans
<1> QED
  BY <1>3 DEF InPlace, Grown

LEMMA GrownBy == ASSUME NEW p \in AllPlaces, disk'.dirs \subseteq disk.dirs \cup Ancestors(p), disk.repos \subseteq disk'.repos PROVE Grown
  BY DEF Grown

LEMMA GrownNot == ASSUME UNCHANGED disk PROVE Grown
  BY DEF Grown

(* Planning only adds directories.                                         *)
LEMMA PlanningGrows ==
  ASSUME TypeInv, NEW n \in DOMAIN Workspaces, Bootstrap(n) \/ PlanForge(n) \/ PlanGit(n) \/ PlanConfig(n)
  PROVE  disk'.dirs \subseteq disk.dirs \cup Ancestors(Workspaces[n].dir) /\ disk.repos \subseteq disk'.repos
<1> DEFINE p == Workspaces[n].dir
<1>1. p \in Paths /\ Tree(disk)
  BY PlacesAssumption DEF TypeInv
<1>2. \/ UNCHANGED disk \/ disk' = MkdirAll(disk, p)
      \/ \E by, lists : disk' = WriteFile(disk, p, by, lists)
  BY DEF Bootstrap, PlanForge, PlanGit, PlanConfig, Linked, WithChildConfig
<1> HIDE DEF p
<1>3. ASSUME NEW by, NEW lists, disk' = WriteFile(disk, p, by, lists)
      PROVE  disk'.dirs \subseteq disk.dirs \cup Ancestors(p) /\ disk.repos \subseteq disk'.repos
  <2>1. disk'.dirs = disk.dirs \cup Ancestors(p) /\ disk'.repos = disk.repos
    BY <1>1, <1>3, WriteFileGrows
  <2> QED
    BY <1>3, <2>1
<1>4. ASSUME disk' = MkdirAll(disk, p)
      PROVE  disk'.dirs \subseteq disk.dirs \cup Ancestors(p) /\ disk.repos \subseteq disk'.repos
  BY <1>1, <1>4, MkdirAllDoes
<1> QED
  BY <1>2, <1>3, <1>4 DEF p

LEMMA ForgeCovered ==
  ASSUME TypeInv, PlacesApart, NEW n \in Kind("forge"), pc \in Early, UNCHANGED results,
         plan' = Deduplicated(plan, ForgePlan(n)), Grown
  PROVE  Covered(n)'
<1> DEFINE w == Workspaces[n]
<1>1. ASSUME NEW a \in ForgePlan(n) PROVE HasAction(a.at)'
  <2>1. CASE \A b \in plan : <<b.at, b.as>> # <<a.at, a.as>>
    BY <1>1, <2>1 DEF HasAction, Deduplicated
  <2>2. ASSUME NEW b \in plan, <<b.at, b.as>> = <<a.at, a.as>> PROVE HasAction(a.at)'
    <3>1. b.at = a.at /\ b \in plan'
      BY <2>2 DEF Deduplicated
    <3> QED
      BY <3>1 DEF HasAction
  <2> QED
    BY <2>1, <2>2
<1>2. CoveredWanted(n)'
  <2>1. ASSUME NEW r \in Wanted(n) PROVE HasAction(Target(w, r))'
    <3> DEFINE a == Action(Target(w, r), "resolved", IF Target(w, r) \in disk.repos THEN "update" ELSE "clone")
    <3>1. a \in Sync(n) /\ a.at = Target(w, r)
      BY DEF Sync, Action
    <3>2. a \in ForgePlan(n)
      BY <3>1 DEF ForgePlan
    <3> HIDE DEF a
    <3> QED
      BY <1>1, <3>1, <3>2
  <2> QED
    BY <2>1 DEF CoveredWanted
<1>3. Places(results'.ok) = {}
  BY DEF TypeInv, PlanInv, Settled, Places
<1>4. ASSUME w.cleanup, Wanted(n) # {}, NEW p \in disk'.dirs \cap OrphanPlaces(n) PROVE HasAction(p)'
  <2>1. \A q \in AllPlaces : Ancestors(q) \cap OrphanPlaces(n) = {}
    BY <1>4 DEF PlacesApart, Cleaned, Names
  <2>2. p \in Orphans(n)
    BY <1>4, <2>1, OrphansAre DEF Grown, TypeInv
  <2> DEFINE a == Action(p, "resolved", "delete")
  <2>3. a \in ForgePlan(n) /\ a.at = p
    BY <1>4, <2>2 DEF ForgePlan, Action
  <2> HIDE DEF a
  <2> QED
    BY <1>1, <2>3
<1> QED
  BY <1>2, <1>3, <1>4 DEF Covered, CoveredOrphans

(* The execution of an action of the plan.                                 *)
LEMMA ExecuteKeeps ==
  ASSUME TypeInv, ListsInv, PlacesApart, ~req.dry, NEW a \in plan, Execute(a)
  PROVE  (\A n \in Names("forge") : Covered(n) => Covered(n)') /\ (InPlace => InPlace')
<1>0. /\ Tree(disk) /\ a \in Actions /\ PlacedRight(a)
      /\ results \in [ok : SUBSET Actions, failed : SUBSET Actions]
  BY DEF TypeInv, PlanInv, ListsInv
<1>1. PICK o \in Outcomes(disk, a) : disk' = o.d /\ Settle(a, o.ok)
  BY DEF Execute, Dry
<1>2. /\ disk'.dirs \subseteq disk.dirs \cup IF a.type = "delete" THEN {} ELSE Ancestors(a.at)
      /\ \A p \in disk.repos \ disk'.repos : a.type # "update" /\ Within(a.at, p)
      /\ o.ok => IF a.type = "delete" THEN a.at \notin disk'.dirs ELSE a.at \in disk'.repos
  BY <1>0, <1>1, OutcomeDoes
<1>s. /\ results'.ok = IF o.ok THEN results.ok \cup {a} ELSE results.ok
      /\ results'.failed = IF o.ok THEN results.failed ELSE results.failed \cup {a}
  BY <1>0, <1>1 DEF Settle
<1>3. /\ Places(results'.ok) = IF o.ok THEN Places(results.ok) \cup {a.at} ELSE Places(results.ok)
      /\ results'.failed = {} => o.ok /\ results.failed = {}
  BY <1>s DEF Places
<1>4. plan' = plan
  BY DEF Execute
<1>5. a.type # "delete" => a.at \in AllPlaces
  BY <1>0 DEF PlacedRight, AllPlaces
<1>6. ASSUME NEW n \in Names("forge"), Covered(n) PROVE Covered(n)'
  <2>1. \A p : HasAction(p)' <=> HasAction(p)
    BY <1>4 DEF HasAction
  <2>2. ASSUME Workspaces[n].cleanup, Wanted(n) # {}, NEW p \in disk'.dirs \cap OrphanPlaces(n)
        PROVE  HasAction(p) /\ p \notin Places(results'.ok)
    <3>1. \A q \in AllPlaces : Ancestors(q) \cap OrphanPlaces(n) = {}
      BY <2>2 DEF PlacesApart, Cleaned, Names
    <3>2. p \in disk.dirs
      BY <1>2, <1>5, <2>2, <3>1
    <3>3. HasAction(p) /\ p \notin Places(results.ok)
      BY <1>6, <2>2, <3>2 DEF Covered, CoveredOrphans
    <3>4. ~(o.ok /\ p = a.at)
      <4> SUFFICES ASSUME o.ok, p = a.at PROVE FALSE
        OBVIOUS
      <4>1. p \in Ancestors(p)
        BY <2>2, AncestorsHold DEF OrphanPlaces
      <4>2. a.type = "delete"
        BY <1>5, <2>2, <3>1, <4>1
      <4> QED
        BY <1>2, <2>2, <4>2
    <3> QED
      BY <1>3, <3>3, <3>4
  <2> QED
    BY <1>6, <2>1, <2>2 DEF Covered, CoveredWanted, CoveredOrphans
<1>7. ASSUME InPlace, results'.failed = {}, NEW p \in WantedPlaces \cap Places(results'.ok) PROVE p \in disk'.repos
  <2>1. o.ok /\ results.failed = {}
    BY <1>3, <1>7
  <2>2. p \in AllPlaces /\ p \in Paths
    BY <1>7, PlacesArePaths DEF AllPlaces
  <2>3. ASSUME a.type = "delete" PROVE ~Within(a.at, p)
    <3>1. PICK n \in Cleaned : a.at \in OrphanPlaces(n)
      BY <1>0, <2>3 DEF PlacedRight
    <3>2. a.at \in Paths
      BY <1>0 DEF Actions
    <3> QED
      BY <2>2, <3>1, <3>2 DEF PlacesApart, Ancestors
  <2>4. CASE p = a.at
    <3>1. a.type # "delete"
      BY <2>2, <2>3, <2>4, WithinItself
    <3> QED
      BY <1>2, <2>1, <2>4, <3>1
  <2>5. CASE p # a.at
    <3>1. p \in disk.repos
      BY <1>3, <1>7, <2>1, <2>5 DEF InPlace
    <3>2. CASE a.type = "clone"
      <4>1. a.at \in WantedPlaces
        BY <1>0, <3>2 DEF PlacedRight
      <4>2. ~Within(a.at, p)
        BY <1>7, <2>5, <4>1 DEF PlacesApart
      <4> QED
        BY <1>2, <3>1, <4>2
    <3>3. CASE a.type # "clone"
      BY <1>0, <1>2, <2>3, <3>1, <3>3 DEF Actions
    <3> QED
      BY <3>2, <3>3
  <2> QED
    BY <2>4, <2>5
<1> QED
  BY <1>6, <1>7 DEF InPlace

LEMMA MirrorStep == PlacesApart /\ TypeInv /\ Kept /\ ListsInv /\ MirrorInv /\ [Next]_vars => MirrorInv'
<1> SUFFICES ASSUME PlacesApart, TypeInv, Kept, ListsInv, MirrorInv, [Next]_vars, ~req'.dry, ~seen'.active
             PROVE  (\A n \in Names("forge") : HasPlan(n)' => Covered(n)') /\ InPlace' /\ Ended'
  BY DEF MirrorInv
<1>0. /\ Tree(disk) /\ ControlInv /\ Observed
      /\ results \in [ok : SUBSET Actions, failed : SUBSET Actions]
      /\ pc \in Early => results.ok = {} /\ results.failed = {}
  BY DEF TypeInv, PlanInv, Kept, Settled
<1> DEFINE Before == ~req.dry /\ ~seen.active
           Goal == (\A n \in Names("forge") : HasPlan(n)' => Covered(n)') /\ InPlace' /\ Ended'
<1>1. ASSUME Before PROVE (\A n \in Names("forge") : HasPlan(n) => Covered(n)) /\ InPlace /\ Ended
  BY <1>1 DEF MirrorInv
<1>2. ASSUME Before, Grown, plan \subseteq plan', UNCHANGED results,
             \A n \in Names("forge") : HasPlan(n)' => HasPlan(n), Ended'
      PROVE  Goal
  BY <1>1, <1>2, GrownKeeps
<1> USE DEF Stay, Goto, Leave, NoSync, Dealt
<1>3. CASE Load
  <2>1. pc' = "load" /\ results' = results
    BY <1>3 DEF Load
  <2> QED
    BY <1>0, <1>3, <2>1 DEF Load, HasPlan, InPlace, Ended, Early, Places
<1>4. CASE Loaded
  <2>1. results' = results /\ pc = "load" /\ pc' \in {"bootstrap", "ready"} /\ (pc' = "ready" => ret'.is # "ok")
    BY <1>4 DEF Loaded, loading
  <2> QED
    BY <1>0, <2>1 DEF HasPlan, InPlace, Ended, Early, Places
<1>5. ASSUME NEW n \in DOMAIN Workspaces, Bootstrap(n) \/ PlanForge(n) \/ PlanGit(n) \/ PlanConfig(n) PROVE Goal
  <2>1. Grown
    <3>1. Workspaces[n].dir \in AllPlaces
      BY DEF AllPlaces
    <3> QED
      BY <1>5, <3>1, PlanningGrows, GrownBy
  <2>2. plan \subseteq plan'
    BY <1>5 DEF Bootstrap, PlanForge, PlanGit, PlanConfig, Deduplicated
  <2>3. /\ results' = results /\ ret' = ret /\ pc \in {"bootstrap", "forge", "git", "config"}
        /\ (pc' = pc /\ todo' = todo \ {n}) \/ (pc' = "done" /\ exit' = 1)
    BY <1>5 DEF Bootstrap, PlanForge, PlanGit, PlanConfig, loading
  <2>4. Before
    BY <1>0, <1>5 DEF Bootstrap, PlanForge, PlanGit, PlanConfig, Observed
  <2>5. Ended'
    BY <2>3 DEF Ended
  <2>6. ASSUME NEW m \in Names("forge"), HasPlan(m)', ~HasPlan(m) PROVE m = n /\ n \in todo /\ pc = "forge" /\ pc' = "forge"
    BY <2>3, <2>6 DEF HasPlan
  <2>7. ASSUME NEW m \in Names("forge"), HasPlan(m)' PROVE Covered(m)'
    <3>1. CASE HasPlan(m)
      BY <1>1, <2>1, <2>2, <2>3, <2>4, <3>1, GrownKeeps
    <3>2. CASE ~HasPlan(m)
      <4>1. m = n /\ pc = "forge" /\ pc' = "forge"
        BY <2>6, <2>7, <3>2
      <4>2. PlanForge(n)
        BY <1>5, <4>1 DEF Bootstrap, PlanGit, PlanConfig
      <4>3. plan' = Deduplicated(plan, ForgePlan(n))
        BY <4>1, <4>2 DEF PlanForge
      <4> QED
        BY <2>1, <2>3, <4>1, <4>3, ForgeCovered DEF Early, Names
    <3> QED
      BY <3>1, <3>2
  <2> QED
    BY <1>1, <2>1, <2>2, <2>3, <2>4, <2>5, <2>7, GrownKeeps
<1>6. CASE NextPhase
  <2>1. /\ Before /\ Grown /\ plan' = plan /\ results' = results /\ ret' = ret
    BY <1>6, GrownNot DEF NextPhase, loading
  <2>2. /\ pc \in {"bootstrap", "forge", "git", "config"} /\ todo = {} /\ pc' \in {"forge", "git", "config", "self"}
        /\ pc = "bootstrap" => pc' = "forge" /\ todo' = Names("forge")
    BY <1>6 DEF NextPhase, Following
  <2>3. \A n \in Names("forge") : HasPlan(n)' => HasPlan(n)
    BY <2>1, <2>2 DEF HasPlan
  <2>4. Ended'
    BY <2>2 DEF Ended
  <2> QED
    BY <1>2, <2>1, <2>3, <2>4
<1>15. CASE SelfSynced
  <2>1. /\ Before /\ Grown /\ plan' = plan /\ results' = results /\ ret' = ret /\ pc = "self" /\ pc' = "ready"
    BY <1>0, <1>15, GrownNot DEF SelfSynced, loading, Observed
  <2>2. \A n \in Names("forge") : HasPlan(n)' => HasPlan(n)
    BY <2>1 DEF HasPlan
  <2>3. Ended'
    BY <2>1 DEF Ended
  <2> QED
    BY <1>2, <2>1, <2>2, <2>3
<1>7. CASE Ready
  <2>1. /\ Before /\ Grown /\ plan' = plan /\ results' = results /\ ret' = ret /\ pc = "ready"
    BY <1>7, GrownNot DEF Ready, loading
  <2>2. (pc' = "done" /\ plan = {}) \/ pc' \in {"ask", "execute"}
    BY <1>7, <2>1 DEF Ready
  <2>3. \A n \in Names("forge") : HasPlan(n)' => HasPlan(n)
    BY <2>1 DEF HasPlan
  <2>4. Ended'
    BY <1>0, <2>1, <2>2 DEF Ended, Early
  <2> QED
    BY <1>2, <2>1, <2>3, <2>4
<1>8. CASE Ask
  <2>1. /\ Before /\ Grown /\ plan' = plan /\ results' = results /\ ret' = ret /\ pc = "ask"
    BY <1>0, <1>8, GrownNot DEF Ask, loading, Observed
  <2>2. pc' = "execute" \/ (pc' = "done" /\ seen'.declined)
    BY <1>0, <1>8 DEF Ask, Observed
  <2>3. \A n \in Names("forge") : HasPlan(n)' => HasPlan(n)
    BY <2>1 DEF HasPlan
  <2>4. Ended'
    BY <1>0, <2>1, <2>2 DEF Ended, Early
  <2> QED
    BY <1>2, <2>1, <2>3, <2>4
<1>9. ASSUME NEW a \in plan, Execute(a) PROVE Goal
  <2>1. /\ Before /\ ret' = ret /\ pc = "execute" /\ pc' = "execute"
    BY <1>0, <1>9 DEF Execute, loading, Observed
  <2>2. \A n \in Names("forge") : HasPlan(n)' => HasPlan(n)
    BY <2>1 DEF HasPlan
  <2>3. Ended'
    BY <2>1 DEF Ended
  <2> QED
    BY <1>1, <1>9, <2>1, <2>2, <2>3, ExecuteKeeps
<1>10. CASE Executed
  <2>1. /\ Before /\ Grown /\ plan' = plan /\ results' = results /\ ret' = ret /\ pc = "execute"
        /\ plan \subseteq Settled
    BY <1>10, GrownNot DEF Executed, loading
  <2>2. pc' = "children" \/ (pc' = "done" /\ exit' = ExitCode)
    BY <1>10 DEF Executed
  <2>3. \A n \in Names("forge") : HasPlan(n)' => HasPlan(n)
    BY <2>1 DEF HasPlan
  <2>4. Ended'
    BY <2>1, <2>2 DEF Ended, ExitCode, Settled
  <2> QED
    BY <1>2, <2>1, <2>3, <2>4
<1>11. CASE RunChild \/ SyncListed \/ CollectChildren \/ ChildrenDone
  <2>1. /\ Before /\ plan' = plan /\ results' = results /\ ret' = ret /\ pc = "children" /\ pc' = "children"
    BY <1>0, <1>11 DEF RunChild, SyncListed, CollectChildren, ChildrenDone, loading, Observed
  <2>2. Grown
    <3>1. CASE SyncListed
      <4>1. kids # <<>> /\ Last(kids) \in Frames /\ Len(kids) \in Nat /\ Len(kids) > 0 /\ Last(kids) = kids[Len(kids)]
        BY <3>1, FrameTypes, AllButLast DEF SyncListed, TypeInv, KidsInv, Last
      <4>2. PICK p \in Last(kids).list : \E o \in Outcomes(disk, Update(p)) : disk' = o.d
        BY <3>1 DEF SyncListed
      <4>3. p \in Lists
        BY <4>1, <4>2 DEF ListsInv
      <4>4. p \in AllPlaces /\ Update(p) \in Actions /\ Update(p).type = "update" /\ Update(p).at = p
        BY <4>3, PlacesArePaths DEF AllPlaces, Update, Action, Actions
      <4>5. disk'.dirs \subseteq disk.dirs \cup Ancestors(p) /\ disk.repos \subseteq disk'.repos
        BY <1>0, <4>2, <4>4, OutcomeDoes
      <4> QED
        BY <4>4, <4>5, GrownBy
    <3>2. CASE RunChild \/ CollectChildren \/ ChildrenDone
      BY <3>2, GrownNot DEF RunChild, CollectChildren, ChildrenDone
    <3> QED
      BY <1>11, <3>1, <3>2
  <2>3. \A n \in Names("forge") : HasPlan(n)' => HasPlan(n)
    BY <2>1 DEF HasPlan
  <2>4. Ended'
    BY <1>1, <2>1 DEF Ended, Settled
  <2> QED
    BY <1>2, <2>1, <2>2, <2>3, <2>4
<1>12. CASE PushSynced
  <2>1. /\ Before /\ Grown /\ plan' = plan /\ results' = results /\ ret' = ret /\ pc = "children" /\ pc' = "done" /\ exit' = ExitCode
    BY <1>0, <1>12, GrownNot DEF PushSynced, loading, Observed
  <2>2. \A n \in Names("forge") : HasPlan(n)' => HasPlan(n)
    BY <2>1 DEF HasPlan
  <2>3. Ended'
    BY <1>1, <2>1 DEF Ended, ExitCode, Settled
  <2> QED
    BY <1>2, <2>1, <2>2, <2>3
<1>13. CASE Developer
  BY <1>0, <1>13 DEF Developer, Observed
<1>14. CASE UNCHANGED vars
  <2>1. /\ Before /\ Grown /\ plan' = plan /\ results' = results
    BY <1>14, GrownNot DEF vars
  <2>2. \A n \in Names("forge") : HasPlan(n)' => HasPlan(n)
    BY <1>14 DEF HasPlan, vars, loading
  <2>3. Ended'
    BY <1>1, <1>14, <2>1 DEF Ended, Settled, vars
  <2> QED
    BY <1>2, <2>1, <2>2, <2>3
<1> QED
  BY <1>3, <1>4, <1>5, <1>6, <1>7, <1>8, <1>9, <1>10, <1>11, <1>12, <1>13, <1>14, <1>15 DEF Next, Command

(* When the command exits with 0 after it has executed its plan, and the   *)
(* developer did nothing, every repository wanted of the forge is in its   *)
(* place, and where cleanup is on and something is wanted there is nothing *)
(* but places of the forge.  Where the cleanup could reach what something  *)
(* else names, as it can in a nested layout with groups, nothing is said.  *)
THEOREM SuccessMeansMirroredHolds == ASSUME PlacesApart PROVE Spec => []SuccessMeansMirrored
<1>1. Spec => []Kept
  BY KeptInit, KeptStep, PTL DEF Spec
<1>2. Spec => []ListsInv
  BY ListsInit, ListsStep, TypeInvariance, PTL DEF Spec
<1>3. PlacesApart /\ TypeInv /\ Kept /\ ListsInv /\ MirrorInv /\ [Next]_vars => MirrorInv'
  BY MirrorStep
<1>4. TypeInv /\ Kept /\ ListsInv /\ MirrorInv /\ [Next]_vars => MirrorInv'
  BY <1>3
<1>5. Spec => []MirrorInv
  BY <1>1, <1>2, <1>4, MirrorInit, TypeInvariance, PTL DEF Spec
<1>6. TypeInv /\ MirrorInv => SuccessMeansMirrored
  <2> SUFFICES ASSUME TypeInv, MirrorInv, pc = "done", exit = 0, ret.is = "ok", ~req.dry, ~seen.declined, ~seen.active,
                      NEW n \in Names("forge")
               PROVE  /\ \A r \in Wanted(n) : Target(Workspaces[n], r) \in disk.repos
                      /\ Workspaces[n].cleanup /\ Wanted(n) # {} => Orphans(n) = {}
    BY DEF SuccessMeansMirrored
  <2>1. Covered(n) /\ InPlace /\ results.failed = {} /\ \A p : HasAction(p) => p \in Places(results.ok)
    BY DEF MirrorInv, HasPlan, HasAction, Ended, Settled, Places
  <2>2. ASSUME NEW r \in Wanted(n) PROVE Target(Workspaces[n], r) \in disk.repos
    BY <2>1 DEF Covered, CoveredWanted, InPlace, WantedPlaces, Names
  <2>3. ASSUME Workspaces[n].cleanup, Wanted(n) # {} PROVE Orphans(n) = {}
    BY <2>1, <2>3, OrphansAre DEF Covered, CoveredOrphans, TypeInv
  <2> QED
    BY <2>2, <2>3
<1> QED
  BY <1>5, <1>6, TypeInvariance, PTL
=============================================================================
