----------------------------- MODULE ConfigLoad -----------------------------
(***************************************************************************)
(* LoadConfigRecursive: a configuration file, the chain of its parents,    *)
(* and the files of the workspaces below it.  The calls in progress are a  *)
(* stack.  The parents of one file share a set of files visited and a      *)
(* depth; every workspace starts with new ones.  A setting stands for all  *)
(* that a child inherits from its parent unless it sets it itself.         *)
(***************************************************************************)
EXTENDS Integers, Sequences, FiniteSets

CONSTANTS
  Files,            \* directory -> state of its file, parent, config workspaces, setting
  RootDirs,         \* directories whose file is loaded
  Nowhere, Unset,   \* no parent; no setting
  MaxConfigDepth

ASSUME ConfigAssumption ==
  /\ IsFiniteSet(DOMAIN Files)
  /\ RootDirs \subseteq DOMAIN Files /\ Nowhere \notin DOMAIN Files /\ MaxConfigDepth \in Nat
  /\ \A d \in DOMAIN Files :
       /\ Files[d].state \in {"there", "missing", "broken"}
       /\ Files[d].parent \in DOMAIN Files \cup {Nowhere} /\ Files[d].workspaces \subseteq DOMAIN Files

VARIABLES
  start,   \* the directory of the file asked for
  stack,   \* calls in progress, the last on top
  ret      \* what the last call returned

loading == <<start, stack, ret>>

Nothing == [is |-> "none", value |-> Unset]

Call(d, visited, follow, depth) ==
  [dir |-> d, visited |-> visited, follow |-> follow, depth |-> depth, at |-> "open", value |-> Unset,
   todo |-> {}]

(* LoadConfigRecursive.                                                    *)
Fresh(d) == Call(d, {}, TRUE, 0)

LoadInit == start \in RootDirs /\ stack = <<Fresh(start)>> /\ ret = Nothing

-----------------------------------------------------------------------------
Top == stack[Len(stack)]
Below == SubSeq(stack, 1, Len(stack) - 1)
InCall(place) == stack # <<>> /\ Top.at = place

Return(outcome, value) == stack' = Below /\ ret' = [is |-> outcome, value |-> value]
Push(frame, call) == stack' = Append(Append(Below, frame), call) /\ ret' = Nothing
Continue(frame) == stack' = Append(Below, frame) /\ ret' = Nothing

Circular(frame) == frame.dir \in frame.visited

Rejected(frame) == frame.depth > MaxConfigDepth \/ Circular(frame) \/ Files[frame.dir].state = "broken"

Opened(frame) == [frame EXCEPT !.visited = @ \cup {frame.dir}, !.value = Files[frame.dir].setting, !.at = "parent"]

OpenFile ==
  /\ InCall("open") /\ ret = Nothing
  /\ IF Rejected(Top) THEN Return("error", Unset)
     ELSE IF Files[Top.dir].state = "missing" THEN Return("absent", Unset)
     ELSE LET up == Files[Top.dir].parent
              frame == Opened(Top)
          IN  IF up = Nowhere THEN Continue([frame EXCEPT !.at = "children"])
              ELSE Push(frame, Call(up, frame.visited, FALSE, frame.depth + 1))

(* Mutant: the parent's setting wins.                                      *)
MergeParentFirst(child, parent) == IF parent = Unset THEN child ELSE parent

(* mergeParentConfig, for a setting.                                       *)
MergeParent(child, parent) == IF child = Unset THEN parent ELSE child

(* A parent that is not there is wrapped as it is: for the caller of the   *)
(* child it reads like a child that is not there.                          *)
ParentLoaded ==
  /\ InCall("parent") /\ ret # Nothing
  /\ IF ret.is # "ok" THEN Return(ret.is, Unset)
     ELSE Continue([Top EXCEPT !.value = MergeParent(@, ret.value), !.at = "children"])

(* The workspaces are a map: any order.                                    *)
EnterWorkspaces ==
  /\ InCall("children") /\ ret = Nothing
  /\ IF Top.follow THEN Continue([Top EXCEPT !.at = "next", !.todo = Files[Top.dir].workspaces])
                   ELSE Return("ok", Top.value)

LoadWorkspace ==
  /\ InCall("next") /\ ret = Nothing
  /\ \E d \in Top.todo : Push([Top EXCEPT !.todo = @ \ {d}, !.at = "workspace"], Fresh(d))

WorkspaceLoaded ==
  /\ InCall("workspace") /\ ret # Nothing
  /\ IF ret.is = "error" THEN Return("error", Unset) ELSE Continue([Top EXCEPT !.at = "next"])

AllLoaded == InCall("next") /\ ret = Nothing /\ Top.todo = {} /\ Return("ok", Top.value)

LoadStep ==
  /\ OpenFile \/ ParentLoaded \/ EnterWorkspaces \/ LoadWorkspace \/ WorkspaceLoaded \/ AllLoaded
  /\ UNCHANGED start

LoadSpec == LoadInit /\ [][LoadStep]_loading

-----------------------------------------------------------------------------
(* Properties.                                                             *)

Up(d) == Files[d].parent

(* The files going up from d, the last of them without a parent.           *)
GoesUp(chain, top, d) ==
  /\ chain[0] = d /\ Up(chain[top]) = Nowhere
  /\ \A n \in 1..top : chain[n] = Up(chain[n - 1])
  /\ \A n \in 0..top : Files[chain[n]].state = "there"

(* A setting is the one set nearest to the start of the chain.             *)
Nearest(chain, top, value) ==
  LET set(n) == Files[chain[n]].setting
  IN  \/ value = Unset /\ \A n \in 0..top : set(n) = Unset
      \/ value # Unset /\ \E n \in 0..top : value = set(n) /\ \A m \in 0..n - 1 : set(m) = Unset

(* When the load succeeds, every file going up from the one asked for is   *)
(* there, the last of them has no parent, and the setting it ends with is  *)
(* the one set nearest to it ("child overrides parent").                   *)
LoadedMeansResolved ==
  stack = <<>> /\ ret.is = "ok" =>
    \E top \in 0..Cardinality(DOMAIN Files) - 1 : \E chain \in [0..top -> DOMAIN Files] :
      GoesUp(chain, top, start) /\ Nearest(chain, top, ret.value)
=============================================================================
