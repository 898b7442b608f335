---------------------------- MODULE BulkOpsProofs ----------------------------
(***************************************************************************)
(* Theorems about BulkOps, for any number of working trees, linked or not, *)
(* commands in a row and actions of the developer: no command takes a      *)
(* branch, a commit of one or a tag away, a rebase that was there is not   *)
(* left, exit code 0 leaves no tree half way, and no work is lost.         *)
(***************************************************************************)
EXTENDS BulkOps, SequenceTheorems, TLAPS

Pieces == Trees \X {"tracked", "new"}
Places == {"look", "act", "state", "probe", "drop", "done"}

Typed ==
  /\ head \in [Trees -> Branches] /\ edits \in [Trees -> SUBSET Pieces]
  /\ op \in [Trees -> {"none", "rebase", "left"}]
  /\ pc \in [Trees -> Places] /\ DOMAIN result = Trees
  /\ local \subseteq Branches /\ tip \in [Branches -> SUBSET Commits]
  /\ stash \in Seq(SUBSET Pieces) /\ made \subseteq Pieces
  /\ early \subseteq Trees /\ halted \subseteq Trees
  /\ main \in {"idle", "ask", "run", "agreed"}

Handlers == \E t \in Trees : Handler(t)

LEMMA TypedInit == Init => Typed
<1> SUFFICES ASSUME Init PROVE Typed
  OBVIOUS
<1> USE BulkOpsAssumption DEF Init, AtAll, Homes
<1>1. head \in [Trees -> Branches] /\ edits \in [Trees -> SUBSET Pieces] /\ op \in [Trees -> {"none", "rebase", "left"}]
  OBVIOUS
<1>2. pc \in [Trees -> Places]
  BY DEF Places
<1>6. DOMAIN result = Trees
  OBVIOUS
<1>3. local \subseteq Branches
  OBVIOUS
<1>4. tip \in [Branches -> SUBSET Commits]
  BY DEF Mine, Commits
<1>5. stash \in Seq(SUBSET Pieces) /\ made \subseteq Pieces /\ early \subseteq Trees /\ halted \subseteq Trees
      /\ main \in {"idle", "ask", "run", "agreed"}
  OBVIOUS
<1> QED
  BY <1>1, <1>2, <1>6, <1>3, <1>4, <1>5 DEF Typed

LEMMA LeaveType ==
  ASSUME Typed, NEW t \in Trees, NEW status, Leave(t, status)
  PROVE  pc' \in [Trees -> Places] /\ DOMAIN result' = Trees
  BY DEF Typed, Leave, Places

LEMMA GotoType ==
  ASSUME Typed, NEW t \in Trees, NEW place \in Places, Goto(t, place)
  PROVE  pc' \in [Trees -> Places] /\ DOMAIN result' = Trees
  BY DEF Typed, Goto

LEMMA UnlessType ==
  ASSUME Typed, NEW t \in Trees, NEW dry, NEW place \in Places, Unless(t, dry, place)
  PROVE  pc' \in [Trees -> Places] /\ DOMAIN result' = Trees
  BY LeaveType, GotoType DEF Unless

LEMMA StashType ==
  ASSUME NEW S, NEW s \in Seq(S)
  PROVE  /\ \A e \in S : Append(s, e) \in Seq(S)
         /\ s # <<>> => Front(s) \in Seq(S) /\ Last(s) \in S
  BY DEF Front, Last

(* What a handler's step keeps of the caller, and what of the tree.        *)
HandlerTypes ==
  /\ head' \in [Trees -> Branches] /\ edits' \in [Trees -> SUBSET Pieces]
  /\ op' \in [Trees -> {"none", "rebase", "left"}]
  /\ pc' \in [Trees -> Places] /\ DOMAIN result' = Trees
  /\ local' \subseteq Branches /\ tip' \in [Branches -> SUBSET Commits]
  /\ stash' \in Seq(SUBSET Pieces) /\ halted' \subseteq Trees

LEMMA LookTypes ==
  ASSUME Typed, NEW t \in Trees,
         UpdateLook(t) \/ SwitchLook(t) \/ SwitchState(t) \/ SwitchProbe(t) \/ SaveLook(t) \/ PopLook(t) \/ TagProbe(t)
  PROVE  HandlerTypes
<1> SUFFICES Reads /\ pc' \in [Trees -> Places] /\ DOMAIN result' = Trees
  BY DEF Typed, HandlerTypes, Reads, repo, refs
<1> USE LeaveType, GotoType, UnlessType
<1>0. "look" \in Places /\ "act" \in Places /\ "state" \in Places /\ "probe" \in Places
  BY DEF Places
<1>1. CASE UpdateLook(t)
  BY <1>0, <1>1 DEF UpdateLook
<1>2. CASE SwitchLook(t)
  BY <1>0, <1>2 DEF SwitchLook
<1>3. CASE SwitchState(t)
  BY <1>0, <1>3 DEF SwitchState, SwitchStateIf
<1>4. CASE SwitchProbe(t)
  BY <1>0, <1>4 DEF SwitchProbe, Typed
<1>5. CASE SaveLook(t)
  BY <1>0, <1>5 DEF SaveLook
<1>6. CASE PopLook(t)
  BY <1>0, <1>6 DEF PopLook
<1>7. CASE TagProbe(t)
  BY <1>0, <1>7 DEF TagProbe
<1> QED
  BY <1>1, <1>2, <1>3, <1>4, <1>5, <1>6, <1>7

LEMMA SwitchTypes == ASSUME Typed, NEW t \in Trees, Switch(t) PROVE HandlerTypes
<1> USE BulkOpsAssumption DEF Switch, SwitchWhere, Checkout, HeadMoves, NewBranch
<1>1. pc' \in [Trees -> Places] /\ DOMAIN result' = Trees
  BY LeaveType
<1>2. head' \in [Trees -> Branches] /\ op' \in [Trees -> {"none", "rebase", "left"}]
  BY DEF Typed
<1>3. edits' \in [Trees -> SUBSET Pieces]
  BY DEF Typed
<1>4. {Theirs(Target)} \in SUBSET Commits /\ tip[head[t]] \in SUBSET Commits
  BY DEF Typed, Theirs, Commits
<1>5. \/ UNCHANGED <<local, tip>>
      \/ \E commits \in SUBSET Commits : local' = local \cup {Target} /\ tip' = [tip EXCEPT ![Target] = commits]
  BY <1>4
<1>6. UNCHANGED <<stash, halted>>
  OBVIOUS
<1> HIDE DEF Switch, SwitchWhere
<1>7. local' \subseteq Branches /\ tip' \in [Branches -> SUBSET Commits]
  BY <1>5 DEF Typed
<1> QED
  BY <1>1, <1>2, <1>3, <1>6, <1>7 DEF Typed, HandlerTypes

LEMMA WorkTypes == ASSUME Typed, NEW t \in Trees, Update(t) \/ TagCreate(t) \/ Clean(t) PROVE HandlerTypes
<1>1. CASE Update(t)
  <2>1. pc' \in [Trees -> Places] /\ DOMAIN result' = Trees
    BY <1>1, LeaveType DEF Update, UpdateOr
  <2>2. op' \in [Trees -> {"none", "rebase", "left"}] /\ halted' \subseteq Trees
    BY <1>1 DEF Update, UpdateOr, Typed, Halt
  <2>3. tip' \in [Branches -> SUBSET Commits]
    BY <1>1 DEF Update, UpdateOr, Typed, Theirs, Commits
  <2> QED
    BY <1>1, <2>1, <2>2, <2>3 DEF Update, UpdateOr, Typed, HandlerTypes
<1>2. CASE TagCreate(t)
  <2>1. pc' \in [Trees -> Places] /\ DOMAIN result' = Trees
    BY <1>2, LeaveType DEF TagCreate, TagIf
  <2> QED
    BY <1>2, <2>1 DEF TagCreate, TagIf, Typed, HandlerTypes
<1>3. CASE Clean(t)
  <2>1. pc' \in [Trees -> Places] /\ DOMAIN result' = Trees
    BY <1>3, LeaveType DEF Clean
  <2>2. edits' \in [Trees -> SUBSET Pieces]
    BY <1>3 DEF Clean, Typed
  <2> QED
    BY <1>3, <2>1, <2>2 DEF Clean, Typed, HandlerTypes, refs
<1> QED
  BY <1>1, <1>2, <1>3

LEMMA StashTypes == ASSUME Typed, NEW t \in Trees, Save(t) \/ Apply(t) \/ Drop(t) PROVE HandlerTypes
<1>0. /\ \A e \in SUBSET Pieces : Append(stash, e) \in Seq(SUBSET Pieces)
      /\ stash # <<>> => Front(stash) \in Seq(SUBSET Pieces) /\ Last(stash) \in SUBSET Pieces
  BY StashType DEF Typed
<1>1. CASE Save(t)
  <2>1. pc' \in [Trees -> Places] /\ DOMAIN result' = Trees
    BY <1>1, LeaveType DEF Save
  <2>2. Taken(t) \in SUBSET Pieces
    BY DEF Taken, Tracked, Typed
  <2>3. stash' \in Seq(SUBSET Pieces)
    BY <1>0, <1>1, <2>2 DEF Save, Typed
  <2>4. edits' \in [Trees -> SUBSET Pieces] /\ halted' \subseteq Trees
    BY <1>1 DEF Save, Typed, Halt
  <2> QED
    BY <1>1, <2>1, <2>3, <2>4 DEF Save, Typed, HandlerTypes, refs
<1>2. CASE Apply(t)
  <2>1. pc' \in [Trees -> Places] /\ DOMAIN result' = Trees
    BY <1>2, LeaveType, GotoType DEF Apply, ApplyOr, Places
  <2>2. edits' \in [Trees -> SUBSET Pieces] /\ halted' \subseteq Trees
    BY <1>0, <1>2 DEF Apply, ApplyOr, Typed, Halt
  <2> QED
    BY <1>2, <2>1, <2>2 DEF Apply, ApplyOr, Typed, HandlerTypes, refs
<1>3. CASE Drop(t)
  <2>1. pc' \in [Trees -> Places] /\ DOMAIN result' = Trees
    BY <1>3, LeaveType DEF Drop
  <2> QED
    BY <1>0, <1>3, <2>1 DEF Drop, Typed, HandlerTypes, refs
<1> QED
  BY <1>1, <1>2, <1>3

LEMMA HandlerKeepsTypes == ASSUME Typed, NEW t \in Trees, Handler(t) PROVE HandlerTypes
  BY LookTypes, SwitchTypes, WorkTypes, StashTypes DEF Handler

LEMMA HandlerIsAt == ASSUME NEW t \in Trees, Handler(t) PROVE Running /\ UNCHANGED <<origin, caller, devSteps, made, early>>
  BY DEF Handler, UpdateLook, Update, UpdateOr, SwitchLook, SwitchState, SwitchStateIf, SwitchProbe, Switch, SwitchWhere,
         SaveLook, Save, PopLook, Apply, ApplyOr, Drop, TagProbe, TagCreate, TagIf, Clean, At

LEMMA DeveloperTypes == Typed /\ Developer => Typed'
<1> SUFFICES ASSUME Typed, Developer PROVE Typed'
  OBVIOUS
<1>0. UNCHANGED <<stash, head, pc, result, early, halted, main>>
  BY DEF Developer, handler, caller
<1>1. CASE DevRefs
  <2>1. local' \subseteq Branches /\ tip' \in [Branches -> SUBSET Commits]
    BY <1>1, BulkOpsAssumption DEF DevRefs, Typed, Mine, Commits
  <2> QED
    BY <1>0, <1>1, <2>1 DEF DevRefs, Typed
<1>2. ASSUME NEW t \in Trees, DevEdits(t) PROVE Typed'
  <2>1. edits' \in [Trees -> SUBSET Pieces] /\ made' \subseteq Pieces
    BY <1>2 DEF DevEdits, Typed, Pieces
  <2> QED
    BY <1>0, <1>2, <2>1 DEF DevEdits, Typed, refs
<1>3. ASSUME NEW t \in Trees, DevRebases(t) \/ DevResolves(t) PROVE Typed'
  <2>1. op' \in [Trees -> {"none", "rebase", "left"}]
    BY <1>3 DEF DevRebases, DevResolves, Typed
  <2> QED
    BY <1>0, <1>3, <2>1 DEF DevRebases, DevResolves, Typed, refs
<1> QED
  BY <1>1, <1>2, <1>3 DEF Developer

LEMMA CallerTypes == Typed /\ (Begin \/ Ask \/ Finish) => Typed'
<1> SUFFICES ASSUME Typed, Begin \/ Ask \/ Finish PROVE Typed'
  OBVIOUS
<1>1. CASE Begin
  <2>1. pc' \in [Trees -> Places] /\ DOMAIN result' = Trees
    BY <1>1 DEF Begin, AtAll, Places
  <2> QED
    BY <1>1, <2>1 DEF Begin, Typed, repo, refs
<1>2. CASE Ask
  <2>1. pc' \in [Trees -> Places]
    BY <1>2 DEF Ask, AtAll, Places, Typed
  <2> QED
    BY <1>2, <2>1 DEF Ask, Typed, repo, refs, observed
<1>3. CASE Finish
  BY <1>3 DEF Finish, Typed, repo, refs, observed, handler
<1> QED
  BY <1>1, <1>2, <1>3

LEMMA TypedStep == Typed /\ [Next]_vars => Typed'
<1> SUFFICES ASSUME Typed, [Next]_vars PROVE Typed'
  OBVIOUS
<1>1. ASSUME NEW t \in Trees, Handler(t) PROVE Typed'
  BY <1>1, HandlerKeepsTypes, HandlerIsAt DEF HandlerTypes, Typed, caller
<1>2. CASE UNCHANGED vars
  BY <1>2 DEF vars, repo, refs, caller, handler, observed, Typed
<1> QED
  BY <1>1, <1>2, DeveloperTypes, CallerTypes DEF Next, Done

-----------------------------------------------------------------------------
(* What no command takes away.                                             *)

RefsKept ==
  /\ \A b \in local : b \in local' /\ tip[b] \subseteq tip'[b]
  /\ tag # None /\ ~cmd.force => tag' = tag

LEMMA RefsStep == Typed /\ [Next]_vars => RefsKept
<1> SUFFICES ASSUME Typed, [Next]_vars PROVE RefsKept
  OBVIOUS
<1>0. UNCHANGED refs => RefsKept
  BY DEF refs, RefsKept
<1>1. CASE Developer
  <2>1. CASE DevRefs
    BY <2>1, BulkOpsAssumption DEF DevRefs, RefsKept, Typed
  <2> QED
    BY <1>0, <1>1, <2>1 DEF Developer, DevEdits, DevRebases, DevResolves
<1>2. CASE Begin \/ Ask \/ Finish \/ UNCHANGED vars
  BY <1>0, <1>2 DEF Begin, Ask, Finish, vars, repo
<1>3. ASSUME NEW t \in Trees, Update(t) PROVE RefsKept
  <2>1. head[t] \in Branches
    BY DEF Typed
  <2> QED
    BY <1>3, <2>1 DEF Update, UpdateOr, RefsKept, Typed
<1>4. ASSUME NEW t \in Trees, Switch(t) PROVE RefsKept
  <2>1. tag' = tag
    BY <1>4 DEF Switch, SwitchWhere
  <2>2. ASSUME NEW b \in local PROVE b \in local' /\ tip[b] \subseteq tip'[b]
    BY <1>4, <2>2, BulkOpsAssumption DEF Switch, SwitchWhere, NewBranch, Typed
  <2> QED
    BY <2>1, <2>2 DEF RefsKept
<1>5. ASSUME NEW t \in Trees, TagCreate(t) PROVE RefsKept
  BY <1>5 DEF TagCreate, TagIf, RefsKept
<1>6. ASSUME NEW t \in Trees, Handler(t), ~Update(t), ~Switch(t), ~TagCreate(t) PROVE UNCHANGED refs
  BY <1>6 DEF Handler, UpdateLook, SwitchLook, SwitchState, SwitchStateIf, SwitchProbe, SaveLook, Save, PopLook, Apply, ApplyOr, Drop,
             TagProbe, Clean, Reads, repo
<1> QED
  BY <1>0, <1>1, <1>2, <1>3, <1>4, <1>5, <1>6 DEF Next, Done

-----------------------------------------------------------------------------
(* A rebase that was there, and a tree left half way.                      *)

LeftWith(t) == result[t] = "error" \/ (cmd.op = "update" /\ result[t] = "auth-required")

LEMMA HandlerLocal ==
  ASSUME Typed, NEW t \in Trees, Handler(t)
  PROVE  /\ pc[t] # "done" /\ \A u \in Trees \ {t} : pc'[u] = pc[u] /\ result'[u] = result[u]
         /\ halted' = halted \/ (halted' = halted \cup {t} /\ pc'[t] = "done" /\ LeftWith(t)')
<1> USE DEF At, Leave, Goto, Unless, Typed
<1>1. CASE UpdateLook(t) \/ SwitchLook(t) \/ SwitchState(t) \/ SwitchProbe(t)
  BY <1>1 DEF UpdateLook, SwitchLook, SwitchState, SwitchStateIf, SwitchProbe, Reads
<1>2. CASE SaveLook(t) \/ PopLook(t) \/ TagProbe(t)
  BY <1>2 DEF SaveLook, PopLook, TagProbe, Reads
<1>3. CASE Update(t)
  BY <1>3 DEF Update, UpdateOr, Halt, LeftWith, caller
<1>4. CASE Switch(t) \/ TagCreate(t) \/ Clean(t) \/ Drop(t)
  BY <1>4 DEF Switch, SwitchWhere, TagCreate, TagIf, Clean, Drop
<1>5. CASE Save(t) \/ Apply(t)
  BY <1>5 DEF Save, Apply, ApplyOr, Halt, LeftWith
<1> QED
  BY <1>1, <1>2, <1>3, <1>4, <1>5 DEF Handler

(* The switch of a tree that was in a rebase ends at checkRepositoryState. *)
LeftAlone ==
  \A t \in early \ Linked : op[t] # "none" /\ (cmd.op = "switch" => pc[t] \notin {"probe", "act"})

LEMMA RebaseEndsNowhere == Typed /\ [Next]_vars => \A t \in Trees : op[t] # "none" => op'[t] # "none"
<1> SUFFICES ASSUME Typed, [Next]_vars, NEW t \in Trees, op[t] # "none" PROVE op'[t] # "none"
  OBVIOUS
<1>1. CASE Developer
  BY <1>1 DEF Developer, DevRefs, DevEdits, DevRebases, DevResolves, Typed
<1>2. CASE Begin \/ Ask \/ Finish \/ UNCHANGED vars
  BY <1>2 DEF Begin, Ask, Finish, vars, repo
<1>3. ASSUME NEW u \in Trees, Update(u) PROVE op'[t] # "none"
  BY <1>3 DEF Update, UpdateOr, Typed
<1>4. ASSUME NEW u \in Trees, Switch(u) PROVE op'[t] # "none"
  BY <1>4 DEF Switch, SwitchWhere, Checkout, HeadMoves, Typed
<1>5. ASSUME NEW u \in Trees, Handler(u), ~Update(u), ~Switch(u) PROVE op' = op
  BY <1>5 DEF Handler, UpdateLook, SwitchLook, SwitchState, SwitchStateIf, SwitchProbe, SaveLook, Save, PopLook, Apply, ApplyOr, Drop,
             TagProbe, TagCreate, TagIf, Clean, Reads, repo
<1> QED
  BY <1>1, <1>2, <1>3, <1>4, <1>5 DEF Next, Done

LEMMA LeftAloneStep == Typed /\ LeftAlone /\ [Next]_vars => LeftAlone'
<1> SUFFICES ASSUME Typed, LeftAlone, [Next]_vars PROVE LeftAlone'
  OBVIOUS
<1>1. CASE Begin
  BY <1>1, RebaseEndsNowhere DEF Begin, AtAll, LeftAlone, repo, Typed
<1>2. CASE Ask \/ Finish \/ UNCHANGED vars
  BY <1>2 DEF Ask, Finish, vars, repo, observed, handler, caller, LeftAlone, AtAll, Typed
<1>3. CASE Developer
  BY <1>3, RebaseEndsNowhere DEF Developer, caller, handler, LeftAlone, Typed
<1>4. ASSUME NEW t \in Trees, Handler(t) PROVE LeftAlone'
  <2> SUFFICES ASSUME NEW u \in early \ Linked
               PROVE  op'[u] # "none" /\ (cmd.op = "switch" => pc'[u] \notin {"probe", "act"})
    BY <1>4, HandlerIsAt DEF LeftAlone, caller
  <2>1. u \in Trees /\ op[u] # "none" /\ op'[u] # "none"
    BY RebaseEndsNowhere DEF LeftAlone, Typed
  <2>2. CASE u # t
    BY <1>4, <2>1, <2>2, HandlerLocal DEF LeftAlone
  <2>3. CASE u = t /\ cmd.op = "switch"
    <3>1. SwitchLook(t) \/ SwitchState(t)
      BY <1>4, <2>3 DEF LeftAlone, Handler, UpdateLook, Update, UpdateOr, SwitchProbe, Switch, SwitchWhere, SaveLook, Save, PopLook,
                        Apply, ApplyOr, Drop, TagProbe, TagCreate, TagIf, Clean, At
    <3>2. CASE SwitchLook(t)
      BY <2>1, <2>3, <3>2 DEF SwitchLook, Leave, Goto, Typed
    <3>3. CASE SwitchState(t)
      BY <2>1, <2>3, <3>3 DEF SwitchState, SwitchStateIf, RebaseSeen, Leave, Typed
    <3> QED
      BY <2>1, <3>1, <3>2, <3>3
  <2> QED
    BY <2>1, <2>2, <2>3
<1> QED
  BY <1>1, <1>2, <1>3, <1>4 DEF Next, Done

LEMMA RebaseStep == Typed /\ LeftAlone /\ [Next]_vars => \A t \in early \ Linked : head'[t] = head[t]
<1> SUFFICES ASSUME Typed, LeftAlone, [Next]_vars, NEW t \in early \ Linked PROVE head'[t] = head[t]
  OBVIOUS
<1>1. ASSUME NEW u \in Trees, Switch(u) PROVE head'[t] = head[t]
  <2>1. u # t
    BY <1>1 DEF LeftAlone, Switch, SwitchWhere, At
  <2> QED
    BY <1>1, <2>1 DEF Switch, SwitchWhere, Checkout, HeadMoves, Typed
<1>2. ASSUME NEW u \in Trees, Handler(u), ~Switch(u) PROVE head' = head
  BY <1>2 DEF Handler, UpdateLook, Update, UpdateOr, SwitchLook, SwitchState, SwitchStateIf, SwitchProbe, SaveLook, Save, PopLook, Apply, ApplyOr, Drop,
             TagProbe, TagCreate, TagIf, Clean, Reads, repo
<1>3. CASE Developer \/ Begin \/ Ask \/ Finish \/ UNCHANGED vars
  BY <1>3 DEF Developer, Begin, Ask, Finish, vars, repo
<1> QED
  BY <1>1, <1>2, <1>3 DEF Next, Done

(* A handler that leaves its tree half way ends there, with an error or as *)
(* a pull that wrote of authentication.                                    *)
Reported ==
  /\ \A t \in halted : pc[t] = "done" /\ LeftWith(t)
  /\ main # "idle" => exit = -1
  /\ main = "ask" => halted = {}
  /\ HalfWayIsReported

LEMMA ReportedStep == Typed /\ Reported /\ [Next]_vars => Reported'
<1> SUFFICES ASSUME Typed, Reported, [Next]_vars PROVE Reported'
  OBVIOUS
<1> USE DEF Reported, HalfWayIsReported, LeftWith
<1>1. CASE Begin
  BY <1>1 DEF Begin
<1>2. CASE Ask
  BY <1>2 DEF Ask, AtAll, observed
<1>3. CASE Finish
  BY <1>3 DEF Finish, ExitCode, Running, observed, handler, Typed
<1>4. CASE Developer \/ UNCHANGED vars
  BY <1>4 DEF Developer, vars, caller, handler, observed
<1>5. ASSUME NEW t \in Trees, Handler(t) PROVE Reported'
  <2>1. main' = main /\ exit' = exit /\ main \in {"run", "agreed"}
    BY <1>5, HandlerIsAt DEF caller, Running
  <2>2. \A u \in halted' : pc'[u] = "done" /\ LeftWith(u)'
    <3>1. cmd' = cmd
      BY <1>5, HandlerIsAt DEF caller
    <3> QED
      BY <1>5, <3>1, HandlerLocal DEF Typed
  <2> QED
    BY <2>1, <2>2
<1> QED
  BY <1>1, <1>2, <1>3, <1>4, <1>5 DEF Next, Done

-----------------------------------------------------------------------------
(* Where the work is.  While a pop is between its halves no other is, and  *)
(* the entry it drops is the one its tree was given.                       *)

Somewhere(p) == InStash(p) \/ \E t \in Trees : p \in edits[t]

DropsItsOwn ==
  \A t \in Trees : pc[t] = "drop" =>
    stash # <<>> /\ Last(stash) \subseteq edits[t] /\ \A u \in Trees \ {t} : pc[u] # "drop"

Safe ==
  /\ ~raced => DropsItsOwn /\ \A p \in made \ forgone : Somewhere(p)
  /\ (\E t \in Trees : pc[t] = "drop") => cmd.op = "pop"
  /\ main = "run" /\ cmd.op = "clean" => cmd.dryRun

LEMMA StashFacts ==
  ASSUME NEW s \in Seq(SUBSET Pieces), NEW p
  PROVE  /\ \A e \in SUBSET Pieces : (\E k \in DOMAIN s : p \in s[k]) \/ p \in e => \E k \in DOMAIN Append(s, e) : p \in Append(s, e)[k]
         /\ s # <<>> => \A k \in DOMAIN s : p \in s[k] => p \in Last(s) \/ \E j \in DOMAIN Front(s) : p \in Front(s)[j]
<1>1. ASSUME NEW e \in SUBSET Pieces, (\E k \in DOMAIN s : p \in s[k]) \/ p \in e
      PROVE  \E k \in DOMAIN Append(s, e) : p \in Append(s, e)[k]
  <2>1. CASE p \in e
    <3> WITNESS Len(s) + 1 \in DOMAIN Append(s, e)
    <3> QED
      BY <2>1
  <2>2. CASE \E k \in DOMAIN s : p \in s[k]
    <3>1. PICK k \in DOMAIN s : p \in s[k]
      BY <2>2
    <3> WITNESS k \in DOMAIN Append(s, e)
    <3> QED
      BY <3>1
  <2> QED
    BY <1>1, <2>1, <2>2
<1>2. ASSUME s # <<>>, NEW k \in DOMAIN s, p \in s[k], p \notin Last(s)
      PROVE  \E j \in DOMAIN Front(s) : p \in Front(s)[j]
  <2>1. k \in 1 .. Len(s) - 1
    BY <1>2 DEF Last
  <2>2. k \in DOMAIN Front(s) /\ Front(s)[k] = s[k]
    BY <2>1 DEF Front
  <2> QED
    BY <1>2, <2>2
<1> QED
  BY <1>1, <1>2

(* Steps that leave the stash alone, take nothing out of a tree and start  *)
(* no second half of a pop.                                                *)
LEMMA SafeWhenKept ==
  ASSUME Typed, Safe, stash' = stash, \A t \in Trees : edits[t] \subseteq edits'[t], raced => raced',
         \A t \in Trees : pc'[t] = "drop" => pc[t] = "drop",
         \A p \in made' \ forgone' : p \in made \ forgone \/ \E t \in Trees : p \in edits'[t],
         cmd' = cmd, main' = main
  PROVE  Safe'
<1>1. \A p : Somewhere(p) => Somewhere(p)'
  BY DEF Somewhere, InStash
<1>2. ~raced' => DropsItsOwn'
  BY DEF Safe, DropsItsOwn
<1>3. ~raced' => \A p \in made' \ forgone' : Somewhere(p)'
  BY <1>1 DEF Safe, Somewhere
<1> QED
  BY <1>2, <1>3 DEF Safe

LEMMA SafeSave == ASSUME Typed, Safe, NEW t \in Trees, Save(t) PROVE Safe'
<1>0. /\ cmd' = cmd /\ main' = main /\ cmd.op = "save" /\ raced' = raced /\ made' = made /\ forgone' = forgone
      /\ Taken(t) \in SUBSET Pieces /\ Taken(t) \subseteq edits[t]
  BY DEF Save, At, caller, Taken, Tracked, Typed
<1>1. \A u \in Trees : pc[u] # "drop" /\ pc'[u] # "drop"
  BY <1>0 DEF Safe, Save, Leave, Typed
<1>2. ASSUME NEW p, Somewhere(p) PROVE Somewhere(p)'
  <2>1. CASE stash' = stash /\ edits' = edits
    BY <1>2, <2>1 DEF Somewhere, InStash
  <2>2. CASE stash' = Append(stash, Taken(t)) /\ \A u \in Trees : edits[u] \subseteq edits'[u] \cup Taken(t)
    <3>1. InStash(p) \/ p \in Taken(t) => InStash(p)'
      BY <1>0, <2>2, StashFacts DEF InStash, Typed
    <3> QED
      BY <1>2, <2>2, <3>1 DEF Somewhere
  <2>3. CASE stash' = stash /\ Taken(t) = {} /\ edits' = [edits EXCEPT ![t] = @ \ Taken(t)]
    BY <1>2, <2>3 DEF Somewhere, InStash, Typed
  <2> QED
    BY <2>1, <2>2, <2>3 DEF Save, Typed
<1> QED
  BY <1>0, <1>1, <1>2 DEF Safe, DropsItsOwn

LEMMA SafeApply == ASSUME Typed, Safe, NEW t \in Trees, Apply(t) PROVE Safe'
<1>0. /\ cmd' = cmd /\ main' = main /\ cmd.op \in {"pop", "apply"} /\ pc[t] = "act"
      /\ stash' = stash /\ made' = made /\ forgone' = forgone
  BY DEF Apply, ApplyOr, At, caller
<1>1. CASE Leave(t, "error") /\ UNCHANGED <<edits, raced>>
  BY <1>0, <1>1, SafeWhenKept DEF Leave, Typed
<1>2. CASE /\ stash # <<>> /\ edits' = [edits EXCEPT ![t] = @ \cup Last(stash)]
           /\ raced' = (raced \/ \E u \in Trees \ {t} : pc[u] = "drop")
           /\ IF cmd.op = "pop" THEN Goto(t, "drop") ELSE Leave(t, "popped")
  <2>1. \A p : Somewhere(p) => Somewhere(p)'
    BY <1>0, <1>2 DEF Somewhere, InStash, Typed
  <2>2. Last(stash) \subseteq edits'[t] /\ \A u \in Trees \ {t} : pc'[u] = pc[u]
    BY <1>2 DEF Typed, Goto, Leave
  <2>3. ~raced' => DropsItsOwn'
    BY <1>0, <1>2, <2>2 DEF DropsItsOwn
  <2>4. (\E u \in Trees : pc'[u] = "drop") => cmd.op = "pop"
    BY <1>2, <2>2 DEF Safe, Leave, Typed
  <2> QED
    BY <1>0, <1>2, <2>1, <2>3, <2>4 DEF Safe
<1>3. CASE /\ edits' = [edits EXCEPT ![t] = @ \cup Last(stash)] /\ Leave(t, "error")
           /\ raced' = (raced \/ \E u \in Trees \ {t} : pc[u] = "drop")
  BY <1>0, <1>3, SafeWhenKept DEF Leave, Typed
<1> QED
  BY <1>1, <1>2, <1>3 DEF Apply, ApplyOr

LEMMA SafeDrop == ASSUME Typed, Safe, NEW t \in Trees, Drop(t) PROVE Safe'
<1>0. /\ cmd' = cmd /\ main' = main /\ cmd.op = "pop" /\ pc[t] = "drop" /\ raced' = raced
      /\ edits' = edits /\ made' = made /\ forgone' = forgone /\ pc' = [pc EXCEPT ![t] = "done"]
  BY DEF Drop, At, caller, Leave
<1>1. CASE stash' = stash
  BY <1>0, <1>1, SafeWhenKept DEF Typed
<1>2. CASE stash # <<>> /\ stash' = Front(stash)
  <2>1. CASE raced
    BY <1>0, <2>1 DEF Safe
  <2>2. CASE ~raced
    <3>1. Last(stash) \subseteq edits[t] /\ \A u \in Trees : pc'[u] # "drop"
      BY <1>0, <2>2 DEF Safe, DropsItsOwn, Typed
    <3>2. ASSUME NEW p, Somewhere(p) PROVE Somewhere(p)'
      BY <1>0, <1>2, <3>1, <3>2, StashFacts DEF Somewhere, InStash, Typed
    <3> QED
      BY <1>0, <3>1, <3>2 DEF Safe, DropsItsOwn
  <2> QED
    BY <2>1, <2>2
<1> QED
  BY <1>0, <1>1, <1>2 DEF Drop

LEMMA SafeClean == ASSUME Typed, Safe, NEW t \in Trees, Clean(t) PROVE Safe'
<1>0. /\ cmd' = cmd /\ main' = main /\ cmd.op = "clean" /\ Running /\ stash' = stash /\ raced' = raced /\ made' = made
  BY DEF Clean, At, caller
<1>1. PICK gone \in SUBSET Fresh(t) : /\ cmd.dryRun => gone = {}
                                      /\ edits' = [edits EXCEPT ![t] = @ \ gone]
                                      /\ forgone' = IF main = "agreed" THEN forgone \cup gone ELSE forgone
  BY DEF Clean
<1>2. \A u \in Trees : pc[u] # "drop" /\ pc'[u] # "drop"
  BY <1>0 DEF Safe, Clean, Leave, Typed
<1>3. gone = {} \/ forgone' = forgone \cup gone
  BY <1>0, <1>1 DEF Safe, Running
<1>4. ASSUME NEW p, p \notin gone, Somewhere(p) PROVE Somewhere(p)'
  BY <1>0, <1>1, <1>4 DEF Somewhere, InStash, Typed
<1> QED
  BY <1>0, <1>1, <1>2, <1>3, <1>4 DEF Safe, DropsItsOwn

LEMMA SafeStep == Typed /\ Safe /\ [Next]_vars => Safe'
<1> SUFFICES ASSUME Typed, Safe, [Next]_vars PROVE Safe'
  OBVIOUS
<1>1. CASE Begin
  <2>1. \A t \in Trees : pc'[t] = "look"
    BY <1>1 DEF Begin, AtAll
  <2>2. \A p : Somewhere(p)' = Somewhere(p)
    BY <1>1 DEF Begin, Somewhere, InStash, repo
  <2> QED
    BY <1>1, <2>1, <2>2 DEF Begin, Safe, DropsItsOwn
<1>2. CASE Ask
  <2>1. \A p : Somewhere(p)' = Somewhere(p)
    BY <1>2 DEF Ask, Somewhere, InStash, repo
  <2>2. \A t \in Trees : pc'[t] = "drop" => pc[t] = "drop"
    BY <1>2 DEF Ask, AtAll
  <2> QED
    BY <1>2, <2>1, <2>2 DEF Ask, Safe, DropsItsOwn, observed, repo
<1>3. CASE Finish
  <2>1. \A p : Somewhere(p)' = Somewhere(p)
    BY <1>3 DEF Finish, Somewhere, InStash, repo
  <2> QED
    BY <1>3, <2>1 DEF Finish, Safe, DropsItsOwn, observed, repo, handler
<1>4. CASE UNCHANGED vars
  <2>1. UNCHANGED <<stash, edits, raced, pc, made, forgone, cmd, main>>
    BY <1>4 DEF vars, repo, caller, handler, observed
  <2> QED
    BY <2>1, SafeWhenKept
<1>5. CASE Developer
  <2>1. UNCHANGED <<stash, raced, pc, forgone, cmd, main>>
    BY <1>5 DEF Developer, caller, handler
  <2>2. CASE UNCHANGED <<edits, made>>
    BY <2>1, <2>2, SafeWhenKept
  <2>3. ASSUME NEW t \in Trees, DevEdits(t) PROVE Safe'
    <3>1. PICK kind : edits' = [edits EXCEPT ![t] = @ \cup {<<t, kind>>}] /\ made' = made \cup {<<t, kind>>}
      BY <2>3 DEF DevEdits
    <3>2. <<t, kind>> \in edits'[t] /\ \A u \in Trees : edits[u] \subseteq edits'[u]
      BY <3>1 DEF Typed
    <3> QED
      BY <2>1, <3>1, <3>2, SafeWhenKept
  <2> QED
    BY <1>5, <2>2, <2>3 DEF Developer, DevRefs, DevRebases, DevResolves
<1>6. ASSUME NEW t \in Trees, Switch(t) PROVE Safe'
  <2>1. \A u \in Trees : edits'[u] = edits[u] /\ (pc'[u] = "drop" => pc[u] = "drop")
    BY <1>6 DEF Switch, SwitchWhere, Checkout, Leave, Typed
  <2>2. UNCHANGED <<stash, raced, made, cmd, main>> /\ forgone \subseteq forgone'
    BY <1>6 DEF Switch, SwitchWhere, At, caller
  <2> QED
    BY <2>1, <2>2, SafeWhenKept
<1>7. ASSUME NEW t \in Trees, Update(t) \/ TagCreate(t) PROVE Safe'
  <2>1. \A u \in Trees : pc'[u] = "drop" => pc[u] = "drop"
    BY <1>7 DEF Update, UpdateOr, TagCreate, TagIf, Leave, Typed
  <2> QED
    BY <1>7, <2>1, SafeWhenKept DEF Update, UpdateOr, TagCreate, TagIf, At, caller
<1>8. ASSUME NEW t \in Trees, UpdateLook(t) \/ SwitchLook(t) \/ SwitchState(t) \/ SwitchProbe(t) \/ SaveLook(t) \/ PopLook(t) \/ TagProbe(t)
      PROVE  Safe'
  <2>1. Reads /\ cmd' = cmd /\ main' = main /\ made' = made
    BY <1>8 DEF UpdateLook, SwitchLook, SwitchState, SwitchStateIf, SwitchProbe, SaveLook, PopLook, TagProbe, At, caller
  <2>2. \A u \in Trees : pc'[u] = "drop" => pc[u] = "drop"
    BY <1>8 DEF UpdateLook, SwitchLook, SwitchState, SwitchStateIf, SwitchProbe, SaveLook, PopLook, TagProbe, Leave, Goto, Unless, Typed
  <2> QED
    BY <2>1, <2>2, SafeWhenKept DEF Reads, repo
<1> QED
  BY <1>1, <1>2, <1>3, <1>4, <1>5, <1>6, <1>7, <1>8, SafeSave, SafeApply, SafeDrop, SafeClean DEF Next, Handler, Done

-----------------------------------------------------------------------------
(* The theorems.                                                           *)

LEMMA Invariants == Spec => [](Typed /\ LeftAlone /\ Reported /\ Safe)
<1>1. Init => Typed /\ LeftAlone /\ Reported /\ Safe
  BY TypedInit DEF Init, LeftAlone, Reported, HalfWayIsReported, Safe, DropsItsOwn, AtAll
<1>2. Typed /\ LeftAlone /\ Reported /\ Safe /\ [Next]_vars => (Typed /\ LeftAlone /\ Reported /\ Safe)'
  BY TypedStep, LeftAloneStep, ReportedStep, SafeStep
<1> QED
  BY <1>1, <1>2, PTL DEF Spec

(* Whatever fails or is killed, no work is lost but by a clean that was    *)
(* agreed to, and what a switch --force finds, which may be, as long as no *)
(* two pops are in git at the same time.                                   *)
THEOREM EditsSurviveHolds == Spec => []EditsSurvive
<1>1. Safe => EditsSurvive
  BY DEF Safe, EditsSurvive, Somewhere
<1> QED
  BY <1>1, Invariants, PTL

(* Exit code 0 is never given after a tree was left half way, but by a     *)
(* pull that wrote of a failed authentication.                             *)
THEOREM HalfWayIsReportedHolds == Spec => []HalfWayIsReported
<1>1. Reported => HalfWayIsReported
  BY DEF Reported
<1> QED
  BY <1>1, Invariants, PTL

(* No command drops a branch or a commit of one, or moves a tag without    *)
(* --force, whatever a failed probe said.                                  *)
THEOREM RefsStayHolds == Spec => RefsStay
<1>1. Typed /\ [Next]_vars =>
        [/\ \A b \in local : b \in local' /\ tip[b] \subseteq tip'[b]
         /\ tag # None /\ ~cmd.force => tag' = tag]_vars
  BY RefsStep DEF RefsKept
<1> QED
  BY <1>1, Invariants, PTL DEF Spec, RefsStay

(* A rebase that was there when the command began is not left, but in a    *)
(* linked worktree.                                                        *)
THEOREM RebaseStaysHolds == Spec => RebaseStays
<1>1. Typed /\ LeftAlone /\ [Next]_vars => [\A t \in early \ Linked : head'[t] = head[t]]_vars
  BY RebaseStep
<1> QED
  BY <1>1, Invariants, PTL DEF Spec, RebaseStays
=============================================================================
