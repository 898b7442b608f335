------------------------------ MODULE Watcher ------------------------------
(***************************************************************************)
(* gz-git watch: runWatch starts a watcher over some repositories and      *)
(* prints what comes out of two bounded channels until a signal; then the  *)
(* deferred Stop cancels the context, closes fsnotify and waits for the    *)
(* watcher's loop.  The loop polls on a ticker and looks at a repository   *)
(* when fsnotify says so; each look is three git commands, then the events *)
(* one by one.  Work trees change, and become unreadable, at any moment.   *)
(***************************************************************************)
EXTENDS Integers, Sequences, SequencesExt

CONSTANTS
  Repos,
  Matching,             \* repository -> those whose path is a prefix of it
  Statuses,             \* repository -> work trees that occur: kind -> files
  Branches, NoBranch,   \* repository -> branches that occur; none, or no answer
  None,
  IncludeClean,         \* --include-clean
  EventCap, ErrorCap,   \* 100 and 50
  MaxChanges            \* changes of work trees, failures and fsnotify errors

ASSUME WatcherAssumption ==
  /\ \A r \in Repos : r \in Matching[r] /\ Matching[r] \subseteq Repos
  /\ IncludeClean \in BOOLEAN
  /\ EventCap \in Nat \ {0} /\ ErrorCap \in Nat \ {0} /\ MaxChanges \in Nat

VARIABLES
  tree, head, broken,   \* repository -> its work tree, its branch; those git cannot read
  touched,              \* fsnotify events not yet taken
  changes,              \* changes so far
  main,                 \* where runWatch is
  watched, known,       \* w.watching: its keys; repository -> last status and branch
  recent,               \* repositories with an event less than DebounceDuration ago
  loop,                 \* where eventLoop is
  events, errors,       \* the channels
  picture               \* observed: repository -> the work tree its reader has been told of

world == <<tree, head, broken, touched, changes>>
vars == <<world, main, watched, known, recent, loop, events, errors, picture>>

Kinds == {"staged", "modified", "untracked", "deleted", "conflict"}
Compared == <<"staged", "modified", "untracked", "deleted">>

AllBranches == (UNION {Branches[r] : r \in Repos}) \cup {NoBranch}
AllStatuses == UNION {Statuses[r] : r \in Repos}

Clean(status) == \A k \in Kinds : status[k] = {}

Idle == [at |-> "none", todo |-> {}, repo |-> None, status |-> None, branch |-> None, pending |-> <<>>]

Init ==
  /\ tree \in [Repos -> AllStatuses] /\ (\A r \in Repos : tree[r] \in Statuses[r])
  /\ head \in [Repos -> AllBranches] /\ (\A r \in Repos : head[r] \in Branches[r])
  /\ broken = {} /\ touched = {} /\ changes = 0
  /\ main = "starting" /\ watched = {} /\ recent = {} /\ loop = Idle /\ events = <<>> /\ errors = 0
  /\ known = [r \in Repos |-> [status |-> tree[r], branch |-> head[r]]] /\ picture = tree

-----------------------------------------------------------------------------
(* The world.                                                              *)

Budget == changes < MaxChanges /\ changes' = changes + 1

Edit(r) ==
  /\ Budget
  /\ \E status \in Statuses[r] \ {tree[r]} : tree' = [tree EXCEPT ![r] = status]
  /\ touched' \in {touched, touched \cup {r}}   \* fsnotify watches the top directory only
  /\ UNCHANGED <<head, broken>>

Switch(r) ==
  /\ Budget
  /\ \E b \in Branches[r] \ {head[r]} : head' = [head EXCEPT ![r] = b]
  /\ UNCHANGED <<tree, broken, touched>>

Break(r) == r \notin broken /\ Budget /\ broken' = broken \cup {r} /\ UNCHANGED <<tree, head, touched>>
Mend(r) == r \in broken /\ broken' = broken \ {r} /\ UNCHANGED <<tree, head, touched, changes>>

(* What happens once the context is cancelled nobody is told.              *)
World ==
  /\ main \in {"starting", "reading"}
  /\ \E r \in Repos : Edit(r) \/ Switch(r) \/ Break(r) \/ Mend(r)
  /\ UNCHANGED <<main, watched, known, recent, loop, events, errors, picture>>

(* DebounceDuration passes.                                                *)
Elapse ==
  /\ main = "reading"
  /\ \E r \in recent : recent' = recent \ {r}
  /\ UNCHANGED <<world, main, watched, known, loop, events, errors, picture>>

-----------------------------------------------------------------------------
(* Start and Stop, and runWatch between them.                              *)

Cancelled == main \in {"closing", "waiting", "stopped"}

(* Open, GetStatus, GetInfo and fsnotify's Add: a failure of GetInfo only  *)
(* leaves the branch open.  The reader knows the repository at that time.  *)
StartRepo(r) ==
  /\ main = "starting" /\ r \notin watched
  /\ IF r \in broken THEN main' = "closing" /\ UNCHANGED <<watched, known, picture>>
     ELSE \E b \in {head[r], NoBranch} :
            /\ watched' = watched \cup {r} /\ known' = [known EXCEPT ![r] = [status |-> tree[r], branch |-> b]]
            /\ picture' = [picture EXCEPT ![r] = tree[r]] /\ UNCHANGED main
  /\ UNCHANGED <<world, recent, loop, events, errors>>

StartLoop ==
  /\ main = "starting" /\ watched = Repos
  /\ main' = "reading" /\ loop' = [Idle EXCEPT !.at = "select"]
  /\ UNCHANGED <<world, watched, known, recent, events, errors, picture>>

(* An event says what kind of files changed and which there are now, that  *)
(* all are gone, or that the branch changed, but not to which.             *)
Seen(event) ==
  [picture EXCEPT ![event.repo] =
     CASE event.type = "branch" -> @
       [] event.type = "clean"  -> [k \in Kinds |-> {}]
       [] OTHER                 -> [@ EXCEPT ![event.type] = event.files]]

ReadEvent ==
  /\ main = "reading" /\ events # <<>>
  /\ picture' = Seen(Head(events)) /\ events' = Tail(events)
  /\ UNCHANGED <<world, main, watched, known, recent, loop, errors>>

ReadError ==
  /\ main = "reading" /\ errors > 0
  /\ errors' = errors - 1
  /\ UNCHANGED <<world, main, watched, known, recent, loop, events, picture>>

Interrupt ==
  /\ main = "reading" /\ main' = "closing"
  /\ UNCHANGED <<world, watched, known, recent, loop, events, errors, picture>>

(* Stop, under the lock: cancel, close fsnotify.                           *)
StopClose ==
  /\ main = "closing" /\ main' = "waiting"
  /\ UNCHANGED <<world, watched, known, recent, loop, events, errors, picture>>

LoopOver == loop.at \in {"none", "ended"}

StopReturn ==
  /\ main = "waiting" /\ LoopOver /\ main' = "stopped"
  /\ UNCHANGED <<world, watched, known, recent, loop, events, errors, picture>>

(* Mutant: Stop waits with the lock held.                                  *)
UnlockedAtTheEnd == main \notin {"starting", "closing", "waiting"}

Unlocked == main \notin {"starting", "closing"}

-----------------------------------------------------------------------------
(* eventLoop.                                                              *)

InLoop(place) == loop.at = place
GoTo(place) == loop' = [Idle EXCEPT !.at = place, !.todo = loop.todo]

(* select: the context, the ticker, fsnotify's events and errors.          *)
LoopEnds == InLoop("select") /\ Cancelled /\ GoTo("ended") /\ UNCHANGED <<touched, changes, errors>>

Tick ==
  /\ InLoop("select") /\ Unlocked
  /\ loop' = [loop EXCEPT !.at = "poll", !.todo = watched]
  /\ UNCHANGED <<touched, changes, errors>>

FsEvent ==
  /\ InLoop("select") /\ Unlocked
  /\ \E r \in touched : \E found \in Matching[r] :
       touched' = touched \ {r} /\ loop' = [loop EXCEPT !.at = "poll", !.todo = {found}]
  /\ UNCHANGED <<changes, errors>>

FsError == InLoop("select") /\ Budget /\ GoTo("fserror") /\ UNCHANGED <<touched, errors>>

SendFsError ==
  /\ InLoop("fserror")
  /\ \/ errors < ErrorCap /\ errors' = errors + 1 /\ GoTo("select")
     \/ Cancelled /\ GoTo("ended") /\ UNCHANGED errors
  /\ UNCHANGED <<touched, changes>>

Select ==
  /\ LoopEnds \/ Tick \/ FsEvent \/ FsError \/ SendFsError
  /\ UNCHANGED <<tree, head, broken, known, recent, events>>

(* Mutant: a look within DebounceDuration is taken as made.                *)
DebouncedKnown(r) == [known EXCEPT ![r] = [status |-> tree[r], branch |-> head[r]]]

(* A look within DebounceDuration changes nothing.                         *)
Debounced(r) == known

PollNext ==
  /\ InLoop("poll") /\ Unlocked
  /\ \/ loop.todo = {} /\ GoTo("select") /\ UNCHANGED known
     \/ \E r \in loop.todo :
          LET rest == [loop EXCEPT !.todo = @ \ {r}]
          IN  IF r \in recent THEN loop' = rest /\ known' = Debounced(r)
              ELSE loop' = [rest EXCEPT !.at = "status", !.repo = r] /\ UNCHANGED known
  /\ UNCHANGED <<recent, events, errors>>

(* select with a default: an error that finds the channel full is dropped. *)
TryError == IF errors < ErrorCap THEN errors + 1 ELSE errors

Reached(r) == r \notin broken
Denied(r) == r \in broken \/ Cancelled

ReadStatus ==
  /\ InLoop("status")
  /\ \/ /\ Reached(loop.repo)
        /\ loop' = [loop EXCEPT !.at = "info", !.status = tree[loop.repo]] /\ UNCHANGED errors
     \/ Denied(loop.repo) /\ GoTo("poll") /\ errors' \in {errors, TryError}
  /\ UNCHANGED <<known, recent, events>>

(* detectChanges.                                                          *)
Changed(old, new) == SelectSeq(Compared, LAMBDA k : old[k] # new[k])

BecameClean(old, new) == ~Clean(old) /\ Clean(new)

Types(old, status, branch) ==
  (IF branch \notin {old.branch, NoBranch} THEN <<"branch">> ELSE <<>>) \o
  (IF ~BecameClean(old.status, status) THEN Changed(old.status, status)
   ELSE IF IncludeClean THEN <<"clean">> ELSE <<>>)

Detect(r, status, branch) ==
  LET types == Types(known[r], status, branch)
  IN  [i \in DOMAIN types |-> [repo |-> r, type |-> types[i],
                               files |-> IF types[i] \in Kinds THEN status[types[i]] ELSE {}]]

(* GetInfo: without an answer there is no branch, so the next look finds a *)
(* change of branch.                                                       *)
ReadInfo ==
  /\ InLoop("info")
  /\ \E b \in (IF Reached(loop.repo) THEN {head[loop.repo]} ELSE {})
                \cup (IF Denied(loop.repo) THEN {NoBranch} ELSE {}) :
       loop' = [loop EXCEPT !.at = "send", !.branch = b, !.pending = Detect(loop.repo, loop.status, b)]
  /\ UNCHANGED <<known, recent, events, errors>>

SendEvent ==
  /\ InLoop("send") /\ loop.pending # <<>>
  /\ \/ /\ Len(events) < EventCap
        /\ events' = Append(events, Head(loop.pending)) /\ loop' = [loop EXCEPT !.pending = Tail(@)]
        /\ recent' = recent \cup {loop.repo}
     \/ Cancelled /\ GoTo("poll") /\ UNCHANGED <<events, recent>>
  /\ UNCHANGED <<known, errors>>

Record ==
  /\ InLoop("send") /\ loop.pending = <<>> /\ Unlocked
  /\ known' = [known EXCEPT ![loop.repo] = [status |-> loop.status, branch |-> loop.branch]]
  /\ GoTo("poll")
  /\ UNCHANGED <<recent, events, errors>>

Look == (PollNext \/ ReadStatus \/ ReadInfo \/ SendEvent \/ Record) /\ UNCHANGED world

LoopStep == (Select \/ Look) /\ UNCHANGED <<main, watched, picture>>

Next == World \/ Elapse \/ (\E r \in Repos : StartRepo(r)) \/ StartLoop \/ ReadEvent \/ ReadError \/ Interrupt
        \/ StopClose \/ StopReturn \/ LoopStep

(* Goroutines that can go on do; the ticker ticks and time passes; select  *)
(* takes a ready case at random, so a cancelled context is seen in the end.*)
Fairness ==
  /\ WF_vars(LoopStep) /\ SF_vars(LoopEnds /\ LoopStep) /\ WF_vars(Elapse)
  /\ WF_vars(ReadEvent) /\ WF_vars(ReadError) /\ WF_vars(StopClose \/ StopReturn)

Spec == Init /\ [][Next]_vars /\ Fairness

-----------------------------------------------------------------------------
(* Properties.                                                             *)

(* What a reader should know of r: the files of every kind compared, but   *)
(* that there are none only with --include-clean.                          *)
Current(r) ==
  \A k \in ToSet(Compared) : picture[r][k] = tree[r][k] \/ (~IncludeClean /\ tree[r][k] = {})

(* While runWatch reads, the work tree that a repository git can read      *)
(* settles on becomes known to the reader from types and files of events   *)
(* alone: no change is lost to a debounced look, a failed command, a full  *)
(* channel, a change during a look, or an event of another kind or of the  *)
(* branch sent before it.                                                  *)
ReaderCatchesUp ==
  \A r \in Repos : \/ []<>(main # "reading" \/ r \in broken \/ Current(r))
                  \/ []<><<tree' # tree>>_tree

(* Stop returns, though nobody reads the channels while it waits and the   *)
(* loop may be blocked on a full one or about to take the lock.            *)
StopReturns == main = "closing" ~> main = "stopped"
=============================================================================
