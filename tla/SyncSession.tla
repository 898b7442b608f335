---------------------------- MODULE SyncSession ----------------------------
(***************************************************************************)
(* A user's sequence of sync invocations over one workspace and one        *)
(* --state-file: Orchestrator.Run (load, plan, filterCompleted, execute),  *)
(* FileStateStore (temporary file, then rename), the terminal UI that      *)
(* runSyncTUI puts around it and the bridge between the two.  The process  *)
(* may be killed between any two steps; only the disk survives.            *)
(*                                                                         *)
(* The worker pool is SyncExecutor's, seen per target: an action is        *)
(* offered on jobs, runs, tells the progress sink and is collected.        *)
(***************************************************************************)
EXTENDS Naturals, FiniteSets

CONSTANTS
  Targets,     \* repositories of the workspace, one clone or update action each
  Parallel,    \* size of the worker pool
  Calls,       \* the invocations the user may make
  MaxRuns,     \* bound: how many of them
  DiskFails    \* whether the state file may be unreadable or unwritable

ASSUME SessionAssumption ==
  /\ IsFiniteSet(Targets) /\ Targets # {}
  /\ Parallel \in Nat \ {0}
  /\ MaxRuns \in Nat /\ DiskFails \in BOOLEAN
  /\ Calls \subseteq [ui : {"tui", "plain"}, resume : BOOLEAN, dryRun : BOOLEAN]

VARIABLES
  file, tmp,                           \* the state file and its .tmp sibling
  runs, caller, call,                  \* invocations so far; RunE and its flags
  orch, failure, orchCancelled, previous,  \* Orchestrator.Run, its error, orchCtx, the loaded state
  stage, outcome,                      \* per target: its place in the pool, its result
  screen, shown, allDone, quitting,    \* the Bubble Tea program and its model
  counted,                             \* bridge.done
  synced, owed,                        \* observed: targets ever synced; targets the sync under way still owes
  last                                 \* observed: what the last invocation reported

disk     == <<file, tmp>>
callVars == <<runs, caller, call>>
orchVars == <<orch, failure, orchCancelled, previous>>
pool     == <<stage, outcome>>
tui      == <<screen, shown, allDone, quitting, counted>>
sessionObserved == <<synced, owed, last>>
sessionVars == <<disk, callVars, orchVars, pool, tui, sessionObserved>>

Outcomes == {"none", "done", "failed"}   \* "none": the state has no item for the target
Nothing  == [t \in Targets |-> "none"]

(* A file holds a RunState or the beginning of one; a missing file loads   *)
(* as an empty state.                                                      *)
Whole(entries) == [whole |-> TRUE, items |-> entries]
Missing      == Whole(Nothing)
Torn         == [whole |-> FALSE, items |-> Nothing]

NoCall == [ui |-> "plain", resume |-> FALSE, dryRun |-> FALSE]

(* The memory of a process that has not started, or has ended.             *)
Fresh ==
  /\ caller' = "idle" /\ call' = NoCall
  /\ orch' = "off" /\ failure' = "none" /\ orchCancelled' = FALSE /\ previous' = Nothing
  /\ stage' = [t \in Targets |-> "out"] /\ outcome' = Nothing
  /\ screen' = "off" /\ shown' = {} /\ allDone' = FALSE /\ quitting' = FALSE /\ counted' = 0

SessionInit ==
  /\ file = Missing /\ tmp = Missing
  /\ runs = 0 /\ caller = "idle" /\ call = NoCall
  /\ orch = "off" /\ failure = "none" /\ orchCancelled = FALSE /\ previous = Nothing
  /\ stage = [t \in Targets |-> "out"] /\ outcome = Nothing
  /\ screen = "off" /\ shown = {} /\ allDone = FALSE /\ quitting = FALSE /\ counted = 0
  /\ synced = {} /\ owed = {}
  /\ last = [code |-> "none", quit |-> FALSE, call |-> NoCall]

-----------------------------------------------------------------------------
(* The user and the process.                                               *)

(* A new sync (no --resume) owes every target; a resumed one owes what the *)
(* sync before it still owed.                                              *)
Invoke(c) ==
  /\ caller = "idle" /\ runs < MaxRuns
  /\ runs' = runs + 1
  /\ call' = c
  /\ caller' = IF c.ui = "tui" THEN "screen" ELSE "await"
  /\ screen' = IF c.ui = "tui" THEN "up" ELSE "off"
  /\ orch' = "load"
  /\ owed' = IF c.resume \/ c.dryRun THEN owed ELSE Targets
  /\ UNCHANGED <<disk, failure, orchCancelled, previous, pool, shown, allDone, quitting, counted, synced, last>>

(* The process dies: SIGKILL, a closed terminal, or ctrl+c where no UI     *)
(* turns it into a key.                                                    *)
Kill ==
  /\ caller # "idle"
  /\ Fresh
  /\ last' = [code |-> "killed", quit |-> FALSE, call |-> call]
  /\ UNCHANGED <<disk, runs, synced, owed>>

NoMoreCalls == caller = "idle" /\ runs = MaxRuns /\ UNCHANGED sessionVars

-----------------------------------------------------------------------------
(* Orchestrator.Run and the pool.                                          *)

(* FileStateStore.Load: a cancelled context, an unreadable file and a file *)
(* that does not parse are errors; a missing file is an empty state.       *)
LoadState ==
  /\ orch = "load"
  /\ \/ /\ call.resume /\ (orchCancelled \/ ~file.whole \/ DiskFails)
        /\ failure' = "load" /\ orch' = "ended"
        /\ UNCHANGED previous
     \/ /\ call.resume => ~orchCancelled /\ file.whole
        /\ previous' = IF call.resume THEN file.items ELSE Nothing
        /\ orch' = "plan"
        /\ UNCHANGED failure
  /\ UNCHANGED <<disk, callVars, orchCancelled, pool, tui, sessionObserved>>

PlanWithout(dropped) ==
  /\ orch = "plan"
  /\ orch' = "execute"
  /\ stage' = [t \in Targets |-> IF t \in dropped THEN "out" ELSE "planned"]
  /\ UNCHANGED <<disk, callVars, failure, orchCancelled, previous, outcome, tui, sessionObserved>>

(* Mutant: every target the state mentions is dropped, failed ones too.    *)
MakePlanDroppingFailed == PlanWithout({t \in Targets : previous[t] # "none"})

(* precomputedPlanner.Plan gives every target; filterCompleted drops the   *)
(* ones the loaded state has as done.                                      *)
MakePlan == PlanWithout({t \in Targets : previous[t] = "done"})

Busy == {t \in Targets : stage[t] \in {"running", "telling", "counting", "closing"}}

Offer(t) ==
  /\ orch = "execute" /\ ~orchCancelled
  /\ stage[t] = "planned"
  /\ \A u \in Targets : stage[u] # "offered"
  /\ stage' = [stage EXCEPT ![t] = "offered"]
  /\ UNCHANGED <<disk, callVars, orchVars, outcome, tui, sessionObserved>>

Start(t) ==
  /\ stage[t] = "offered"
  /\ Cardinality(Busy) < Parallel
  /\ stage' = [stage EXCEPT ![t] = "running"]
  /\ UNCHANGED <<disk, callVars, orchVars, outcome, tui, sessionObserved>>

(* executeOne up to its OnComplete: a dry run touches nothing and reports  *)
(* success; anything else is really done or fails.  The plain sinks print  *)
(* and return; the bridge talks to the program.                            *)
Work(t) ==
  /\ stage[t] = "running"
  /\ \E o \in IF call.dryRun THEN {"done"} ELSE {"done", "failed"} :
       LET did == {u \in {t} : o = "done" /\ ~call.dryRun}
       IN  /\ outcome' = [outcome EXCEPT ![t] = o]
           /\ synced' = synced \cup did
           /\ owed' = owed \ did
  /\ stage' = [stage EXCEPT ![t] = IF call.ui = "tui" THEN "telling" ELSE "settled"]
  /\ UNCHANGED <<disk, callVars, orchVars, tui, last>>

(* wg.Wait, close(results), <-done.                                        *)
PoolDone ==
  /\ orch = "execute"
  /\ \A t \in Targets : stage[t] \in {"out", "settled"} \/ (orchCancelled /\ stage[t] = "planned")
  /\ orch' = "save"
  /\ UNCHANGED <<disk, callVars, failure, orchCancelled, previous, pool, tui, sessionObserved>>

(* FileStateStore.Save: a cancelled context is refused; os.WriteFile of    *)
(* the temporary file is not atomic and can fail half way; os.Rename is    *)
(* atomic.                                                                 *)
BeginSave ==
  /\ orch = "save"
  /\ IF orchCancelled
     THEN failure' = "save" /\ orch' = "ended" /\ UNCHANGED tmp
     ELSE tmp' = Torn /\ orch' = "write" /\ UNCHANGED failure
  /\ UNCHANGED <<file, callVars, orchCancelled, previous, pool, tui, sessionObserved>>

WriteAs(entries) ==
  /\ orch = "write"
  /\ \/ tmp' = Whole(entries) /\ orch' = "rename" /\ UNCHANGED failure
     \/ DiskFails /\ failure' = "save" /\ orch' = "ended" /\ UNCHANGED tmp
  /\ UNCHANGED <<file, callVars, orchCancelled, previous, pool, tui, sessionObserved>>

WriteTmp == WriteAs(outcome)

RenameTmp ==
  /\ orch = "rename"
  /\ file' = tmp /\ tmp' = Missing
  /\ orch' = "ended"
  /\ UNCHANGED <<callVars, failure, orchCancelled, previous, pool, tui, sessionObserved>>

-----------------------------------------------------------------------------
(* The terminal UI.                                                        *)

(* Mutant: bridge.OnComplete sends from a goroutine of its own.            *)
TellAsync(t) ==
  /\ stage[t] = "telling"
  /\ stage' = [stage EXCEPT ![t] = "counting"]
  /\ shown' \in {shown, shown \cup {t}}
  /\ UNCHANGED <<disk, callVars, orchVars, outcome, screen, allDone, quitting, counted, sessionObserved>>

(* bridge.OnComplete: program.Send(syncCompleteMsg) returns when the event *)
(* loop has taken the message, or at once when the program has ended.      *)
Tell(t) ==
  /\ stage[t] = "telling"
  /\ stage' = [stage EXCEPT ![t] = "counting"]
  /\ shown' = IF screen = "up" THEN shown \cup {t} ELSE shown
  /\ UNCHANGED <<disk, callVars, orchVars, outcome, screen, allDone, quitting, counted, sessionObserved>>

CountTo(t, total, step) ==
  /\ stage[t] = "counting"
  /\ counted' = counted + step
  /\ stage' = [stage EXCEPT ![t] = IF counted' = total THEN "closing" ELSE "settled"]
  /\ UNCHANGED <<disk, callVars, orchVars, outcome, screen, shown, allDone, quitting, sessionObserved>>

(* Mutant: the total is off by one.                                        *)
CountUpOffByOne(t) == CountTo(t, Cardinality(Targets) + 1, 1)

(* b.done.Add(1) == b.total, where total is len(actions) before the        *)
(* orchestrator has filtered them.                                         *)
CountUp(t) == CountTo(t, Cardinality(Targets), 1)

(* program.Send(syncAllDoneMsg): Update quits.                             *)
Announce(t) ==
  /\ stage[t] = "closing"
  /\ stage' = [stage EXCEPT ![t] = "settled"]
  /\ IF screen = "up" THEN allDone' = TRUE /\ screen' = "down" ELSE UNCHANGED <<allDone, screen>>
  /\ UNCHANGED <<disk, callVars, orchVars, outcome, shown, quitting, counted, sessionObserved>>

CtrlC ==
  /\ screen = "up"
  /\ screen' = "down" /\ quitting' = TRUE
  /\ UNCHANGED <<disk, callVars, orchVars, pool, shown, allDone, counted, sessionObserved>>

(* program.Run returns; orchCancel when the user quit.                     *)
LeaveScreen ==
  /\ caller = "screen" /\ screen = "down"
  /\ caller' = "await"
  /\ orchCancelled' = quitting
  /\ UNCHANGED <<disk, runs, call, orch, failure, previous, pool, tui, sessionObserved>>

ReportCode(code) ==
  /\ caller = "await" /\ orch = "ended"
  /\ last' = [code |-> code, quit |-> quitting, call |-> call]
  /\ Fresh
  /\ UNCHANGED <<disk, runs, synced, owed>>

(* Mutant: the exit code ignores failed targets.                           *)
ReportBlind == ReportCode(IF failure # "none" /\ ~quitting THEN "error" ELSE "ok")

(* The orchestrator's error is dropped when the user quit; failed targets  *)
(* are an error either way (errSyncPartialFailure).                        *)
Report ==
  ReportCode(IF (failure # "none" /\ ~quitting) \/ \E t \in Targets : outcome[t] = "failed"
             THEN "error" ELSE "ok")

-----------------------------------------------------------------------------
Progress ==
  \/ LoadState \/ MakePlan \/ PoolDone \/ BeginSave \/ WriteTmp \/ RenameTmp
  \/ LeaveScreen \/ Report
  \/ \E t \in Targets : Offer(t) \/ Start(t) \/ Work(t) \/ Tell(t) \/ CountUp(t) \/ Announce(t)

SessionNext ==
  \/ \E c \in Calls : Invoke(c)
  \/ Kill \/ CtrlC \/ NoMoreCalls
  \/ Progress

SessionSpec == SessionInit /\ [][SessionNext]_sessionVars

(* The process keeps running: some step of its goroutines is taken while   *)
(* one can be.  Nobody has to press ctrl+c, kill it or call again.         *)
FairSessions == SessionSpec /\ WF_sessionVars(Progress)

-----------------------------------------------------------------------------
(* Properties.                                                             *)

Stages == {"out", "planned", "offered", "running", "telling", "counting", "closing", "settled"}
Items  == [Targets -> Outcomes]

(* The types of the invocation's state and of the two files.               *)
SessionTypeOK ==
  /\ file \in [whole : BOOLEAN, items : Items] /\ tmp \in [whole : BOOLEAN, items : Items]
  /\ runs \in 0..MaxRuns /\ caller \in {"idle", "screen", "await"} /\ call \in Calls \cup {NoCall}
  /\ orch \in {"off", "load", "plan", "execute", "save", "write", "rename", "ended"}
  /\ failure \in {"none", "load", "save"} /\ orchCancelled \in BOOLEAN /\ previous \in Items
  /\ stage \in [Targets -> Stages] /\ outcome \in Items
  /\ screen \in {"off", "up", "down"} /\ shown \subseteq Targets
  /\ allDone \in BOOLEAN /\ quitting \in BOOLEAN /\ counted \in 0..Cardinality(Targets)
  /\ synced \subseteq Targets /\ owed \subseteq Targets

(* The state file can be parsed whenever the process dies: FileStateStore  *)
(* "writes state to disk atomically" (state_file.go).                      *)
FileIsWhole == file.whole

(* A target the state file has as done was really synced by some run.      *)
FileNeverOverclaims == \A t \in Targets : file.items[t] = "done" => t \in synced

(* --resume leaves no target out that no run has ever synced               *)
(* (filterCompleted).                                                      *)
ResumeKeepsTheUnsynced ==
  orch \in {"execute", "save", "write", "rename"} =>
    \A t \in Targets : stage[t] = "out" => t \in synced

(* When the UI closes by itself it has processed the completion of every   *)
(* action, so its "all n repositories synced" counts all of them.          *)
AllDoneMeansAllShown == allDone => shown = Targets /\ \A t \in Targets : outcome[t] # "none"

(* A sync that was neither resumed nor interrupted and reports success has *)
(* synced every target and has left a state file that says so.             *)
CleanExitMeansSynced ==
  caller = "idle" /\ last.code = "ok" /\ ~last.quit /\ ~last.call.resume /\ ~last.call.dryRun =>
    owed = {} /\ file = Whole([t \in Targets |-> "done"])

(* Every invocation comes to an end without the user's help.               *)
InvocationEnds == caller # "idle" ~> caller = "idle"

(* Without the UI, or without --resume, every invocation does: its counter *)
(* reaches the length of the plan the bridge was made with.                *)
UnfilteredInvocationEnds ==
  caller # "idle" /\ ~(call.ui = "tui" /\ call.resume) ~> caller = "idle"
=============================================================================
