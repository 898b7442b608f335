---------------------------- MODULE SyncExecutor ----------------------------
(***************************************************************************)
(* GitExecutor.Execute (pkg/reposync/executor_git.go): one feeder          *)
(* goroutine, a pool of workers, one collector and the caller that waits   *)
(* for them, joined by the unbuffered channels jobs and results.  A send   *)
(* on an unbuffered channel and its receive are one step.  What git and    *)
(* the file system answer is chosen by \E; the context may be cancelled    *)
(* between any two steps.                                                  *)
(***************************************************************************)
EXTENDS Naturals, Sequences

CONSTANTS
  Plans,       \* plans a planner can hand over (sequences of action types)
  Workers,     \* the pool, opts.Parallel goroutines
  Attempts     \* max(opts.MaxRetries+1, 1)

ActionTypes == {"clone", "update", "skip", "delete"}

ASSUME ExecutorAssumption ==
  /\ Plans \subseteq Seq(ActionTypes)
  /\ Workers # {}
  /\ Attempts \in Nat \ {0}

VARIABLES
  plan, dryRun, fileStore,       \* the request: plan.Actions, opts.DryRun, the kind of StateStore
  cancelled,                     \* ctx.Err() # nil
  feeder, fed,                   \* the feeding goroutine and how many actions it has sent
  pc, job, tries, verdict,       \* per worker: where it is, its action, retries, err so far
  keys,                          \* actions whose temporary SSH key file is on disk
  inHand, items,                 \* the result the collector has received, state.Items
  main, saved,                   \* the caller of wg.Wait, the states the store took
  started, completed,            \* observed: OnStart and OnComplete calls
  late                           \* observed: actions handed over after the cancellation

request    == <<plan, dryRun, fileStore>>
workerVars == <<pc, job, tries, verdict>>
observed   == <<started, completed>>
vars == <<request, cancelled, feeder, fed, workerVars, keys, inHand, items, main, saved, observed, late>>

NoJob == 0
NoResult == [action |-> NoJob, outcome |-> "none"]

Counter == [i \in DOMAIN plan |-> 0]

Init ==
  /\ plan \in Plans
  /\ dryRun \in BOOLEAN
  /\ fileStore \in BOOLEAN
  /\ cancelled = FALSE
  /\ feeder = "check" /\ fed = 0
  /\ pc = [w \in Workers |-> "recv"]
  /\ job = [w \in Workers |-> NoJob]
  /\ tries = [w \in Workers |-> 0]
  /\ verdict = [w \in Workers |-> "none"]
  /\ keys = {}
  /\ inHand = NoResult /\ items = <<>>
  /\ main = "wait" /\ saved = <<>>
  /\ started = Counter /\ completed = Counter
  /\ late = 0

-----------------------------------------------------------------------------
(* The environment and the feeder.                                         *)

(* The TUI's ctrl+c or the caller's own context.                           *)
Cancel ==
  /\ ~cancelled
  /\ main # "returned"
  /\ cancelled' = TRUE
  /\ UNCHANGED <<request, feeder, fed, workerVars, keys, inHand, items, main, saved, observed, late>>

FeedUnless(stop, end) ==
  /\ feeder = "check"
  /\ feeder' = IF stop THEN end ELSE "send"
  /\ UNCHANGED <<request, cancelled, fed, workerVars, keys, inHand, items, main, saved, observed, late>>

(* Mutants of FeederCheck: it gives up on the first failure, or returns on *)
(* a cancellation without close(jobs).                                     *)
FeederCheckFailFast == FeedUnless(fed = Len(plan) \/ cancelled \/ \E k \in DOMAIN items : items[k].outcome = "failed", "closed")
FeederCheckUnclosed == FeedUnless(fed = Len(plan) \/ cancelled, IF cancelled THEN "left" ELSE "closed")

(* The head of the feeder's loop: the context is looked at here and        *)
(* nowhere else; the deferred close(jobs) runs on either way out.          *)
FeederCheck == FeedUnless(fed = Len(plan) \/ cancelled, "closed")

(* jobs <- action met by a worker's range jobs.                            *)
Handoff(w) ==
  /\ feeder = "send" /\ pc[w] = "recv"
  /\ fed' = fed + 1
  /\ feeder' = "check"
  /\ job' = [job EXCEPT ![w] = fed + 1]
  /\ pc' = [pc EXCEPT ![w] = "start"]
  /\ late' = IF cancelled THEN late + 1 ELSE late
  /\ UNCHANGED <<request, cancelled, tries, verdict, keys, inHand, items, main, saved, observed>>

(* Mutant: a worker that sees the cancellation leaves with its result.     *)
WorkerExitDropping(w) ==
  /\ \/ feeder = "closed" /\ pc[w] = "recv"
     \/ cancelled /\ pc[w] = "deliver"
  /\ pc' = [pc EXCEPT ![w] = "exit"]
  /\ job' = [job EXCEPT ![w] = NoJob]
  /\ UNCHANGED <<request, cancelled, feeder, fed, tries, verdict, keys, inHand, items, main, saved, observed, late>>

(* range jobs ends because the channel is closed: wg.Done.                 *)
WorkerExit(w) ==
  /\ feeder = "closed" /\ pc[w] = "recv"
  /\ pc' = [pc EXCEPT ![w] = "exit"]
  /\ UNCHANGED <<request, cancelled, feeder, fed, job, tries, verdict, keys, inHand, items, main, saved, observed, late>>

-----------------------------------------------------------------------------
(* executeOne, run by worker w.                                            *)

Mark(count, w) == [count EXCEPT ![job[w]] = @ + 1]

(* sink.OnComplete(res); return res, err: the worker goes on to send it.   *)
Finish(w, v) ==
  /\ pc' = [pc EXCEPT ![w] = "deliver"]
  /\ verdict' = [verdict EXCEPT ![w] = v]
  /\ completed' = Mark(completed, w)

untouched == <<request, cancelled, feeder, fed, job, inHand, items, main, saved, late>>

(* A dry run, a skip and a delete take one step: os.RemoveAll works or not.*)
ExecuteSimple(w) ==
  /\ pc[w] = "start"
  /\ started' = Mark(started, w)
  /\ \/ /\ dryRun \/ plan[job[w]] = "skip"
        /\ Finish(w, "ok")
     \/ /\ ~dryRun /\ plan[job[w]] = "delete"
        /\ \E v \in {"ok", "err"} : Finish(w, v)
  /\ UNCHANGED <<untouched, tries, keys>>

(* Missing parameters, a parent directory that cannot be made and failing  *)
(* authentication end the action; PrepareAuth may leave a temporary key.   *)
PrepareClone(w) ==
  /\ pc[w] = "start" /\ ~dryRun /\ plan[job[w]] \in {"clone", "update"}
  /\ started' = Mark(started, w)
  /\ \/ Finish(w, "err") /\ UNCHANGED keys
     \/ /\ pc' = [pc EXCEPT ![w] = "try"]
        /\ keys' \in {keys, keys \cup {job[w]}}
        /\ UNCHANGED <<verdict, completed>>
  /\ UNCHANGED <<untouched, tries>>

(* The head of the retry loop.                                             *)
TryClone(w) ==
  /\ pc[w] = "try"
  /\ IF cancelled
     THEN /\ pc' = [pc EXCEPT ![w] = "cleanup"]
          /\ verdict' = [verdict EXCEPT ![w] = "err"]
     ELSE /\ pc' = [pc EXCEPT ![w] = "git"]
          /\ UNCHANGED verdict
  /\ UNCHANGED <<untouched, tries, keys, started, completed>>

AfterGit(w, last) ==
  /\ pc[w] = "git"
  /\ \/ /\ pc' = [pc EXCEPT ![w] = "cleanup"]
        /\ verdict' = [verdict EXCEPT ![w] = "ok"]
     \/ /\ ~last
        /\ pc' = [pc EXCEPT ![w] = "sleep"]
        /\ UNCHANGED verdict
     \/ /\ last
        /\ pc' = [pc EXCEPT ![w] = "cleanup"]
        /\ verdict' = [verdict EXCEPT ![w] = "err"]
  /\ UNCHANGED <<untouched, tries, keys, observed>>

(* client.CloneOrUpdate comes back: no error, or an error with or without  *)
(* a retry left.  time.Sleep between two attempts does not watch ctx.      *)
GitReturns(w) == AfterGit(w, tries[w] + 1 >= Attempts)

WakeUp(w) ==
  /\ pc[w] = "sleep"
  /\ pc' = [pc EXCEPT ![w] = "try"]
  /\ tries' = [tries EXCEPT ![w] = @ + 1]
  /\ UNCHANGED <<untouched, verdict, keys, observed>>

(* Mutant: an error that forgets sink.OnComplete.                          *)
RemoveKeyUnheard(w) ==
  /\ pc[w] = "cleanup"
  /\ keys' = keys \ {job[w]}
  /\ pc' = [pc EXCEPT ![w] = IF verdict[w] = "ok" THEN "post" ELSE "deliver"]
  /\ UNCHANGED <<untouched, tries, verdict, observed>>

(* removeTempSSHKey: a key that cannot be removed turns the result into an *)
(* error (errors.Join); an error ends the action here.                     *)
RemoveKey(w) ==
  /\ pc[w] = "cleanup"
  /\ \E removed \in BOOLEAN :
       /\ keys' = IF removed THEN keys \ {job[w]} ELSE keys
       /\ ~removed => job[w] \in keys
       /\ IF removed /\ verdict[w] = "ok"
          THEN pc' = [pc EXCEPT ![w] = "post"] /\ UNCHANGED <<verdict, completed>>
          ELSE Finish(w, "err")
  /\ UNCHANGED <<untouched, tries, started>>

(* Branch checkout, additional remotes and the post-sync status: only a    *)
(* failed checkout under StrictBranchCheckout is an error.                 *)
PostSync(w) ==
  /\ pc[w] = "post"
  /\ \E v \in {"ok", "err"} : Finish(w, v)
  /\ UNCHANGED <<untouched, tries, keys, started>>

-----------------------------------------------------------------------------
(* The collector and the caller.                                           *)

(* The three-way switch over a result.                                     *)
Bucket(i, v) ==
  IF v = "err" THEN "failed" ELSE IF plan[i] = "skip" THEN "skipped" ELSE "succeeded"

(* results <- res met by the collector's range results: the worker is free *)
(* before the collector has recorded anything.                             *)
Deliver(w) ==
  /\ pc[w] = "deliver"
  /\ main = "wait" /\ inHand = NoResult
  /\ inHand' = [action |-> job[w], outcome |-> Bucket(job[w], verdict[w])]
  /\ pc' = [pc EXCEPT ![w] = "recv"]
  /\ job' = [job EXCEPT ![w] = NoJob]
  /\ tries' = [tries EXCEPT ![w] = 0]
  /\ verdict' = [verdict EXCEPT ![w] = "none"]
  /\ UNCHANGED <<request, cancelled, feeder, fed, keys, items, main, saved, observed, late>>

(* The body of the collector's loop.                                       *)
Record ==
  /\ inHand # NoResult
  /\ items' = Append(items, inHand)
  /\ inHand' = NoResult
  /\ UNCHANGED <<request, cancelled, feeder, fed, workerVars, keys, main, saved, observed, late>>

(* wg.Wait(); close(results).                                              *)
CloseResults ==
  /\ main = "wait"
  /\ \A w \in Workers : pc[w] = "exit"
  /\ main' = "drain"
  /\ UNCHANGED <<request, cancelled, feeder, fed, workerVars, keys, inHand, items, saved, observed, late>>

(* The collector's range ends and <-done lets the caller go on.            *)
CollectorDone ==
  /\ main = "drain" /\ inHand = NoResult
  /\ main' = "save"
  /\ UNCHANGED <<request, cancelled, feeder, fed, workerVars, keys, inHand, items, saved, observed, late>>

(* store.Save(ctx, state): a FileStateStore refuses a cancelled context    *)
(* and can fail to write; the in-memory store always takes the state.      *)
Save ==
  /\ main = "save"
  /\ main' = "returned"
  /\ \/ /\ fileStore => ~cancelled
        /\ saved' = Append(saved, items)
     \/ /\ fileStore
        /\ UNCHANGED saved
  /\ UNCHANGED <<request, cancelled, feeder, fed, workerVars, keys, inHand, items, observed, late>>

(* Execute has returned; nothing is left to do.                            *)
Returned == main = "returned" /\ UNCHANGED vars

Next ==
  \/ Cancel
  \/ FeederCheck
  \/ \E w \in Workers :
       \/ Handoff(w) \/ WorkerExit(w) \/ Deliver(w)
       \/ ExecuteSimple(w) \/ PrepareClone(w) \/ TryClone(w) \/ GitReturns(w)
       \/ WakeUp(w) \/ RemoveKey(w) \/ PostSync(w)
  \/ Record
  \/ CloseResults
  \/ CollectorDone
  \/ Save
  \/ Returned

Spec == Init /\ [][Next]_vars

(* Every goroutine that can run does: a git command is bounded by the      *)
(* executor's timeout and a retry's sleep is finite.  Nobody has to cancel.*)
Fairness ==
  /\ WF_vars(FeederCheck) /\ WF_vars(Record)
  /\ WF_vars(CloseResults) /\ WF_vars(CollectorDone) /\ WF_vars(Save)
  /\ \A w \in Workers :
       /\ WF_vars(Handoff(w)) /\ WF_vars(WorkerExit(w)) /\ WF_vars(Deliver(w))
       /\ WF_vars(ExecuteSimple(w)) /\ WF_vars(PrepareClone(w)) /\ WF_vars(TryClone(w))
       /\ WF_vars(GitReturns(w)) /\ WF_vars(WakeUp(w)) /\ WF_vars(RemoveKey(w)) /\ WF_vars(PostSync(w))

FairSpec == Spec /\ Fairness

-----------------------------------------------------------------------------
(* Properties.                                                             *)

PCs == {"recv", "start", "try", "git", "sleep", "cleanup", "post", "deliver", "exit"}
Buckets == {"succeeded", "failed", "skipped"}
Actions == DOMAIN plan
ItemRecords == [action : Actions, outcome : Buckets]

(* The types of the goroutines' state (executor_git.go:44-120).            *)
TypeOK ==
  /\ plan \in Seq(ActionTypes) /\ dryRun \in BOOLEAN /\ fileStore \in BOOLEAN
  /\ cancelled \in BOOLEAN
  /\ feeder \in {"check", "send", "closed"} /\ fed \in 0..Len(plan)
  /\ pc \in [Workers -> PCs]
  /\ job \in [Workers -> {NoJob} \cup Actions]
  /\ tries \in [Workers -> Nat]
  /\ verdict \in [Workers -> {"none", "ok", "err"}]
  /\ keys \subseteq Actions
  /\ inHand \in ItemRecords \cup {NoResult} /\ items \in Seq(ItemRecords)
  /\ main \in {"wait", "drain", "save", "returned"}
  /\ saved \in Seq(Seq(ItemRecords))
  /\ started \in [Actions -> Nat] /\ completed \in [Actions -> Nat]
  /\ late \in Nat

Held(i) == \E w \in Workers : job[w] = i
Collected(i) == \E k \in DOMAIN items : items[k].action = i

(* Every action handed to the pool is with exactly one worker, in the      *)
(* collector's hand or recorded, in one of the three and only once: no     *)
(* result is lost or duplicated on its way through the two channels.       *)
EachActionOnce ==
  /\ \A i \in 1..fed : Held(i) \/ inHand.action = i \/ Collected(i)
  /\ \A i \in Actions : Held(i) => i <= fed /\ inHand.action # i /\ ~Collected(i)
  /\ inHand.action <= fed /\ ~Collected(inHand.action)
  /\ \A v, w \in Workers : job[v] = job[w] /\ job[v] # NoJob => v = w
  /\ \A k, l \in DOMAIN items : items[k].action = items[l].action => k = l
  /\ \A k \in DOMAIN items : items[k].action <= fed

(* close(results) comes after the last send: no worker can still be about  *)
(* to send a result (a send on a closed channel panics the process).       *)
NoSendOnClosedChannel ==
  main # "wait" => \A w \in Workers : pc[w] = "exit"

(* A run that was not cancelled has an outcome for every planned action    *)
(* when Execute returns, so "n of m failed" counts the whole plan.         *)
UncancelledRunIsComplete ==
  main = "returned" /\ ~cancelled => \A i \in Actions : Collected(i)

(* The progress sink hears OnStart and OnComplete exactly once for every   *)
(* action that has an outcome and never of any other: the TUI counts the   *)
(* completions to know when it may close.                                  *)
SinkHearsEachActionOnce ==
  main = "returned" =>
    \A i \in Actions :
      LET n == IF Collected(i) THEN 1 ELSE 0
      IN  started[i] = n /\ completed[i] = n

(* The feeder looks at ctx only at the head of its loop, so after a        *)
(* cancellation at most the one action it is already offering starts.      *)
CancelStopsTheFeeder == late <= 1

(* Execute returns, cancelled or not.                                      *)
ExecuteReturns == <>(main = "returned")

(* The run as its caller sees it: SyncRun.                                 *)
OutcomeIn(log, i) ==
  IF \E k \in DOMAIN log : log[k].action = i
  THEN log[CHOOSE k \in DOMAIN log : log[k].action = i].outcome
  ELSE "none"

Run == INSTANCE SyncRun WITH
  outcome <- [i \in Actions |-> OutcomeIn(items, i)],
  over <- main = "returned"

ImplementsSyncRun == Run!Spec
=============================================================================
