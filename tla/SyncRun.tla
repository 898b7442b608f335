------------------------------ MODULE SyncRun ------------------------------
(***************************************************************************)
(* What Executor.Execute promises its caller (pkg/reposync/executor.go),   *)
(* with no goroutine, channel or retry in sight: the actions of a plan are *)
(* settled one at a time, each at most once, and the run is over only when *)
(* every action is settled or the caller cancelled the context.            *)
(***************************************************************************)
EXTENDS Sequences

CONSTANT Plans   \* the plans a planner can hand over: sequences of action types

Unsettled == "none"
Outcomes  == {"succeeded", "failed", "skipped"}   \* the buckets of ExecutionResult

VARIABLES
  plan,       \* plan.Actions, fixed for the run
  outcome,    \* what each action of the plan ended as
  cancelled,  \* ctx.Err() # nil
  over        \* Execute has returned

vars == <<plan, outcome, cancelled, over>>

Init ==
  /\ plan \in Plans
  /\ outcome = [i \in DOMAIN plan |-> Unsettled]
  /\ cancelled = FALSE
  /\ over = FALSE

Settle(i, o) ==
  /\ ~over
  /\ outcome[i] = Unsettled
  /\ outcome' = [outcome EXCEPT ![i] = o]
  /\ UNCHANGED <<plan, cancelled, over>>

Cancel ==
  /\ ~cancelled
  /\ cancelled' = TRUE
  /\ UNCHANGED <<plan, outcome, over>>

Return ==
  /\ ~over
  /\ cancelled \/ \A i \in DOMAIN plan : outcome[i] # Unsettled
  /\ over' = TRUE
  /\ UNCHANGED <<plan, outcome, cancelled>>

Next ==
  \/ \E i \in DOMAIN plan, o \in Outcomes : Settle(i, o)
  \/ Cancel
  \/ Return

Spec == Init /\ [][Next]_vars
=============================================================================
