----------------------------- MODULE SyncProofs -----------------------------
(***************************************************************************)
(* Proofs about the two halves of a sync, which share no variable: the     *)
(* worker pool of one Execute (SyncExecutor) and the invocations around it *)
(* (SyncSession).                                                          *)
(*                                                                         *)
(* The pool: for every plan, pool size and retry bound, types, the         *)
(* accounting of every action, the closing of the channels, the            *)
(* cancellation, what the progress sink hears, and that it implements the  *)
(* run its callers are promised.  The inductive invariant says where each  *)
(* planned action is: not yet handed over, held by exactly one worker, or  *)
(* collected once.                                                         *)
(*                                                                         *)
(* The session: for every set of targets, pool size and number of          *)
(* invocations, types, the closing of the terminal UI, a state file that   *)
(* parses, what a success means, and - when no invocation is a dry run -   *)
(* what the state file claims and what a resumed run leaves out.           *)
(***************************************************************************)
EXTENDS SyncExecutor, SyncSession, FiniteSetTheorems, SequenceTheorems, TLAPS

-----------------------------------------------------------------------------
(* The worker pool.                                                        *)

BusyPCs == PCs \ {"recv", "exit"}

(* A worker holds an action exactly while it is between range jobs and the *)
(* send of its result.                                                     *)
BusyHolds == \A w \in Workers : pc[w] \in BusyPCs <=> job[w] # NoJob

(* How the goroutines end: workers leave because the feeder is gone, the   *)
(* feeder goes because the plan is sent or the context cancelled, and the  *)
(* caller goes on when the collector has recorded what it received.        *)
Shutdown ==
  /\ \A w \in Workers : pc[w] = "exit" => feeder = "closed"
  /\ feeder = "closed" => cancelled \/ fed = Len(plan)
  /\ feeder = "send" => fed < Len(plan)
  /\ main \in {"save", "returned"} => inHand = NoResult

IInv ==
  /\ TypeOK
  /\ BusyHolds
  /\ Shutdown
  /\ NoSendOnClosedChannel
  /\ EachActionOnce

(* Appending one item leaves the others in place.                          *)
LEMMA AppendItem ==
  ASSUME NEW S, NEW s \in Seq(S), NEW x \in S
  PROVE  /\ Append(s, x) \in Seq(S)
         /\ Len(Append(s, x)) = Len(s) + 1
         /\ DOMAIN Append(s, x) = DOMAIN s \cup {Len(s) + 1}
         /\ \A k \in DOMAIN s : Append(s, x)[k] = s[k]
         /\ Append(s, x)[Len(s) + 1] = x
  OBVIOUS

LEMMA InitIInv == Init => IInv
<1> SUFFICES ASSUME Init PROVE IInv
  OBVIOUS
<1> USE ExecutorAssumption DEF Init
<1>1. plan \in Seq(ActionTypes)
  OBVIOUS
<1>2. Counter \in [Actions -> Nat] 
  BY DEF Counter, Actions
<1>3. TypeOK
  <2>1. /\ job \in [Workers -> {NoJob} \cup Actions] /\ pc \in [Workers -> PCs]
        /\ tries \in [Workers -> Nat] /\ verdict \in [Workers -> {"none", "ok", "err"}]
    BY DEF PCs
  <2>2. fed \in 0..Len(plan)
    BY <1>1
  <2>3. inHand \in ItemRecords \cup {NoResult} /\ items \in Seq(ItemRecords) /\ saved \in Seq(Seq(ItemRecords))
    BY EmptySeq
  <2> QED
    BY <1>1, <1>2, <2>1, <2>2, <2>3 DEF TypeOK
<1>4. BusyHolds
  BY DEF BusyHolds, BusyPCs, PCs
<1>5. Shutdown /\ NoSendOnClosedChannel
  BY DEF Shutdown, NoSendOnClosedChannel
<1>6. EachActionOnce
  BY <1>1 DEF EachActionOnce, Held, Collected, NoJob, NoResult, Actions
<1> QED
  BY <1>3, <1>4, <1>5, <1>6 DEF IInv

-----------------------------------------------------------------------------
(* Types.  A worker that marks a counter holds an action of the plan.      *)

LEMMA BusyJob ==
  ASSUME TypeOK, BusyHolds, NEW w \in Workers, pc[w] \in BusyPCs
  PROVE  job[w] \in Actions
  BY DEF TypeOK, BusyHolds, NoJob, Actions

LEMMA MarkType ==
  ASSUME TypeOK, BusyHolds, NEW w \in Workers, pc[w] \in BusyPCs, NEW count \in [Actions -> Nat]
  PROVE  Mark(count, w) \in [Actions -> Nat]
  BY BusyJob DEF Mark

LEMMA FinishType ==
  ASSUME TypeOK, BusyHolds, NEW w \in Workers, pc[w] \in BusyPCs, NEW v \in {"ok", "err"}, Finish(w, v)
  PROVE  /\ pc' \in [Workers -> PCs] /\ verdict' \in [Workers -> {"none", "ok", "err"}]
         /\ completed' \in [Actions -> Nat]
  BY MarkType DEF Finish, TypeOK, PCs

LEMMA TypeStep == IInv /\ [Next]_vars => TypeOK'
<1> SUFFICES ASSUME IInv, [Next]_vars PROVE TypeOK'
  OBVIOUS
<1>0. TypeOK /\ BusyHolds /\ Shutdown
  BY DEF IInv
<1> DEFINE SameRequest == plan' = plan /\ dryRun' = dryRun /\ fileStore' = fileStore
<1>a. ASSUME SameRequest PROVE Actions' = Actions /\ ItemRecords' = ItemRecords
  BY <1>a DEF Actions, ItemRecords
<1>1. CASE Cancel
  BY <1>0, <1>1, <1>a DEF Cancel, TypeOK, request, workerVars, observed
<1>2. CASE FeederCheck
  BY <1>0, <1>2, <1>a DEF FeederCheck, FeedUnless, TypeOK, request, workerVars, observed
<1>3. ASSUME NEW w \in Workers, Handoff(w) PROVE TypeOK'
  <2>1. fed + 1 \in Actions /\ fed' \in 0..Len(plan)
    BY <1>0, <1>3 DEF Handoff, TypeOK, Shutdown, Actions
  <2> QED
    BY <1>0, <1>3, <1>a, <2>1 DEF Handoff, TypeOK, request, observed, PCs
<1>4. ASSUME NEW w \in Workers, WorkerExit(w) PROVE TypeOK'
  BY <1>0, <1>4, <1>a DEF WorkerExit, TypeOK, request, observed, PCs
<1>5. ASSUME NEW w \in Workers, Deliver(w) PROVE TypeOK'
  <2>1. pc[w] \in BusyPCs
    BY <1>5 DEF Deliver, BusyPCs, PCs
  <2>2. job[w] \in Actions
    BY <1>0, <2>1, BusyJob
  <2>3. [action |-> job[w], outcome |-> Bucket(job[w], verdict[w])] \in ItemRecords
    BY <2>2 DEF ItemRecords, Bucket, Buckets
  <2> QED
    BY <1>0, <1>5, <1>a, <2>3 DEF Deliver, TypeOK, request, observed, PCs, NoJob
<1>6. ASSUME NEW w \in Workers, ExecuteSimple(w) PROVE TypeOK'
  <2>1. pc[w] \in BusyPCs
    BY <1>6 DEF ExecuteSimple, BusyPCs, PCs
  <2>2. PICK v \in {"ok", "err"} : Finish(w, v)
    BY <1>6 DEF ExecuteSimple
  <2>3. started' \in [Actions -> Nat]
    BY <1>0, <1>6, <2>1, MarkType DEF ExecuteSimple, TypeOK
  <2> QED
    BY <1>0, <1>6, <1>a, <2>1, <2>2, <2>3, FinishType DEF ExecuteSimple, TypeOK, request, untouched
<1>7. ASSUME NEW w \in Workers, PrepareClone(w) PROVE TypeOK'
  <2>1. pc[w] \in BusyPCs
    BY <1>7 DEF PrepareClone, BusyPCs, PCs
  <2>2. started' \in [Actions -> Nat] /\ job[w] \in Actions
    BY <1>0, <1>7, <2>1, MarkType, BusyJob DEF PrepareClone, TypeOK
  <2>3. CASE Finish(w, "err") /\ UNCHANGED keys
    BY <1>0, <1>7, <1>a, <2>1, <2>2, <2>3, FinishType DEF PrepareClone, TypeOK, request, untouched
  <2>4. CASE pc' = [pc EXCEPT ![w] = "try"] /\ keys' \in {keys, keys \cup {job[w]}}
             /\ UNCHANGED <<verdict, completed>>
    BY <1>0, <1>7, <1>a, <2>2, <2>4 DEF PrepareClone, TypeOK, request, untouched, PCs
  <2> QED
    BY <1>7, <2>3, <2>4 DEF PrepareClone
<1>8. ASSUME NEW w \in Workers, TryClone(w) PROVE TypeOK'
  BY <1>0, <1>8, <1>a DEF TryClone, TypeOK, request, untouched, PCs
<1>9. ASSUME NEW w \in Workers, GitReturns(w) PROVE TypeOK'
  BY <1>0, <1>9, <1>a DEF GitReturns, AfterGit, TypeOK, request, untouched, observed, PCs
<1>10. ASSUME NEW w \in Workers, WakeUp(w) PROVE TypeOK'
  BY <1>0, <1>10, <1>a DEF WakeUp, TypeOK, request, untouched, observed, PCs
<1>11. ASSUME NEW w \in Workers, RemoveKey(w) PROVE TypeOK'
  <2>1. pc[w] \in BusyPCs
    BY <1>11 DEF RemoveKey, BusyPCs, PCs
  <2>2. keys' \subseteq Actions
    BY <1>0, <1>11 DEF RemoveKey, TypeOK
  <2>3. CASE Finish(w, "err")
    BY <1>0, <1>11, <1>a, <2>1, <2>2, <2>3, FinishType DEF RemoveKey, TypeOK, request, untouched
  <2>4. CASE pc' = [pc EXCEPT ![w] = "post"] /\ UNCHANGED <<verdict, completed>>
    BY <1>0, <1>11, <1>a, <2>2, <2>4 DEF RemoveKey, TypeOK, request, untouched, PCs
  <2> QED
    BY <1>11, <2>3, <2>4 DEF RemoveKey
<1>12. ASSUME NEW w \in Workers, PostSync(w) PROVE TypeOK'
  <2>1. pc[w] \in BusyPCs
    BY <1>12 DEF PostSync, BusyPCs, PCs
  <2>2. PICK v \in {"ok", "err"} : Finish(w, v)
    BY <1>12 DEF PostSync
  <2> QED
    BY <1>0, <1>12, <1>a, <2>1, <2>2, FinishType DEF PostSync, TypeOK, request, untouched
<1>17. CASE Record
  <2>1. inHand \in ItemRecords /\ items \in Seq(ItemRecords)
    BY <1>0, <1>17 DEF Record, TypeOK
  <2>2. items' \in Seq(ItemRecords)
    BY <1>17, <2>1, AppendItem DEF Record
  <2> QED
    BY <1>0, <1>17, <1>a, <2>2 DEF Record, TypeOK, request, workerVars, observed
<1>13. CASE CloseResults
  BY <1>0, <1>13, <1>a DEF CloseResults, TypeOK, request, workerVars, observed
<1>14. CASE CollectorDone
  BY <1>0, <1>14, <1>a DEF CollectorDone, TypeOK, request, workerVars, observed
<1>15. CASE Save
  <2> DEFINE States == Seq(ItemRecords)
  <2>0. saved \in Seq(States) /\ items \in States
    BY <1>0 DEF TypeOK
  <2>1. saved' \in Seq(States)
    <3> HIDE DEF States
    <3> QED
      BY <1>15, <2>0, AppendItem DEF Save
  <2> QED
    BY <1>0, <1>15, <1>a, <2>1 DEF Save, TypeOK, request, workerVars, observed
<1>16. CASE UNCHANGED vars
  BY <1>0, <1>16, <1>a DEF TypeOK, vars, request, workerVars, observed
<1> QED
  BY <1>1, <1>2, <1>3, <1>4, <1>5, <1>6, <1>7, <1>8, <1>9, <1>10, <1>11, <1>12, <1>13, <1>14,
     <1>15, <1>16, <1>17 DEF Next, Returned

-----------------------------------------------------------------------------
(* The bookkeeping of one action by one worker.                            *)

(* What a step inside executeOne leaves alone; it moves one busy worker.   *)
LocalStep(w) ==
  /\ pc[w] \in BusyPCs
  /\ \E x \in BusyPCs : pc' = [pc EXCEPT ![w] = x]
  /\ UNCHANGED <<plan, cancelled, feeder, fed, job, inHand, items, main>>

LEMMA ExecuteIsLocal ==
  ASSUME NEW w \in Workers,
         \/ ExecuteSimple(w) \/ PrepareClone(w) \/ TryClone(w) \/ GitReturns(w)
         \/ WakeUp(w) \/ RemoveKey(w) \/ PostSync(w)
  PROVE  LocalStep(w)
<1> USE DEF LocalStep, BusyPCs, PCs, untouched, request
<1>1. CASE ExecuteSimple(w)
  BY <1>1 DEF ExecuteSimple, Finish
<1>2. CASE PrepareClone(w)
  BY <1>2 DEF PrepareClone, Finish
<1>3. CASE TryClone(w)
  BY <1>3 DEF TryClone
<1>4. CASE GitReturns(w)
  BY <1>4 DEF GitReturns, AfterGit
<1>5. CASE WakeUp(w)
  BY <1>5 DEF WakeUp
<1>6. CASE RemoveKey(w)
  BY <1>6 DEF RemoveKey, Finish
<1>7. CASE PostSync(w)
  BY <1>7 DEF PostSync, Finish
<1> QED
  BY <1>1, <1>2, <1>3, <1>4, <1>5, <1>6, <1>7

(* What a step can be as far as the accounting is concerned.               *)
LEMMA StepKinds ==
  ASSUME [Next]_vars
  PROVE  \/ Cancel \/ FeederCheck
         \/ \E w \in Workers : Handoff(w) \/ WorkerExit(w) \/ Deliver(w) \/ LocalStep(w)
         \/ Record \/ CloseResults \/ CollectorDone \/ Save \/ UNCHANGED vars
  BY ExecuteIsLocal DEF Next, Returned

LEMMA ShutdownStep ==
  ASSUME IInv, [Next]_vars
  PROVE  BusyHolds' /\ Shutdown' /\ NoSendOnClosedChannel'
<1> USE DEF IInv, BusyHolds, Shutdown, NoSendOnClosedChannel
<1>0. TypeOK
  OBVIOUS
<1> USE DEF TypeOK
<1>1. CASE Cancel
  BY <1>1 DEF Cancel, workerVars, request
<1>2. CASE FeederCheck
  BY <1>2 DEF FeederCheck, FeedUnless, workerVars, request
<1>3. ASSUME NEW w \in Workers, Handoff(w)
      PROVE  BusyHolds' /\ Shutdown' /\ NoSendOnClosedChannel'
  BY <1>3 DEF Handoff, request, BusyPCs, PCs, NoJob
<1>4. ASSUME NEW w \in Workers, WorkerExit(w)
      PROVE  BusyHolds' /\ Shutdown' /\ NoSendOnClosedChannel'
  BY <1>4 DEF WorkerExit, request, BusyPCs, PCs
<1>5. ASSUME NEW w \in Workers, Deliver(w)
      PROVE  BusyHolds' /\ Shutdown' /\ NoSendOnClosedChannel'
  BY <1>5 DEF Deliver, request, BusyPCs, PCs, NoJob
<1>6. ASSUME NEW w \in Workers, LocalStep(w)
      PROVE  BusyHolds' /\ Shutdown' /\ NoSendOnClosedChannel'
  BY <1>6 DEF LocalStep, BusyPCs, PCs
<1>7. CASE CloseResults
  BY <1>7 DEF CloseResults, workerVars, request
<1>8. CASE Record \/ CollectorDone \/ Save
  BY <1>8 DEF Record, CollectorDone, Save, workerVars, request
<1>9. CASE UNCHANGED vars
  BY <1>9 DEF vars, workerVars, request
<1> QED
  BY <1>1, <1>2, <1>3, <1>4, <1>5, <1>6, <1>7, <1>8, <1>9, StepKinds

LEMMA AccountingStep ==
  ASSUME IInv, [Next]_vars
  PROVE  EachActionOnce'
<1>0. TypeOK /\ BusyHolds /\ Shutdown /\ EachActionOnce
  BY DEF IInv
<1>1. CASE UNCHANGED <<plan, fed, job, inHand, items>>
  BY <1>0, <1>1 DEF EachActionOnce, Held, Collected, Actions
<1>n. /\ \A i \in Actions : i # NoJob /\ i \in Nat
      /\ \A k \in DOMAIN items : items[k].action \in Actions
      /\ inHand.action \in Nat
  <2>1. \A i \in Actions : i # NoJob /\ i \in Nat
    BY <1>0 DEF TypeOK, Actions, NoJob
  <2>2. \A k \in DOMAIN items : items[k] \in ItemRecords
    BY <1>0, ElementOfSeq DEF TypeOK
  <2> QED
    BY <1>0, <2>1, <2>2 DEF ItemRecords, NoResult, NoJob, TypeOK
<1>2. ASSUME NEW w \in Workers, Handoff(w) PROVE EachActionOnce'
  <2>1. /\ fed' = fed + 1 /\ fed \in Nat /\ fed + 1 # NoJob
        /\ plan' = plan /\ items' = items /\ inHand' = inHand
        /\ job' = [job EXCEPT ![w] = fed + 1] /\ job[w] = NoJob
    BY <1>0, <1>2 DEF Handoff, TypeOK, BusyHolds, BusyPCs, PCs, request, NoJob
  <2>2. \A i : Collected(i)' <=> Collected(i)
    BY <2>1 DEF Collected
  <2>3. ~Collected(fed + 1) /\ inHand.action # fed + 1
    BY <1>0, <1>n, <2>1 DEF EachActionOnce, Collected
  <2>4. \A v \in Workers : job[v] # fed + 1
    <3> SUFFICES ASSUME NEW v \in Workers, job[v] = fed + 1 PROVE FALSE
      OBVIOUS
    <3>1. job[v] \in Actions /\ Held(job[v])
      BY <1>0, <2>1 DEF TypeOK, Held
    <3>2. job[v] <= fed
      BY <1>0, <3>1 DEF EachActionOnce
    <3> QED
      BY <2>1, <3>2
  <2>5. \A i : i # NoJob => (Held(i)' <=> Held(i) \/ i = fed + 1)
    BY <1>0, <2>1 DEF Held, TypeOK
  <2>6. \A i \in 1..fed' : i # NoJob /\ (i \in 1..fed \/ i = fed + 1)
    BY <2>1 DEF NoJob
  <2>7. \A i \in 1..fed' : (Held(i) \/ inHand.action = i \/ Collected(i))'
    BY <1>0, <2>1, <2>2, <2>5, <2>6 DEF EachActionOnce
  <2>8. \A i \in Actions' : Held(i)' => i <= fed' /\ inHand'.action # i /\ ~Collected(i)'
    BY <1>0, <1>n, <2>1, <2>2, <2>3, <2>5 DEF EachActionOnce, Actions
  <2>9. \A u, v \in Workers : job'[u] = job'[v] /\ job'[u] # NoJob => u = v
    BY <1>0, <2>1, <2>4 DEF EachActionOnce, TypeOK
  <2>10. inHand'.action <= fed' /\ ~Collected(inHand.action)'
    BY <1>0, <1>n, <2>1 DEF EachActionOnce, Collected
  <2>11. \A k \in DOMAIN items' : items'[k].action <= fed'
    BY <1>0, <1>n, <2>1 DEF EachActionOnce
  <2> QED
    BY <1>0, <2>1, <2>7, <2>8, <2>9, <2>10, <2>11 DEF EachActionOnce
<1>3. ASSUME NEW w \in Workers, Deliver(w) PROVE EachActionOnce'
  <2>1. pc[w] \in BusyPCs /\ job[w] \in Actions /\ job[w] # NoJob
    BY <1>0, <1>3, BusyJob DEF Deliver, BusyPCs, PCs, BusyHolds
  <2>2. /\ inHand.action = NoJob /\ inHand'.action = job[w]
        /\ job' = [job EXCEPT ![w] = NoJob]
        /\ fed' = fed /\ plan' = plan /\ items' = items
    BY <1>3 DEF Deliver, request, NoResult
  <2>3. \A i : Collected(i)' <=> Collected(i)
    BY <2>2 DEF Collected
  <2>4. \A i : i # NoJob => (Held(i)' <=> Held(i) /\ i # job[w])
    BY <1>0, <2>1, <2>2 DEF Held, TypeOK, EachActionOnce
  <2>5. Held(job[w])
    BY DEF Held
  <2>6. \A i \in 1..fed : i # NoJob
    BY DEF NoJob
  <2>7. \A i \in 1..fed' : (Held(i) \/ inHand.action = i \/ Collected(i))'
    BY <1>0, <2>2, <2>3, <2>4, <2>6 DEF EachActionOnce
  <2>8. \A i \in Actions' : Held(i)' => i <= fed' /\ inHand'.action # i /\ ~Collected(i)'
    BY <1>0, <1>n, <2>2, <2>3, <2>4 DEF EachActionOnce, Actions
  <2>9. inHand'.action <= fed' /\ ~Collected(inHand.action)'
    BY <1>0, <2>1, <2>2, <2>5 DEF EachActionOnce, Collected
  <2>10. \A u, v \in Workers : job'[u] = job'[v] /\ job'[u] # NoJob => u = v
    BY <1>0, <2>2 DEF EachActionOnce, TypeOK
  <2> QED
    BY <1>0, <2>2, <2>7, <2>8, <2>9, <2>10 DEF EachActionOnce
<1>4. ASSUME Record PROVE EachActionOnce'
  <2> DEFINE n == Len(items) + 1
  <2>1. inHand \in ItemRecords /\ items \in Seq(ItemRecords)
    BY <1>0, <1>4 DEF Record, TypeOK
  <2>2. /\ items' = Append(items, inHand) /\ inHand'.action = NoJob
        /\ fed' = fed /\ plan' = plan /\ job' = job
    BY <1>4 DEF Record, request, workerVars, NoResult
  <2>3. /\ DOMAIN items' = DOMAIN items \cup {n}
        /\ \A k \in DOMAIN items : items'[k] = items[k]
        /\ items'[n] = inHand
    BY <2>1, <2>2, AppendItem
  <2>4. \A i : Collected(i)' <=> Collected(i) \/ i = inHand.action
    BY <2>3 DEF Collected
  <2>5. \A i : Held(i)' <=> Held(i)
    BY <2>2 DEF Held
  <2>6. inHand.action \in Actions
    BY <2>1 DEF ItemRecords
  <2>7. \A i \in 1..fed' : (Held(i) \/ inHand.action = i \/ Collected(i))'
    BY <1>0, <2>2, <2>4, <2>5 DEF EachActionOnce
  <2>8. \A i \in Actions' : Held(i)' => i <= fed' /\ inHand'.action # i /\ ~Collected(i)'
    BY <1>0, <1>n, <2>2, <2>4, <2>5 DEF EachActionOnce, Actions
  <2>9. inHand'.action <= fed' /\ ~Collected(inHand.action)'
    BY <1>0, <1>n, <2>2, <2>3, <2>6 DEF Collected, NoJob, TypeOK
  <2>10. \A k, l \in DOMAIN items' : items'[k].action = items'[l].action => k = l
    BY <1>0, <2>3 DEF EachActionOnce, Collected
  <2>11. \A k \in DOMAIN items' : items'[k].action <= fed'
    BY <1>0, <2>2, <2>3 DEF EachActionOnce
  <2> QED
    BY <1>0, <2>2, <2>7, <2>8, <2>9, <2>10, <2>11 DEF EachActionOnce
<1> QED
  <2>1. CASE Cancel \/ FeederCheck \/ CloseResults \/ CollectorDone \/ Save \/ UNCHANGED vars
    BY <1>1, <2>1 DEF Cancel, FeederCheck, FeedUnless, CloseResults, CollectorDone, Save, vars, workerVars, request
  <2>2. ASSUME NEW w \in Workers, WorkerExit(w) \/ LocalStep(w) PROVE EachActionOnce'
    BY <1>1, <2>2 DEF WorkerExit, LocalStep, request
  <2> QED
    BY <1>2, <1>3, <1>4, <2>1, <2>2, StepKinds

-----------------------------------------------------------------------------
(* The theorems.                                                           *)

LEMMA Invariance == Spec => []IInv
<1>1. IInv /\ [Next]_vars => IInv'
  BY TypeStep, ShutdownStep, AccountingStep DEF IInv
<1> QED
  BY InitIInv, <1>1, PTL DEF Spec

(* Type correctness of the goroutines' state, for every plan and pool.     *)
THEOREM TypeCorrect == Spec => []TypeOK
<1>1. IInv => TypeOK
  BY DEF IInv
<1> QED
  BY Invariance, <1>1, PTL

(* Execute never loses or duplicates the result of an action it started.   *)
THEOREM EachActionOnceHolds == Spec => []EachActionOnce
<1>1. IInv => EachActionOnce
  BY DEF IInv
<1> QED
  BY Invariance, <1>1, PTL

(* close(results) never overtakes a send.                                  *)
THEOREM NoSendOnClosedChannelHolds == Spec => []NoSendOnClosedChannel
<1>1. IInv => NoSendOnClosedChannel
  BY DEF IInv
<1> QED
  BY Invariance, <1>1, PTL

(* A run that was not cancelled accounts for the whole plan.               *)
THEOREM UncancelledRunIsCompleteHolds == Spec => []UncancelledRunIsComplete
<1>1. IInv => UncancelledRunIsComplete
  <2> SUFFICES ASSUME IInv, main = "returned", ~cancelled, NEW i \in Actions
               PROVE  Collected(i)
    BY DEF UncancelledRunIsComplete
  <2>1. \A w \in Workers : pc[w] = "exit"
    BY DEF IInv, NoSendOnClosedChannel
  <2>2. fed = Len(plan)
    BY <2>1, ExecutorAssumption DEF IInv, Shutdown
  <2>3. i \in 1..fed
    BY <2>2 DEF IInv, TypeOK, Actions
  <2>4. ~Held(i)
    BY <2>1, <2>3 DEF IInv, BusyHolds, BusyPCs, PCs, Held, NoJob
  <2> QED
    BY <2>3, <2>4 DEF IInv, EachActionOnce, Shutdown, NoResult, NoJob
<1> QED
  BY Invariance, <1>1, PTL

-----------------------------------------------------------------------------
(* After a cancellation at most one more action starts.                    *)

CancelInv ==
  /\ late <= 1
  /\ ~cancelled \/ feeder = "send" => late = 0

THEOREM CancelStopsTheFeederHolds == Spec => []CancelStopsTheFeeder
<1>1. Init => CancelInv
  BY DEF Init, CancelInv
<1>2. IInv /\ CancelInv /\ [Next]_vars => CancelInv'
  <2> SUFFICES ASSUME IInv, CancelInv, [Next]_vars PROVE CancelInv'
    OBVIOUS
  <2> USE DEF CancelInv
  <2>0. late \in Nat
    BY DEF IInv, TypeOK
  <2>1. CASE Cancel
    BY <2>0, <2>1 DEF Cancel
  <2>2. CASE FeederCheck
    BY <2>0, <2>2 DEF FeederCheck, FeedUnless
  <2>3. ASSUME NEW w \in Workers, Handoff(w) PROVE CancelInv'
    BY <2>0, <2>3 DEF Handoff
  <2>4. CASE UNCHANGED <<cancelled, feeder, late>>
    BY <2>4
  <2> QED
    BY <2>1, <2>2, <2>3, <2>4
       DEF Next, Returned, vars, WorkerExit, Deliver, Record, CloseResults, CollectorDone, Save, untouched,
           ExecuteSimple, PrepareClone, TryClone, GitReturns, AfterGit, WakeUp, RemoveKey, PostSync
<1>3. CancelInv => CancelStopsTheFeeder
  BY DEF CancelInv, CancelStopsTheFeeder
<1> QED
  BY Invariance, <1>1, <1>2, <1>3, PTL DEF Spec

-----------------------------------------------------------------------------
(* Refinement.  Record is Settle of the action in the collector's hand,    *)
(* Save is Return; the rest of the pool is invisible to the caller.        *)

Log == [i \in Actions |-> OutcomeIn(items, i)]

(* In a log with one entry per action the entry is the outcome.            *)
LEMMA OutcomeOfItem ==
  ASSUME NEW log,
         \A k, l \in DOMAIN log : log[k].action = log[l].action => k = l,
         NEW m \in DOMAIN log
  PROVE  OutcomeIn(log, log[m].action) = log[m].outcome
<1> DEFINE i == log[m].action
           c == CHOOSE l \in DOMAIN log : log[l].action = i
<1>1. c \in DOMAIN log /\ log[c].action = i
  OBVIOUS
<1>2. c = m
  BY <1>1
<1> QED
  BY <1>2 DEF OutcomeIn

LEMMA UnchangedOutcomes ==
  ASSUME UNCHANGED <<plan, items>>
  PROVE  Log' = Log
  BY DEF Log, Actions

LEMMA RecordSettles ==
  ASSUME IInv, IInv', Record
  PROVE  /\ inHand \in ItemRecords /\ Log[inHand.action] = "none"
         /\ Log' = [Log EXCEPT ![inHand.action] = inHand.outcome]
<1> DEFINE n == Len(items) + 1
           a == inHand.action
<1>1. inHand \in ItemRecords /\ items \in Seq(ItemRecords) /\ items' = Append(items, inHand)
  BY DEF IInv, TypeOK, Record
<1>2. a \in Actions /\ ~Collected(a)
  BY <1>1 DEF ItemRecords, IInv, EachActionOnce
<1>3. Log[a] = "none"
  BY <1>2 DEF Log, OutcomeIn, Collected
<1>5. /\ DOMAIN items' = DOMAIN items \cup {n}
      /\ \A k \in DOMAIN items : items'[k] = items[k]
      /\ items'[n] = inHand
  BY <1>1, AppendItem
<1>6. /\ \A k, l \in DOMAIN items : items[k].action = items[l].action => k = l
      /\ \A k, l \in DOMAIN items' : items'[k].action = items'[l].action => k = l
  BY DEF IInv, EachActionOnce
<1>7. OutcomeIn(items', a) = inHand.outcome
  BY <1>5, <1>6, OutcomeOfItem
<1>8. ASSUME NEW i \in Actions, i # a PROVE OutcomeIn(items', i) = OutcomeIn(items, i)
  <2>1. CASE Collected(i)
    <3>1. PICK k \in DOMAIN items : items[k].action = i
      BY <2>1 DEF Collected
    <3>2. OutcomeIn(items, i) = items[k].outcome
      BY <1>6, <3>1, OutcomeOfItem
    <3>3. OutcomeIn(items', i) = items'[k].outcome
      BY <1>5, <1>6, <3>1, OutcomeOfItem
    <3> QED
      BY <1>5, <3>2, <3>3
  <2>2. CASE ~Collected(i)
    BY <1>5, <1>8, <2>2 DEF Collected, OutcomeIn
  <2> QED
    BY <2>1, <2>2
<1>9. Actions' = Actions
  BY DEF Record, request, Actions
<1> QED
  BY <1>1, <1>2, <1>3, <1>7, <1>8, <1>9 DEF Log

LEMMA SaveReturns ==
  ASSUME IInv, Save
  PROVE  cancelled \/ \A i \in Actions : Log[i] # "none"
<1> SUFFICES ASSUME ~cancelled, NEW i \in Actions PROVE OutcomeIn(items, i) # "none"
  BY DEF Log
<1>1. \A w \in Workers : pc[w] = "exit"
  BY DEF IInv, NoSendOnClosedChannel, Save
<1>2. i \in 1..fed
  BY <1>1, ExecutorAssumption DEF IInv, Shutdown, TypeOK, Actions
<1>3. ~Held(i)
  BY <1>1, <1>2 DEF IInv, BusyHolds, BusyPCs, PCs, Held, NoJob
<1>4. PICK k \in DOMAIN items : items[k].action = i
  BY <1>2, <1>3 DEF IInv, EachActionOnce, Collected, Shutdown, Save, NoResult, NoJob
<1>5. items[k] \in ItemRecords
  BY ElementOfSeq DEF IInv, TypeOK
<1>6. OutcomeIn(items, i) = items[k].outcome
  BY <1>4, OutcomeOfItem DEF IInv, EachActionOnce
<1> QED
  BY <1>5, <1>6 DEF ItemRecords, Buckets

(* The worker pool implements the one-action-at-a-time run its callers are *)
(* promised.                                                               *)
THEOREM RefinesSyncRun == Spec => ImplementsSyncRun
<1>1. Init => Run!Init
  <2> SUFFICES ASSUME Init PROVE Run!Init
    OBVIOUS
  <2>1. \A i \in Actions : OutcomeIn(items, i) = "none"
    BY DEF Init, OutcomeIn
  <2> QED
    BY <2>1 DEF Init, Run!Init, Run!Unsettled, Actions
<1>2. IInv /\ IInv' /\ [Next]_vars => [Run!Next]_Run!vars
  <2> SUFFICES ASSUME IInv, IInv', [Next]_vars PROVE [Run!Next]_Run!vars
    OBVIOUS
  <2> USE DEF Run!Next, Run!vars
  <2>1. CASE Cancel
    <3>1. Log' = Log
      BY <2>1, UnchangedOutcomes DEF Cancel, request
    <3> QED
      BY <2>1, <3>1 DEF Cancel, request, Run!Cancel, Log
  <2>2. CASE Record
    <3>1. inHand.action \in DOMAIN plan /\ inHand.outcome \in Run!Outcomes
      BY <2>2, RecordSettles DEF Actions, ItemRecords, Buckets, Run!Outcomes
    <3>2. ~(main = "returned") /\ UNCHANGED <<plan, cancelled, main>>
      BY <2>2 DEF Record, request, IInv, Shutdown
    <3>3. Run!Settle(inHand.action, inHand.outcome)
      BY <2>2, <3>2, RecordSettles DEF Run!Settle, Run!Unsettled, Log
    <3> QED
      BY <3>1, <3>3
  <2>3. CASE Save
    <3>1. Log' = Log
      BY <2>3, UnchangedOutcomes DEF Save, request
    <3>2. Run!Return
      BY <2>3, <3>1, SaveReturns DEF Save, request, Run!Return, Run!Unsettled, Log, Actions
    <3> QED
      BY <3>2
  <2>4. CASE UNCHANGED <<plan, items, cancelled, main>>
    <3>1. Log' = Log
      BY <2>4, UnchangedOutcomes
    <3> QED
      BY <2>4, <3>1 DEF Log
  <2>5. ASSUME main' # main, main' # "returned", main # "returned", UNCHANGED <<plan, items, cancelled>>
        PROVE  [Run!Next]_Run!vars
    <3>1. Log' = Log
      BY <2>5, UnchangedOutcomes
    <3> QED
      BY <2>5, <3>1 DEF Log
  <2>6. CASE CloseResults \/ CollectorDone
    BY <2>5, <2>6 DEF CloseResults, CollectorDone, request
  <2>7. CASE FeederCheck \/ UNCHANGED vars
    BY <2>4, <2>7 DEF FeederCheck, FeedUnless, vars, request
  <2>8. ASSUME NEW w \in Workers, Handoff(w) \/ WorkerExit(w) \/ Deliver(w) \/ LocalStep(w)
        PROVE  [Run!Next]_Run!vars
    BY <2>4, <2>8 DEF Handoff, WorkerExit, Deliver, LocalStep, request
  <2> QED
    BY <2>1, <2>2, <2>3, <2>6, <2>7, <2>8, StepKinds
<1> QED
  BY <1>1, <1>2, Invariance, PTL DEF Spec, ImplementsSyncRun, Run!Spec

-----------------------------------------------------------------------------
(* The progress sink.  An action is announced by the step that takes its   *)
(* worker out of "start" and completed by the step that takes it to        *)
(* "deliver"; afterwards it is on its way to the collector or recorded.    *)

Begun(i) == \E w \in Workers : job[w] = i /\ pc[w] # "start"
Ended(i) == \E w \in Workers : job[w] = i /\ pc[w] = "deliver"
Out(i) == inHand.action = i \/ Collected(i)

SinkInv ==
  \A i \in Actions :
    /\ started[i] = IF Begun(i) \/ Out(i) THEN 1 ELSE 0
    /\ completed[i] = IF Ended(i) \/ Out(i) THEN 1 ELSE 0

(* A worker's step from "start" or a later point to a later point.         *)
Advance(w, p) ==
  /\ pc[w] \in BusyPCs \ {"deliver"} /\ p \in BusyPCs \ {"start"}
  /\ pc' = [pc EXCEPT ![w] = p]
  /\ started' = IF pc[w] = "start" THEN Mark(started, w) ELSE started
  /\ completed' = IF p = "deliver" THEN Mark(completed, w) ELSE completed
  /\ UNCHANGED <<plan, job, inHand, items>>

LEMMA ExecuteAdvances ==
  ASSUME NEW w \in Workers,
         \/ ExecuteSimple(w) \/ PrepareClone(w) \/ TryClone(w) \/ GitReturns(w)
         \/ WakeUp(w) \/ RemoveKey(w) \/ PostSync(w)
  PROVE  \E p \in BusyPCs : Advance(w, p)
<1> USE DEF Advance, BusyPCs, PCs, untouched, observed, request
<1>1. CASE ExecuteSimple(w)
  <2>1. Advance(w, "deliver")
    BY <1>1 DEF ExecuteSimple, Finish
  <2> QED
    BY <2>1
<1>2. CASE PrepareClone(w)
  <2>1. Advance(w, "deliver") \/ Advance(w, "try")
    BY <1>2 DEF PrepareClone, Finish
  <2> QED
    BY <2>1
<1>3. CASE TryClone(w)
  <2>1. Advance(w, "cleanup") \/ Advance(w, "git")
    BY <1>3 DEF TryClone
  <2> QED
    BY <2>1
<1>4. CASE GitReturns(w)
  <2>1. Advance(w, "cleanup") \/ Advance(w, "sleep")
    BY <1>4 DEF GitReturns, AfterGit
  <2> QED
    BY <2>1
<1>5. CASE WakeUp(w)
  <2>1. Advance(w, "try")
    BY <1>5 DEF WakeUp
  <2> QED
    BY <2>1
<1>6. CASE RemoveKey(w)
  <2>1. Advance(w, "post") \/ Advance(w, "deliver")
    BY <1>6 DEF RemoveKey, Finish
  <2> QED
    BY <2>1
<1>7. CASE PostSync(w)
  <2>1. Advance(w, "deliver")
    BY <1>7 DEF PostSync, Finish
  <2> QED
    BY <2>1
<1> QED
  BY <1>1, <1>2, <1>3, <1>4, <1>5, <1>6, <1>7

LEMMA SinkAdvance ==
  ASSUME IInv, SinkInv, NEW w \in Workers, NEW p \in BusyPCs, Advance(w, p)
  PROVE  SinkInv'
<1>1. TypeOK /\ job[w] \in Actions /\ job[w] # NoJob /\ Actions' = Actions
  BY BusyJob DEF IInv, Advance, BusyHolds, Actions
<1>2. ~Out(job[w])
  BY <1>1 DEF IInv, EachActionOnce, Held, Out
<1>3. \A v \in Workers : job[v] = job[w] => v = w
  BY <1>1 DEF IInv, EachActionOnce
<1>4. /\ pc' = [pc EXCEPT ![w] = p] /\ pc \in [Workers -> PCs] /\ UNCHANGED <<job, inHand, items>>
      /\ p # "start" /\ pc[w] # "deliver"
  BY <1>1 DEF Advance, TypeOK
<1>5. \A i : Out(i)' <=> Out(i)
  BY <1>4 DEF Out, Collected
<1>6. ASSUME NEW i \in Actions, i # job[w]
      PROVE  (Begun(i)' <=> Begun(i)) /\ (Ended(i)' <=> Ended(i)) /\ started'[i] = started[i] /\ completed'[i] = completed[i]
  <2>1. (Begun(i)' <=> Begun(i)) /\ (Ended(i)' <=> Ended(i))
    BY <1>4, <1>6 DEF Begun, Ended
  <2>2. started'[i] = started[i] /\ completed'[i] = completed[i]
    BY <1>1, <1>6 DEF Advance, Mark, TypeOK
  <2> QED
    BY <2>1, <2>2
<1>7. (Begun(job[w]) <=> pc[w] # "start") /\ ~Ended(job[w])
  BY <1>3, <1>4 DEF Begun, Ended
<1>8. Begun(job[w])' /\ (Ended(job[w])' <=> p = "deliver")
  BY <1>3, <1>4 DEF Begun, Ended
<1>9. started'[job[w]] = 1 /\ completed'[job[w]] = IF p = "deliver" THEN 1 ELSE 0
  BY <1>1, <1>2, <1>7 DEF Advance, Mark, SinkInv, TypeOK
<1>10. ASSUME NEW i \in Actions, i = job[w]
       PROVE  /\ started'[i] = IF Begun(i)' \/ Out(i)' THEN 1 ELSE 0
              /\ completed'[i] = IF Ended(i)' \/ Out(i)' THEN 1 ELSE 0
  BY <1>2, <1>4, <1>5, <1>8, <1>9, <1>10
<1>11. ASSUME NEW i \in Actions, i # job[w]
       PROVE  /\ started'[i] = IF Begun(i)' \/ Out(i)' THEN 1 ELSE 0
              /\ completed'[i] = IF Ended(i)' \/ Out(i)' THEN 1 ELSE 0
  BY <1>5, <1>6, <1>11 DEF SinkInv
<1> QED
  BY <1>1, <1>10, <1>11 DEF SinkInv

LEMMA SinkStep ==
  ASSUME IInv, SinkInv, [Next]_vars
  PROVE  SinkInv'
<1>0. TypeOK /\ BusyHolds /\ EachActionOnce
  BY DEF IInv
<1>n. \A i \in Actions : i # NoJob /\ i \in Nat
  BY <1>0 DEF TypeOK, Actions, NoJob
<1>1. CASE UNCHANGED <<plan, pc, job, inHand, items, started, completed>>
  BY <1>1 DEF SinkInv, Begun, Ended, Out, Collected, Actions
<1>2. ASSUME NEW w \in Workers, Handoff(w) \/ WorkerExit(w) PROVE SinkInv'
  <2>1. /\ UNCHANGED <<plan, inHand, items, started, completed>>
        /\ pc[w] = "recv" /\ job[w] = NoJob
        /\ \A v \in Workers : v # w => pc'[v] = pc[v] /\ job'[v] = job[v]
        /\ pc'[w] \in {"start", "exit"}
        /\ job'[w] # NoJob => pc'[w] = "start"
    BY <1>0, <1>2 DEF Handoff, WorkerExit, request, observed, TypeOK, BusyHolds, BusyPCs, PCs
  <2>2. \A i \in Actions : (Begun(i)' <=> Begun(i)) /\ (Ended(i)' <=> Ended(i)) /\ (Out(i)' <=> Out(i))
    BY <1>n, <2>1 DEF Begun, Ended, Out, Collected
  <2> QED
    BY <2>1, <2>2 DEF SinkInv, Actions
<1>3. ASSUME NEW w \in Workers, Deliver(w) PROVE SinkInv'
  <2>1. pc[w] = "deliver" /\ pc[w] \in BusyPCs
    BY <1>3 DEF Deliver, BusyPCs, PCs
  <2>2. job[w] \in Actions /\ job[w] # NoJob
    BY <1>0, <2>1, BusyJob DEF BusyHolds
  <2>3. /\ UNCHANGED <<plan, items, started, completed>>
        /\ inHand.action = NoJob /\ inHand'.action = job[w]
        /\ \A v \in Workers : v # w => pc'[v] = pc[v] /\ job'[v] = job[v]
        /\ job'[w] = NoJob
    BY <1>0, <1>3 DEF Deliver, request, observed, TypeOK, NoResult
  <2>4. \A v \in Workers : job[v] = job[w] => v = w
    BY <1>0, <2>2 DEF EachActionOnce
  <2>5. \A i \in Actions : i = job[w] => Begun(i) /\ Ended(i) /\ Out(i)'
    BY <2>1, <2>3 DEF Begun, Ended, Out
  <2>6. \A i \in Actions : i # job[w] => (Begun(i)' <=> Begun(i)) /\ (Ended(i)' <=> Ended(i)) /\ (Out(i)' <=> Out(i))
    BY <1>n, <2>3 DEF Begun, Ended, Out, Collected
  <2> QED
    BY <2>3, <2>5, <2>6 DEF SinkInv, Actions
<1>4. CASE Record
  <2>1. inHand \in ItemRecords /\ items \in Seq(ItemRecords)
    BY <1>0, <1>4 DEF Record, TypeOK
  <2>2. /\ UNCHANGED <<plan, pc, job, started, completed>>
        /\ items' = Append(items, inHand) /\ inHand'.action = NoJob
    BY <1>4 DEF Record, request, workerVars, observed, NoResult
  <2>3. \A i : Collected(i)' <=> Collected(i) \/ i = inHand.action
    BY <2>1, <2>2, AppendItem DEF Collected
  <2>4. \A i \in Actions : (Begun(i)' <=> Begun(i)) /\ (Ended(i)' <=> Ended(i)) /\ (Out(i)' <=> Out(i))
    BY <1>n, <2>2, <2>3 DEF Begun, Ended, Out
  <2> QED
    BY <2>2, <2>4 DEF SinkInv, Actions
<1>5. CASE Cancel \/ FeederCheck \/ CloseResults \/ CollectorDone \/ Save \/ UNCHANGED vars
  BY <1>1, <1>5 DEF Cancel, FeederCheck, FeedUnless, CloseResults, CollectorDone, Save, vars, workerVars, request, observed
<1> QED
  BY <1>2, <1>3, <1>4, <1>5, ExecuteAdvances, SinkAdvance DEF Next, Returned

(* The sink hears the start and the completion of every action that has an *)
(* outcome, once each, and of no other action.                             *)
THEOREM SinkHearsEachActionOnceHolds == Spec => []SinkHearsEachActionOnce
<1>1. Init => SinkInv
  <2> SUFFICES ASSUME Init PROVE SinkInv
    OBVIOUS
  <2>1. \A i \in Actions : i # NoJob
    BY ExecutorAssumption DEF Init, Actions, NoJob
  <2> QED
    BY <2>1 DEF Init, SinkInv, Begun, Ended, Out, Collected, NoResult, Counter, Actions
<1>2. IInv /\ SinkInv /\ [Next]_vars => SinkInv'
  BY SinkStep
<1>3. IInv /\ SinkInv => SinkHearsEachActionOnce
  <2> SUFFICES ASSUME IInv, SinkInv, main = "returned", NEW i \in Actions
               PROVE  LET n == IF Collected(i) THEN 1 ELSE 0
                      IN  started[i] = n /\ completed[i] = n
    BY DEF SinkHearsEachActionOnce
  <2>1. i # NoJob /\ inHand.action = NoJob
    BY DEF IInv, TypeOK, Actions, NoJob, Shutdown, NoResult
  <2>2. \A w \in Workers : job[w] = NoJob
    BY DEF IInv, NoSendOnClosedChannel, BusyHolds, BusyPCs, PCs
  <2>3. ~Begun(i) /\ ~Ended(i) /\ (Out(i) <=> Collected(i))
    BY <2>1, <2>2 DEF Begun, Ended, Out
  <2> QED
    BY <2>3 DEF SinkInv
<1> QED
  BY Invariance, <1>1, <1>2, <1>3, PTL DEF Spec

-----------------------------------------------------------------------------
(* The session.                                                            *)

Through == {t \in Targets : stage[t] \in {"closing", "settled"}}

(* An idle process has forgotten everything but the disk.                  *)
IdleIsFresh ==
  /\ caller = "idle" =>
       /\ orch = "off" /\ failure = "none" /\ orchCancelled = FALSE
       /\ screen = "off" /\ allDone = FALSE
  /\ orch \in {"off", "load", "plan"} =>
       counted = 0 /\ outcome = Nothing /\ stage = [t \in Targets |-> "out"]

(* Where the bridge is: it has counted exactly the actions that are        *)
(* through, each after its completion was taken by the event loop.         *)
BridgeInv ==
  /\ call.ui = "tui" => counted = Cardinality(Through)
  /\ call.ui = "plain" =>
       screen = "off" /\ \A t \in Targets : stage[t] \notin {"telling", "counting", "closing"}
  /\ \A t \in Targets : stage[t] \in {"telling", "counting", "closing", "settled"} => outcome[t] # "none"
  /\ screen = "up" => \A t \in Targets : stage[t] \in {"counting", "closing", "settled"} => t \in shown
  /\ \A t \in Targets : stage[t] = "closing" => counted = Cardinality(Targets)
  /\ allDone => screen # "up"

UIInv == SessionTypeOK /\ IdleIsFresh /\ BridgeInv /\ AllDoneMeansAllShown

LEMMA CallTypes == SessionAssumption /\ SessionTypeOK => call \in [ui : {"tui", "plain"}, resume : BOOLEAN, dryRun : BOOLEAN]
<1>1. NoCall \in [ui : {"tui", "plain"}, resume : BOOLEAN, dryRun : BOOLEAN]
  BY DEF NoCall
<1> QED
  BY <1>1 DEF SessionAssumption, SessionTypeOK

LEMMA FileTypes ==
  /\ Nothing \in Items
  /\ \A entries \in Items : Whole(entries) \in [whole : BOOLEAN, items : Items] /\ Whole(entries).items = entries /\ Whole(entries).whole
  /\ Torn \in [whole : BOOLEAN, items : Items] /\ Torn.items = Nothing
  /\ Missing \in [whole : BOOLEAN, items : Items] /\ Missing.items = Nothing /\ Missing.whole
<1>1. Nothing \in Items
  BY DEF Nothing, Items, Outcomes
<1>2. \A entries \in Items : Whole(entries) \in [whole : BOOLEAN, items : Items] /\ Whole(entries).items = entries /\ Whole(entries).whole
  BY DEF Whole
<1>3. Torn \in [whole : BOOLEAN, items : Items] /\ Torn.items = Nothing
  BY <1>1 DEF Torn
<1> QED
  BY <1>1, <1>2, <1>3 DEF Missing

LEMMA CountTypes ==
  SessionAssumption => /\ Cardinality(Targets) \in Nat \ {0}
                       /\ IsFiniteSet(Through) /\ Cardinality(Through) \in 0..Cardinality(Targets)
<1> SUFFICES ASSUME SessionAssumption
             PROVE  /\ Cardinality(Targets) \in Nat \ {0}
                    /\ IsFiniteSet(Through) /\ Cardinality(Through) \in 0..Cardinality(Targets)
  OBVIOUS
<1>1. IsFiniteSet(Targets) /\ Targets # {}
  BY DEF SessionAssumption
<1>2. Cardinality(Targets) \in Nat /\ Cardinality(Targets) # 0
  BY <1>1, FS_CardinalityType, FS_EmptySet
<1>3. Through \in SUBSET Targets
  BY DEF Through
<1>4. IsFiniteSet(Through) /\ Cardinality(Through) <= Cardinality(Targets)
  BY <1>1, <1>3, FS_Subset
<1>5. Cardinality(Through) \in Nat
  BY <1>4, FS_CardinalityType
<1> QED
  BY <1>2, <1>4, <1>5

(* An action that is counted was not through before, so the counter stays  *)
(* below the number of targets until then.                                 *)
LEMMA OneMoreThrough ==
  ASSUME SessionAssumption, SessionTypeOK, NEW t \in Targets, stage[t] = "counting",
         NEW place \in {"closing", "settled"}, stage' = [stage EXCEPT ![t] = place]
  PROVE  Cardinality(Through') = Cardinality(Through) + 1 /\ Cardinality(Through) < Cardinality(Targets)
<1>1. Through' = Through \cup {t} /\ t \notin Through
  BY DEF Through, SessionTypeOK
<1>2. Cardinality(Through') = Cardinality(Through) + 1
  BY <1>1, CountTypes, FS_AddElement
<1>3. Through' \in SUBSET Targets
  BY DEF Through
<1>4. Cardinality(Through') <= Cardinality(Targets)
  BY <1>3, FS_Subset DEF SessionAssumption
<1> QED
  BY <1>2, <1>4, CountTypes

(* When the counter reaches the number of targets, every action is through.*)
LEMMA AllThrough ==
  ASSUME SessionAssumption, Cardinality(Through) = Cardinality(Targets)
  PROVE  Through = Targets
<1>1. Through \in SUBSET Targets
  BY DEF Through
<1> QED
  BY <1>1, FS_Subset DEF SessionAssumption

LEMMA InitUI == SessionAssumption /\ SessionInit => UIInv
<1> SUFFICES ASSUME SessionAssumption, SessionInit PROVE UIInv
  OBVIOUS
<1>1. Through = {}
  BY DEF Through, SessionInit
<1>2. Cardinality(Through) = 0
  BY <1>1, FS_EmptySet
<1>3. SessionTypeOK
  <2>1. 0 \in 0..MaxRuns /\ 0 \in 0..Cardinality(Targets)
    BY CountTypes DEF SessionAssumption
  <2>2. [t \in Targets |-> "out"] \in [Targets -> Stages]
    BY DEF Stages
  <2> QED
    BY <2>1, <2>2, FileTypes DEF SessionInit, SessionTypeOK
<1>4. IdleIsFresh /\ BridgeInv /\ AllDoneMeansAllShown
  BY <1>2 DEF SessionInit, IdleIsFresh, BridgeInv, AllDoneMeansAllShown, NoCall
<1> QED
  BY <1>3, <1>4 DEF UIInv

(* A process that ends leaves a fresh one behind.                          *)
LEMMA FreshUI ==
  ASSUME SessionAssumption, UIInv, Fresh, UNCHANGED <<disk, runs, synced, owed>>
  PROVE  UIInv'
<1>1. Through' = {}
  BY DEF Through, Fresh
<1>2. Cardinality(Through') = 0
  BY <1>1, FS_EmptySet
<1>3. SessionTypeOK'
  <2>1. 0 \in 0..Cardinality(Targets)
    BY CountTypes
  <2>2. [t \in Targets |-> "out"] \in [Targets -> Stages]
    BY DEF Stages
  <2> QED
    BY <2>1, <2>2, FileTypes DEF UIInv, SessionTypeOK, Fresh, disk
<1>4. IdleIsFresh' /\ BridgeInv' /\ AllDoneMeansAllShown'
  BY <1>2 DEF Fresh, IdleIsFresh, BridgeInv, AllDoneMeansAllShown, NoCall, Nothing
<1> QED
  BY <1>3, <1>4 DEF UIInv

-----------------------------------------------------------------------------
(* Steps that leave the pool and the UI alone.                             *)

LEMMA OrchestratorUI ==
  ASSUME SessionAssumption, UIInv,
         LoadState \/ BeginSave \/ WriteTmp \/ RenameTmp \/ PoolDone
  PROVE  UIInv'
<1> USE DEF pool, tui, callVars, sessionObserved, disk
<1>0. UNCHANGED <<pool, tui, callVars, synced, owed>>
  BY DEF LoadState, BeginSave, WriteTmp, WriteAs, RenameTmp, PoolDone
<1>1. SessionTypeOK'
  <2>1. CASE LoadState
    BY <1>0, <2>1, FileTypes DEF LoadState, UIInv, SessionTypeOK
  <2>2. CASE BeginSave
    BY <1>0, <2>2, FileTypes DEF BeginSave, UIInv, SessionTypeOK
  <2>3. CASE WriteTmp
    BY <1>0, <2>3, FileTypes DEF WriteTmp, WriteAs, UIInv, SessionTypeOK
  <2>4. CASE RenameTmp
    BY <1>0, <2>4, FileTypes DEF RenameTmp, UIInv, SessionTypeOK
  <2>5. CASE PoolDone
    BY <1>0, <2>5 DEF PoolDone, UIInv, SessionTypeOK
  <2> QED
    BY <2>1, <2>2, <2>3, <2>4, <2>5
<1>2. IdleIsFresh'
  BY <1>0 DEF LoadState, BeginSave, WriteTmp, WriteAs, RenameTmp, PoolDone, UIInv, IdleIsFresh
<1>3. Through' = Through
  BY <1>0 DEF Through
<1>4. BridgeInv' /\ AllDoneMeansAllShown'
  BY <1>0, <1>3 DEF UIInv, BridgeInv, AllDoneMeansAllShown
<1> QED
  BY <1>1, <1>2, <1>4 DEF UIInv

LEMMA InvokeUI ==
  ASSUME SessionAssumption, UIInv, NEW c \in Calls, Invoke(c)
  PROVE  UIInv'
<1> USE DEF pool, disk
<1>0. UNCHANGED <<pool, counted, disk>> /\ Through' = Through
  BY DEF Invoke, Through
<1>1. c.ui \in {"tui", "plain"}
  BY DEF SessionAssumption
<1>2. SessionTypeOK'
  BY <1>0, <1>1 DEF Invoke, UIInv, SessionTypeOK, SessionAssumption
<1>3. IdleIsFresh'
  BY <1>0, <1>1 DEF Invoke, UIInv, IdleIsFresh
<1>4. Through = {}
  BY DEF Invoke, UIInv, IdleIsFresh, Through
<1>5. counted = Cardinality(Through)
  BY <1>4, FS_EmptySet DEF Invoke, UIInv, IdleIsFresh
<1>6. BridgeInv' /\ AllDoneMeansAllShown'
  BY <1>0, <1>1, <1>5 DEF Invoke, UIInv, IdleIsFresh, BridgeInv, AllDoneMeansAllShown
<1> QED
  BY <1>2, <1>3, <1>6 DEF UIInv

LEMMA LeaveUI ==
  ASSUME SessionAssumption, UIInv, CtrlC \/ LeaveScreen
  PROVE  UIInv'
<1> USE DEF pool, tui, orchVars, disk
<1>0. UNCHANGED <<pool, counted, disk, call>> /\ Through' = Through
  BY DEF CtrlC, LeaveScreen, Through, callVars
<1>1. SessionTypeOK'
  <2>1. CASE CtrlC
    BY <1>0, <2>1 DEF CtrlC, UIInv, SessionTypeOK, sessionObserved, callVars
  <2>2. CASE LeaveScreen
    BY <1>0, <2>2 DEF LeaveScreen, UIInv, SessionTypeOK, sessionObserved
  <2> QED
    BY <2>1, <2>2
<1>2. IdleIsFresh'
  BY <1>0 DEF CtrlC, LeaveScreen, UIInv, IdleIsFresh, callVars
<1>3. BridgeInv' /\ AllDoneMeansAllShown'
  BY <1>0 DEF CtrlC, LeaveScreen, UIInv, BridgeInv, AllDoneMeansAllShown, callVars
<1> QED
  BY <1>1, <1>2, <1>3 DEF UIInv

-----------------------------------------------------------------------------
(* Steps of the pool and of the bridge.                                    *)

LEMMA PoolUI ==
  ASSUME SessionAssumption, UIInv,
         NEW t \in Targets, MakePlan \/ Offer(t) \/ Start(t) \/ Work(t) \/ Tell(t)
  PROVE  UIInv'
<1> USE DEF callVars, orchVars, disk, tui
<1>0. UNCHANGED <<callVars, counted, disk, allDone, screen>>
  BY DEF MakePlan, PlanWithout, Offer, Start, Work, Tell
<1>1. SessionTypeOK'
  <2>1. CASE MakePlan
    BY <1>0, <2>1 DEF MakePlan, PlanWithout, UIInv, SessionTypeOK, sessionObserved, Stages
  <2>2. CASE Offer(t) \/ Start(t) \/ Tell(t)
    BY <1>0, <2>2 DEF Offer, Start, Tell, UIInv, SessionTypeOK, sessionObserved, Stages
  <2>3. CASE Work(t)
    BY <1>0, <2>3 DEF Work, UIInv, SessionTypeOK, Stages, Items, Outcomes
  <2> QED
    BY <2>1, <2>2, <2>3
<1>2. IdleIsFresh'
  BY <1>0 DEF MakePlan, PlanWithout, Offer, Start, Work, Tell, UIInv, IdleIsFresh
<1>3. call.ui = "tui" => Through' = Through
  <2>1. CASE MakePlan
    BY <2>1 DEF MakePlan, PlanWithout, UIInv, IdleIsFresh, Through
  <2>2. CASE Offer(t) \/ Start(t) \/ Work(t) \/ Tell(t)
    BY <2>2 DEF Offer, Start, Work, Tell, UIInv, SessionTypeOK, Through
  <2> QED
    BY <2>1, <2>2
<1>4. BridgeInv'
  <2>1. CASE MakePlan
    BY <1>0, <1>3, <2>1 DEF MakePlan, PlanWithout, UIInv, BridgeInv
  <2>2. CASE Offer(t) \/ Start(t)
    BY <1>0, <1>3, <2>2 DEF Offer, Start, UIInv, SessionTypeOK, BridgeInv
  <2>3. CASE Work(t)
    <3>1. outcome' \in [Targets -> Outcomes] /\ outcome'[t] # "none" /\ \A u \in Targets \ {t} : outcome'[u] = outcome[u]
      BY <2>3 DEF Work, UIInv, SessionTypeOK, Items, Outcomes
    <3>2. /\ stage' = [stage EXCEPT ![t] = IF call.ui = "tui" THEN "telling" ELSE "settled"]
          /\ shown' = shown
      BY <2>3 DEF Work
    <3>3. call.ui \in {"tui", "plain"}
      BY CallTypes DEF UIInv
    <3> HIDE DEF Work
    <3> QED
      BY <1>0, <1>3, <3>1, <3>2, <3>3 DEF UIInv, SessionTypeOK, BridgeInv
  <2>4. CASE Tell(t)
    BY <1>0, <1>3, <2>4 DEF Tell, UIInv, SessionTypeOK, BridgeInv
  <2> QED
    BY <2>1, <2>2, <2>3, <2>4
<1>5. AllDoneMeansAllShown'
  <2>1. CASE MakePlan \/ Offer(t) \/ Start(t) \/ Tell(t)
    BY <1>0, <2>1 DEF MakePlan, PlanWithout, Offer, Start, Tell, UIInv, SessionTypeOK, AllDoneMeansAllShown
  <2>2. CASE Work(t)
    BY <1>0, <2>2 DEF Work, UIInv, SessionTypeOK, AllDoneMeansAllShown
  <2> QED
    BY <2>1, <2>2
<1> QED
  BY <1>1, <1>2, <1>4, <1>5 DEF UIInv

LEMMA CountUpUI ==
  ASSUME SessionAssumption, UIInv, NEW t \in Targets, CountUp(t)
  PROVE  UIInv'
<1> USE DEF callVars, orchVars, disk, sessionObserved
<1>0. /\ stage[t] = "counting" /\ counted' = counted + 1
      /\ stage' = [stage EXCEPT ![t] = IF counted' = Cardinality(Targets) THEN "closing" ELSE "settled"]
      /\ UNCHANGED <<disk, callVars, orchVars, outcome, screen, shown, allDone, quitting, sessionObserved>>
  BY DEF CountUp, CountTo
<1>1. call.ui = "tui" /\ counted = Cardinality(Through)
  BY <1>0, CallTypes DEF UIInv, BridgeInv
<1>2. Cardinality(Through') = counted + 1 /\ counted < Cardinality(Targets)
  BY <1>0, <1>1, OneMoreThrough DEF UIInv
<1>3. SessionTypeOK'
  BY <1>0, <1>2, CountTypes DEF UIInv, SessionTypeOK, Stages
<1>4. IdleIsFresh'
  BY <1>0 DEF UIInv, IdleIsFresh
<1>5. \A u \in Targets : stage[u] # "closing"
  BY <1>1, <1>2, CountTypes DEF UIInv, BridgeInv
<1>6. BridgeInv'
  BY <1>0, <1>1, <1>2, <1>5, CountTypes DEF UIInv, SessionTypeOK, BridgeInv
<1>7. AllDoneMeansAllShown'
  BY <1>0 DEF UIInv, AllDoneMeansAllShown
<1> QED
  BY <1>3, <1>4, <1>6, <1>7 DEF UIInv

LEMMA AnnounceUI ==
  ASSUME SessionAssumption, UIInv, NEW t \in Targets, Announce(t)
  PROVE  UIInv'
<1> USE DEF callVars, orchVars, disk, sessionObserved
<1>0. /\ stage[t] = "closing"
      /\ stage' = [stage EXCEPT ![t] = "settled"]
      /\ UNCHANGED <<disk, callVars, orchVars, outcome, shown, quitting, counted, sessionObserved>>
  BY DEF Announce
<1>1. call.ui = "tui" /\ counted = Cardinality(Through) /\ counted = Cardinality(Targets)
  BY <1>0, CallTypes DEF UIInv, BridgeInv
<1>2. Through = Targets
  BY <1>1, AllThrough
<1>3. Through' = Through
  BY <1>0 DEF UIInv, SessionTypeOK, Through
<1>4. SessionTypeOK'
  <2>1. stage' \in [Targets -> Stages]
    BY <1>0 DEF UIInv, SessionTypeOK, Stages
  <2>2. allDone' \in BOOLEAN /\ screen' \in {"off", "up", "down"}
    BY DEF Announce, UIInv, SessionTypeOK
  <2> QED
    BY <1>0, <2>1, <2>2 DEF UIInv, SessionTypeOK
<1>5. IdleIsFresh'
  BY <1>0 DEF Announce, UIInv, IdleIsFresh
<1>6. AllDoneMeansAllShown'
  BY <1>0, <1>2 DEF Announce, UIInv, SessionTypeOK, BridgeInv, AllDoneMeansAllShown, Through
<1>7. BridgeInv'
  BY <1>0, <1>1, <1>3 DEF Announce, UIInv, SessionTypeOK, BridgeInv
<1> QED
  BY <1>4, <1>5, <1>6, <1>7 DEF UIInv

LEMMA StepUI == SessionAssumption /\ UIInv /\ [SessionNext]_sessionVars => UIInv'
<1> SUFFICES ASSUME SessionAssumption, UIInv, [SessionNext]_sessionVars PROVE UIInv'
  OBVIOUS
<1>1. CASE Kill \/ Report
  BY <1>1, FreshUI DEF Kill, Report, ReportCode
<1>2. CASE LoadState \/ BeginSave \/ WriteTmp \/ RenameTmp \/ PoolDone
  BY <1>2, OrchestratorUI
<1>3. ASSUME NEW c \in Calls, Invoke(c) PROVE UIInv'
  BY <1>3, InvokeUI
<1>4. CASE CtrlC \/ LeaveScreen
  BY <1>4, LeaveUI
<1>5. ASSUME NEW t \in Targets, Offer(t) \/ Start(t) \/ Work(t) \/ Tell(t) PROVE UIInv'
  BY <1>5, PoolUI
<1>6. CASE MakePlan
  BY <1>6, PoolUI DEF SessionAssumption
<1>7. ASSUME NEW t \in Targets, CountUp(t) PROVE UIInv'
  BY <1>7, CountUpUI
<1>8. ASSUME NEW t \in Targets, Announce(t) PROVE UIInv'
  BY <1>8, AnnounceUI
<1>9. CASE UNCHANGED sessionVars
  BY <1>9 DEF sessionVars, disk, callVars, orchVars, pool, tui, sessionObserved, UIInv, SessionTypeOK, IdleIsFresh, BridgeInv, Through, AllDoneMeansAllShown
<1> QED
  BY <1>1, <1>2, <1>3, <1>4, <1>5, <1>6, <1>7, <1>8, <1>9 DEF SessionNext, Progress, NoMoreCalls

LEMMA AlwaysUI == SessionSpec => []UIInv
<1>1. SessionInit => UIInv
  BY SessionAssumption, InitUI
<1>2. UIInv /\ [SessionNext]_sessionVars => UIInv'
  BY SessionAssumption, StepUI
<1> QED
  BY <1>1, <1>2, PTL DEF SessionSpec

(* Every reachable state of a session is well typed.                       *)
THEOREM SessionTypeCorrect == SessionSpec => []SessionTypeOK
<1>1. UIInv => SessionTypeOK
  BY DEF UIInv
<1> QED
  BY AlwaysUI, <1>1, PTL

(* The UI closes by itself only after it has shown every action's          *)
(* completion (tuiProgressBridge.OnComplete, SyncProgressModel.Update).    *)
THEOREM AllDoneMeansAllShownHolds == SessionSpec => []AllDoneMeansAllShown
<1>1. UIInv => AllDoneMeansAllShown
  BY DEF UIInv
<1> QED
  BY AlwaysUI, <1>1, PTL

-----------------------------------------------------------------------------
(* The state file.                                                         *)

(* Nothing on the disk or in memory claims a target that was never synced, *)
(* and only what the loaded state has as done is left out of the plan.     *)
Claims(entries) == \A t \in Targets : entries[t] = "done" => t \in synced

DiskInv ==
  /\ ~call.dryRun
  /\ Claims(file.items) /\ Claims(tmp.items) /\ Claims(previous) /\ Claims(outcome)
  /\ orch \notin {"off", "load", "plan", "ended"} => \A t \in Targets : stage[t] = "out" => t \in synced

NoDryRuns == \A c \in Calls : ~c.dryRun

LEMMA NothingClaimed == Claims(Nothing)
  BY DEF Claims, Nothing

LEMMA InitDisk == SessionInit => DiskInv
  BY FileTypes, NothingClaimed DEF SessionInit, DiskInv, NoCall

LEMMA FreshDisk ==
  ASSUME DiskInv, Fresh, UNCHANGED <<disk, runs, synced, owed>>
  PROVE  DiskInv'
<1>1. Claims(file.items)' /\ Claims(tmp.items)'
  BY DEF DiskInv, disk, Claims
<1>2. Claims(previous)' /\ Claims(outcome)'
  BY DEF Fresh, Claims, Nothing
<1> QED
  BY <1>1, <1>2 DEF DiskInv, disk, Fresh, NoCall

(* Steps that touch neither the files nor the plan.                        *)
LEMMA QuietDisk ==
  ASSUME NoDryRuns, UIInv, DiskInv,
         NEW t \in Targets,
         \/ CtrlC \/ LeaveScreen \/ UNCHANGED sessionVars
         \/ Offer(t) \/ Start(t) \/ Tell(t) \/ CountUp(t) \/ Announce(t)
  PROVE  DiskInv'
<1>1. /\ UNCHANGED <<disk, call, orch, failure, previous, outcome, synced>>
      /\ stage' \in [Targets -> Stages] /\ \A u \in Targets : stage'[u] = "out" => stage[u] = "out"
  BY DEF CtrlC, LeaveScreen, sessionVars, Offer, Start, Tell, CountUp, CountTo, Announce, disk, callVars, orchVars, pool,
         sessionObserved, UIInv, SessionTypeOK, Stages
<1> QED
  BY <1>1 DEF DiskInv, Claims, disk

LEMMA PlanDisk ==
  ASSUME DiskInv, MakePlan
  PROVE  DiskInv'
<1>1. UNCHANGED <<disk, call, failure, previous, outcome, synced>> /\ orch' = "execute"
  BY DEF MakePlan, PlanWithout, callVars, sessionObserved
<1>2. \A t \in Targets : stage'[t] = "out" => previous[t] = "done"
  BY DEF MakePlan, PlanWithout
<1> QED
  BY <1>1, <1>2 DEF DiskInv, Claims, disk

LEMMA WorkDisk ==
  ASSUME UIInv, DiskInv, NEW t \in Targets, Work(t)
  PROVE  DiskInv'
<1>1. UNCHANGED <<disk, call, orch, failure, previous>>
  BY DEF Work, callVars, orchVars
<1>2. PICK o \in {"done", "failed"} :
        /\ outcome' = [outcome EXCEPT ![t] = o]
        /\ synced' = synced \cup {u \in {t} : o = "done" /\ ~call.dryRun}
  BY DEF Work, DiskInv
<1>3. \A u \in synced : u \in synced'
  BY <1>2
<1>4. Claims(outcome)'
  <2>1. ASSUME NEW u \in Targets, outcome'[u] = "done" PROVE u \in synced'
    <3>1. CASE u = t
      BY <1>2, <2>1, <3>1 DEF UIInv, SessionTypeOK, Items, DiskInv
    <3>2. CASE u # t
      BY <1>2, <1>3, <2>1, <3>2 DEF UIInv, SessionTypeOK, Items, DiskInv, Claims
    <3> QED
      BY <3>1, <3>2
  <2> QED
    BY <2>1 DEF Claims
<1>5. \A u \in Targets : stage'[u] = "out" => stage[u] = "out"
  BY DEF Work, UIInv, SessionTypeOK
<1> QED
  BY <1>1, <1>3, <1>4, <1>5 DEF DiskInv, Claims, disk

LEMMA StoreDisk ==
  ASSUME UIInv, DiskInv, LoadState \/ PoolDone \/ BeginSave \/ WriteTmp \/ RenameTmp
  PROVE  DiskInv'
<1>0. UNCHANGED <<call, stage, outcome, synced>>
  BY DEF LoadState, PoolDone, BeginSave, WriteTmp, WriteAs, RenameTmp, callVars, pool, sessionObserved
<1>1. CASE LoadState
  BY <1>0, <1>1, NothingClaimed DEF LoadState, DiskInv, Claims, disk
<1>2. CASE PoolDone
  BY <1>0, <1>2 DEF PoolDone, DiskInv, Claims, disk
<1>3. CASE BeginSave
  <2>1. UNCHANGED <<file, previous>> /\ orch' \in {"ended", "write"} /\ orch = "save"
    BY <1>3 DEF BeginSave
  <2>2. tmp' = tmp \/ tmp'.items = Nothing
    BY <1>3, FileTypes DEF BeginSave
  <2> QED
    BY <1>0, <2>1, <2>2, NothingClaimed DEF DiskInv, Claims
<1>4. CASE WriteTmp
  <2>1. Whole(outcome).items = outcome /\ Whole(outcome).whole
    BY FileTypes DEF UIInv, SessionTypeOK
  <2> QED
    <3>1. UNCHANGED <<file, previous>> /\ orch = "write" /\ orch' \in {"rename", "ended"}
      BY <1>4 DEF WriteTmp, WriteAs
    <3>2. tmp' = Whole(outcome) \/ (tmp' = tmp /\ orch' = "ended")
      BY <1>4 DEF WriteTmp, WriteAs
    <3> QED
      BY <1>0, <2>1, <3>1, <3>2 DEF DiskInv, Claims
<1>5. CASE RenameTmp
  BY <1>0, <1>5, FileTypes, NothingClaimed DEF RenameTmp, DiskInv, Claims
<1> QED
  BY <1>1, <1>2, <1>3, <1>4, <1>5

LEMMA StepDisk == NoDryRuns /\ UIInv /\ DiskInv /\ [SessionNext]_sessionVars => DiskInv'
<1> SUFFICES ASSUME NoDryRuns, UIInv, DiskInv, [SessionNext]_sessionVars PROVE DiskInv'
  OBVIOUS
<1>0. PICK s \in Targets : TRUE
  BY SessionAssumption DEF SessionAssumption
<1>1. CASE Kill \/ Report
  BY <1>1, FreshDisk DEF Kill, Report, ReportCode
<1>2. ASSUME NEW c \in Calls, Invoke(c) PROVE DiskInv'
  BY <1>2 DEF Invoke, DiskInv, NoDryRuns, Claims, pool, disk
<1>3. CASE LoadState \/ PoolDone \/ BeginSave \/ WriteTmp \/ RenameTmp
  BY <1>3, StoreDisk
<1>4. CASE MakePlan
  BY <1>4, PlanDisk
<1>5. ASSUME NEW t \in Targets, Work(t) PROVE DiskInv'
  BY <1>5, WorkDisk
<1>6. ASSUME NEW t \in Targets, Offer(t) \/ Start(t) \/ Tell(t) \/ CountUp(t) \/ Announce(t) PROVE DiskInv'
  BY <1>6, QuietDisk
<1>7. CASE CtrlC \/ LeaveScreen \/ UNCHANGED sessionVars
  BY <1>0, <1>7, QuietDisk
<1> QED
  BY <1>1, <1>2, <1>3, <1>4, <1>5, <1>6, <1>7 DEF SessionNext, Progress, NoMoreCalls

LEMMA AlwaysDisk == ASSUME NoDryRuns PROVE SessionSpec => []DiskInv
<1>1. SessionInit => DiskInv
  BY InitDisk
<1>2. UIInv /\ DiskInv /\ [SessionNext]_sessionVars => DiskInv'
  BY StepDisk
<1> QED
  BY <1>1, <1>2, AlwaysUI, PTL DEF SessionSpec

(* Whenever the process dies, the state file can be parsed                 *)
(* (FileStateStore.Save: temporary file, then rename).                     *)
THEOREM FileIsWholeHolds == SessionSpec => []FileIsWhole
<1> DEFINE Complete == file.whole /\ (orch = "rename" => tmp.whole)
<1>1. SessionInit => Complete
  BY FileTypes DEF SessionInit
<1>2. SessionTypeOK /\ Complete /\ [SessionNext]_sessionVars => Complete'
  <2> SUFFICES ASSUME SessionTypeOK, Complete, [SessionNext]_sessionVars PROVE Complete'
    OBVIOUS
  <2>1. CASE WriteTmp
    <3>1. Whole(outcome).whole
      BY FileTypes DEF SessionTypeOK
    <3> QED
      BY <2>1, <3>1 DEF WriteTmp, WriteAs
  <2>2. CASE RenameTmp \/ BeginSave \/ Kill \/ Report \/ UNCHANGED sessionVars
    BY <2>2 DEF RenameTmp, BeginSave, Kill, Report, ReportCode, Fresh, sessionVars, disk, orchVars
  <2>3. CASE LoadState \/ MakePlan \/ PoolDone \/ LeaveScreen \/ CtrlC \/ \E c \in Calls : Invoke(c)
    BY <2>3 DEF LoadState, MakePlan, PlanWithout, PoolDone, LeaveScreen, CtrlC, Invoke, disk, orchVars
  <2>4. CASE \E t \in Targets : Offer(t) \/ Start(t) \/ Work(t) \/ Tell(t) \/ CountUp(t) \/ Announce(t)
    BY <2>4 DEF Offer, Start, Work, Tell, CountUp, CountTo, Announce, disk, orchVars
  <2> QED
    BY <2>1, <2>2, <2>3, <2>4 DEF SessionNext, Progress, NoMoreCalls
<1>3. Complete => FileIsWhole
  BY DEF FileIsWhole
<1> QED
  BY <1>1, <1>2, <1>3, SessionTypeCorrect, PTL DEF SessionSpec

(* Without dry runs the state file never has a target as done that no run  *)
(* has synced.                                                             *)
THEOREM FileNeverOverclaimsHolds == ASSUME NoDryRuns PROVE SessionSpec => []FileNeverOverclaims
<1>1. DiskInv => FileNeverOverclaims
  BY DEF DiskInv, Claims, FileNeverOverclaims
<1> QED
  BY AlwaysDisk, <1>1, PTL

(* Without dry runs a resumed run leaves out no target that was never      *)
(* synced (filterCompleted).                                               *)
THEOREM ResumeKeepsTheUnsyncedHolds == ASSUME NoDryRuns PROVE SessionSpec => []ResumeKeepsTheUnsynced
<1>1. UIInv /\ DiskInv => ResumeKeepsTheUnsynced
  BY DEF DiskInv, ResumeKeepsTheUnsynced
<1> QED
  BY AlwaysDisk, AlwaysUI, <1>1, PTL

-----------------------------------------------------------------------------
(* Success.                                                                *)

(* A sync that is neither resumed nor a dry run: what is done is not owed  *)
(* any more.                                                               *)
Plain == caller # "idle" /\ ~call.resume /\ ~call.dryRun

(* Unless the user quits: every target is in the plan, all are settled     *)
(* when the pool is done, and without an error the file is what they came  *)
(* to.                                                                     *)
InOrder ==
  /\ orch \in {"execute", "save", "write", "rename", "ended"} => \A t \in Targets : stage[t] # "out"
  /\ orch \in {"save", "write", "rename", "ended"} => \A t \in Targets : stage[t] = "settled"
  /\ orch = "rename" => tmp = Whole(outcome)
  /\ orch = "ended" /\ failure = "none" => file = Whole(outcome)

CleanInv ==
  /\ orchCancelled => quitting
  /\ Plain => /\ orch = "plan" => previous = Nothing
              /\ \A t \in Targets : outcome[t] = "done" => t \notin owed
              /\ ~quitting => InOrder
  /\ CleanExitMeansSynced

LEMMA InitClean == SessionInit => CleanInv
  BY DEF SessionInit, CleanInv, Plain, CleanExitMeansSynced

LEMMA ReportClean ==
  ASSUME UIInv, CleanInv, Report
  PROVE  CleanInv'
<1> DEFINE code == IF (failure # "none" /\ ~quitting) \/ \E t \in Targets : outcome[t] = "failed" THEN "error" ELSE "ok"
<1>1. caller = "await" /\ orch = "ended" /\ UNCHANGED <<file, owed>> /\ last' = [code |-> code, quit |-> quitting, call |-> call]
  BY DEF Report, ReportCode, disk
<1>2. caller' = "idle" /\ ~orchCancelled'
  BY DEF Report, ReportCode, Fresh
<1>3. ASSUME code = "ok", ~quitting, ~call.resume, ~call.dryRun
      PROVE  owed = {} /\ file = Whole([t \in Targets |-> "done"])
  <2>1. failure = "none" /\ \A t \in Targets : outcome[t] # "failed"
    BY <1>3
  <2>2. Plain
    BY <1>1, <1>3 DEF Plain
  <2>3. InOrder /\ \A t \in Targets : outcome[t] = "done" => t \notin owed
    BY <1>3, <2>2 DEF CleanInv
  <2>4. file = Whole(outcome) /\ \A t \in Targets : stage[t] = "settled"
    BY <1>1, <2>1, <2>3 DEF InOrder
  <2>5. outcome \in [Targets -> {"none", "done", "failed"}] /\ \A t \in Targets : outcome[t] # "none"
    BY <2>4 DEF UIInv, BridgeInv, SessionTypeOK, Items, Outcomes
  <2>6. outcome = [t \in Targets |-> "done"]
    BY <2>1, <2>5
  <2>7. owed \subseteq Targets
    BY DEF UIInv, SessionTypeOK
  <2> QED
    BY <2>3, <2>4, <2>6, <2>7
<1> HIDE DEF code
<1>4. CleanExitMeansSynced'
  BY <1>1, <1>3 DEF CleanExitMeansSynced
<1> QED
  BY <1>2, <1>4 DEF CleanInv, Plain

(* Steps of the orchestrator between the plan and the end.                 *)
LEMMA StoreClean ==
  ASSUME UIInv, CleanInv, LoadState \/ MakePlan \/ PoolDone \/ BeginSave \/ WriteTmp \/ RenameTmp
  PROVE  CleanInv'
<1>1. UNCHANGED <<callVars, orchCancelled, outcome, quitting, synced, owed, last>>
  BY DEF LoadState, MakePlan, PlanWithout, PoolDone, BeginSave, WriteTmp, WriteAs, RenameTmp, pool, tui, sessionObserved
<1>2. caller # "idle"
  BY DEF UIInv, IdleIsFresh, LoadState, MakePlan, PlanWithout, PoolDone, BeginSave, WriteTmp, WriteAs, RenameTmp
<1>3. CleanExitMeansSynced'
  BY <1>1, <1>2 DEF CleanExitMeansSynced, callVars
<1>4. orchCancelled' => quitting'
  BY <1>1 DEF CleanInv
<1>5. SUFFICES ASSUME Plain PROVE (orch' = "plan" => previous' = Nothing) /\ (~quitting => InOrder')
  BY <1>1, <1>3, <1>4 DEF CleanInv, Plain, callVars
<1>6. (orch = "plan" => previous = Nothing) /\ (~quitting => InOrder /\ ~orchCancelled)
  BY <1>5 DEF CleanInv
<1>7. CASE LoadState
  BY <1>5, <1>7 DEF LoadState, Plain, InOrder
<1>8. CASE MakePlan
  <2>1. orch' = "execute" /\ \A t \in Targets : stage'[t] # "out"
    BY <1>6, <1>8 DEF MakePlan, PlanWithout, Nothing
  <2> QED
    BY <2>1 DEF InOrder
<1>9. CASE PoolDone
  <2>1. UNCHANGED stage /\ orch' = "save" /\ orch = "execute"
    BY <1>9 DEF PoolDone, pool
  <2>2. ~quitting => \A t \in Targets : stage[t] = "settled"
    BY <1>6, <1>9 DEF PoolDone, InOrder
  <2> QED
    BY <2>1, <2>2 DEF InOrder
<1>10. CASE BeginSave
  <2>1. UNCHANGED <<stage, previous>> /\ orch = "save" /\ orch' \in {"ended", "write"} /\ (orch' = "ended" => orchCancelled)
    BY <1>10 DEF BeginSave, pool
  <2> QED
    BY <1>6, <2>1 DEF InOrder
<1>11. CASE WriteTmp
  <2>1. /\ UNCHANGED stage /\ orch = "write" /\ orch' \in {"rename", "ended"}
        /\ (orch' = "rename" => tmp' = Whole(outcome)) /\ (orch' = "ended" => failure' = "save")
    BY <1>11 DEF WriteTmp, WriteAs, pool
  <2> QED
    BY <1>1, <1>6, <2>1 DEF InOrder
<1>12. CASE RenameTmp
  <2>1. UNCHANGED stage /\ orch = "rename" /\ orch' = "ended" /\ file' = tmp
    BY <1>12 DEF RenameTmp, pool
  <2> QED
    BY <1>1, <1>6, <2>1 DEF InOrder
<1> QED
  BY <1>7, <1>8, <1>9, <1>10, <1>11, <1>12

(* Steps of the pool and of the UI, after which the orchestrator is where  *)
(* it was; a target that is done is owed no more.                          *)
LEMMA PoolClean ==
  ASSUME UIInv, CleanInv, NEW t \in Targets,
         Offer(t) \/ Start(t) \/ Work(t) \/ Tell(t) \/ CountUp(t) \/ Announce(t)
  PROVE  CleanInv'
<1>1. UNCHANGED <<disk, callVars, orchVars, quitting, last>> /\ owed' \subseteq owed
  BY DEF Offer, Start, Work, Tell, CountUp, CountTo, Announce, tui, sessionObserved
<1>2. stage[t] \notin {"out", "settled"} /\ stage'[t] # "out" /\ \A u \in Targets \ {t} : stage'[u] = stage[u]
  BY DEF Offer, Start, Work, Tell, CountUp, CountTo, Announce, UIInv, SessionTypeOK
<1>3. caller # "idle"
  BY <1>2 DEF UIInv, IdleIsFresh
<1>4. CleanExitMeansSynced'
  BY <1>1, <1>3 DEF CleanExitMeansSynced, callVars
<1>5. SUFFICES ASSUME Plain PROVE (\A u \in Targets : outcome'[u] = "done" => u \notin owed') /\ (~quitting => InOrder')
  BY <1>1, <1>4 DEF CleanInv, Plain, callVars, orchVars
<1>6. (\A u \in Targets : outcome[u] = "done" => u \notin owed) /\ (~quitting => InOrder)
  BY <1>5 DEF CleanInv
<1>7. ~quitting => InOrder'
  BY <1>1, <1>2, <1>6 DEF InOrder, orchVars
<1>8. CASE outcome' = outcome
  BY <1>1, <1>6, <1>7, <1>8
<1>9. CASE Work(t)
  <2>1. PICK o \in {"done", "failed"} : outcome' = [outcome EXCEPT ![t] = o] /\ owed' = owed \ {u \in {t} : o = "done" /\ ~call.dryRun}
    BY <1>9 DEF Work
  <2>2. ~call.dryRun
    BY <1>5 DEF Plain
  <2> QED
    BY <1>6, <1>7, <2>1, <2>2 DEF UIInv, SessionTypeOK, Items
<1> QED
  BY <1>8, <1>9 DEF Offer, Start, Tell, CountUp, CountTo, Announce

LEMMA StepClean == UIInv /\ CleanInv /\ [SessionNext]_sessionVars => CleanInv'
<1> SUFFICES ASSUME UIInv, CleanInv, [SessionNext]_sessionVars PROVE CleanInv'
  OBVIOUS
<1>1. CASE Kill
  BY <1>1 DEF Kill, Fresh, CleanInv, Plain, CleanExitMeansSynced
<1>2. ASSUME NEW c \in Calls, Invoke(c) PROVE CleanInv'
  <2>1. outcome = Nothing /\ orch' = "load" /\ UNCHANGED <<outcome, orchCancelled, quitting>> /\ caller' # "idle"
    BY <1>2 DEF Invoke, UIInv, IdleIsFresh, pool
  <2> QED
    BY <2>1 DEF CleanInv, Plain, InOrder, CleanExitMeansSynced, Nothing
<1>3. CASE CtrlC
  BY <1>3 DEF CtrlC, CleanInv, Plain, InOrder, CleanExitMeansSynced, disk, callVars, orchVars, pool, sessionObserved
<1>4. CASE LeaveScreen
  BY <1>4 DEF LeaveScreen, CleanInv, Plain, InOrder, CleanExitMeansSynced, disk, pool, tui, sessionObserved
<1>5. CASE UNCHANGED sessionVars
  BY <1>5 DEF sessionVars, CleanInv, Plain, InOrder, CleanExitMeansSynced, disk, callVars, orchVars, pool, tui, sessionObserved
<1> QED
  BY <1>1, <1>2, <1>3, <1>4, <1>5, ReportClean, StoreClean, PoolClean DEF SessionNext, Progress, NoMoreCalls

(* A sync that was neither resumed, a dry run, nor interrupted and reports *)
(* success has synced every target, and the state file says so             *)
(* (Orchestrator.Run, errSyncPartialFailure).                              *)
THEOREM CleanExitMeansSyncedHolds == SessionSpec => []CleanExitMeansSynced
<1>1. UIInv /\ CleanInv /\ [SessionNext]_sessionVars => CleanInv'
  BY StepClean
<1>2. CleanInv => CleanExitMeansSynced
  BY DEF CleanInv
<1> QED
  BY InitClean, <1>1, <1>2, AlwaysUI, PTL DEF SessionSpec
=============================================================================
