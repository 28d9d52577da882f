------------------------ MODULE ServerIngestJobsProofs ------------------------
(***************************************************************************)
(* The safety of the server's ingest jobs, for any finite set of jobs, any *)
(* sources and any window.  Each theorem adds the invariant it needs to    *)
(* the types, and holds for every combination of faults but for the last:  *)
(*   RetriesBounded     the row is never ahead of the run that raises it   *)
(*   SkippedIsComplete  pages before hash, hash before review items        *)
(*   CancelStopsWork    what was not taken up by the cancel is given up    *)
(*   NoJobForgotten     NoStuckJob is inductive by itself                  *)
(*   JobTyping          the positions of a run lie within each other       *)
(*   NothingRedone      a run has before it what its job has not as done   *)
(*   OutcomeTold        what a run counts is in the row, if updates of the *)
(*                      row do not fail                                    *)
(***************************************************************************)
EXTENDS ServerIngestJobs, FiniteSetTheorems, TLAPS

Induction == INSTANCE TaskQueueLemmas

-----------------------------------------------------------------------------
(* Typing, of what the first theorems depend on.  The whole type invariant *)
(* needs what Targets computes, and comes with it below.                   *)

AnyRun ==
    [job: Jobs, targets: {run.targets}, tries: Nat, out: Seq(Outputs), dead: BOOLEAN,
     received: Nat, done: {run.done}, skipped: {run.skipped}, wrote: {run.wrote},
     warned: {run.warned}, cohort: {"all", "some", "none"}, transient: {run.transient}]

Places == {"down", "recover", "pop", "fetch", "claim", "push"} \cup Busy

Typed ==
    /\ jobs \in [Jobs -> Job]
    /\ list \in Seq(Jobs)
    /\ handlers \subseteq Jobs
    /\ worker \in Places
    /\ run \in AnyRun
    /\ late \subseteq Jobs \X Sources

LEMMA FreshTyped ==
    ASSUME NEW j \in Jobs, NEW row \in Job, run' = FreshRun(j, row) PROVE (run \in AnyRun)'
BY DEF AnyRun, FreshRun, Job

LEMMA IdleTyped == run' = NoRun => (run \in AnyRun)'
<1>1. AnyJob \in Jobs
  BY JobsAssumption DEF AnyJob
<1>2. NewRow \in Job
  BY DEF NewRow, Job, Statuses, NoItems
<1> QED BY <1>1, <1>2, FreshTyped DEF NoRun

LEMMA RestTyped == Rest => (run \in AnyRun)' /\ worker' \in Places
BY IdleTyped DEF Rest, Places

\* A row stays a row, whichever column is written.
LEMMA SetStatusRow ==
    ASSUME NEW rows \in [Jobs -> Job], NEW j \in Jobs, NEW st \in Statuses
    PROVE  [rows EXCEPT ![j].status = st] \in [Jobs -> Job]
<1>1. [rows[j] EXCEPT !.status = st] \in Job
  BY rows[j] \in Job DEF Job
<1> QED BY <1>1

LEMMA SetCancelRow ==
    ASSUME NEW rows \in [Jobs -> Job], NEW j \in Jobs, NEW c \in BOOLEAN
    PROVE  [rows EXCEPT ![j].cancel = c] \in [Jobs -> Job]
<1>1. [rows[j] EXCEPT !.cancel = c] \in Job
  BY rows[j] \in Job DEF Job
<1> QED BY <1>1

LEMMA SetTriesRow ==
    ASSUME NEW rows \in [Jobs -> Job], NEW j \in Jobs, NEW n \in Nat
    PROVE  [rows EXCEPT ![j].tries = n] \in [Jobs -> Job]
<1>1. [rows[j] EXCEPT !.tries = n] \in Job
  BY rows[j] \in Job DEF Job
<1> QED BY <1>1

LEMMA ItemTyped ==
    ASSUME NEW row \in Job, NEW s, NEW st \in {"none", "done", "failed"}
    PROVE  [row EXCEPT !.items[s] = st] \in Job
<1>1. row.items \in [Sources -> {"none", "done", "failed"}]
  BY DEF Job
<1>2. [row.items EXCEPT ![s] = st] \in [Sources -> {"none", "done", "failed"}]
  BY <1>1
<1> QED BY <1>2 DEF Job

LEMMA SetItemTyped ==
    ASSUME Typed, NEW st \in {"none", "done", "failed"}, SetItem(st)
    PROVE  (jobs \in [Jobs -> Job])'
<1>1. run.job \in Jobs /\ jobs \in [Jobs -> Job]
  BY DEF Typed, AnyRun
<1>2. jobs[run.job] \in Job
  BY <1>1
<1>3. [jobs[run.job] EXCEPT !.items[Source] = st] \in Job
  BY <1>2, ItemTyped
<1> QED BY <1>1, <1>3 DEF SetItem

\* What recover_pending pushes.
LEMMA RecoverTyped ==
    ASSUME NEW S, S \subseteq Jobs PROVE SetToSeqs(S) \subseteq Seq(Jobs)
<1>1. IsFiniteSet(S)
  BY JobsAssumption, FS_Subset
<1>2. Cardinality(S) \in Nat
  BY <1>1, FS_CardinalityType
<1>3. ASSUME NEW q \in SetToSeqs(S) PROVE q \in Seq(Jobs)
  <2>1. q \in [1..Cardinality(S) -> S]
    BY DEF SetToSeqs
  <2>2. q \in [1..Cardinality(S) -> Jobs]
    BY <2>1
  <2> QED BY <1>2, <2>2
<1> QED BY <1>3

LEMMA PushTyped ==
    ASSUME list \in Seq(Jobs), NEW j \in Jobs, Push(j) PROVE list' \in Seq(Jobs)
BY DEF Push

LEMMA RequestTyped ==
    ASSUME Typed, NEW j \in Jobs,
           Enqueue(j) \/ ManualRetry(j) \/ RequestCancel(j) \/ HandlerPush(j)
    PROVE  Typed'
<1> USE DEF Typed, Places, AnyRun
<1>1. CASE Enqueue(j)
  <2>1. jobs' \in [Jobs -> Job]
    BY <1>1, SetStatusRow DEF Enqueue, SetStatus, Statuses
  <2> QED BY <1>1, <2>1 DEF Enqueue
<1>2. CASE ManualRetry(j)
  <2> DEFINE r1 == [jobs EXCEPT ![j].status = "pending"]
             r2 == [r1 EXCEPT ![j].tries = 0]
  <2>1. r1 \in [Jobs -> Job]
    BY SetStatusRow DEF Statuses
  <2>2. r2 \in [Jobs -> Job]
    BY <2>1, SetTriesRow
  <2>3. jobs' = [r2 EXCEPT ![j].cancel = FALSE]
    BY <1>2 DEF ManualRetry
  <2>4. jobs' \in [Jobs -> Job]
    BY <2>2, <2>3, SetCancelRow
  <2> QED BY <1>2, <2>4 DEF ManualRetry
<1>3. CASE RequestCancel(j)
  <2>2. jobs' \in [Jobs -> Job]
    BY <1>3, SetCancelRow DEF RequestCancel
  <2>3. PathsOf[j] \in Seq(Sources)
    BY JobsAssumption
  <2>4. ToSet(PathsOf[j]) \subseteq Sources
    BY <2>3 DEF ToSet
  <2> QED BY <1>3, <2>2, <2>4 DEF RequestCancel
<1>4. CASE HandlerPush(j)
  <2>1. list' \in Seq(Jobs)
    BY <1>4, PushTyped DEF HandlerPush
  <2> QED BY <1>4, <2>1 DEF HandlerPush
<1> QED BY <1>1, <1>2, <1>3, <1>4

\* The steps of the worker that write no row.
LEMMA ReadTyped ==
    ASSUME Typed,
           Start \/ Recover \/ Pop \/ Fetch \/ MergeJobError \/ WritePages
           \/ MarkFileIngested \/ InsertReviews \/ RunFails \/ RetryPush
    PROVE  Typed'
<1> USE DEF Typed, Places, Busy, Merging
<1>1. CASE Start
  BY <1>1 DEF Start, AnyRun
<1>2. CASE Recover
  <2>1. RecoverUnfinished \subseteq Jobs
    BY DEF RecoverUnfinished
  <2>2. PICK S \in SUBSET RecoverUnfinished : \E q \in SetToSeqs(S) : list' = list \o q
    BY <1>2 DEF Recover
  <2>3. PICK q \in SetToSeqs(S) : list' = list \o q
    BY <2>2
  <2>4. S \subseteq Jobs
    BY <2>1
  <2>6. q \in Seq(Jobs)
    BY <2>3, <2>4, RecoverTyped
  <2>5. list' \in Seq(Jobs)
    BY <2>3, <2>6
  <2> QED BY <1>2, <2>5 DEF Recover, AnyRun
<1>3. CASE Pop
  <2>1. Head(list) \in Jobs /\ list' \in Seq(Jobs)
    BY <1>3 DEF Pop
  <2>2. (run \in AnyRun)'
    BY <1>3, <2>1 DEF Pop, AnyRun
  <2> QED BY <1>3, <2>1, <2>2 DEF Pop
<1>4. CASE Fetch
  <2>1. run.job \in Jobs /\ jobs[run.job] \in Job
    BY DEF AnyRun
  <2>2. (run \in AnyRun)' /\ worker' \in Places
    BY <1>4, <2>1, FreshTyped, RestTyped DEF Fetch
  <2> QED BY <1>4, <2>2 DEF Fetch
<1>5. CASE MergeJobError
  <2>1. (run \in AnyRun)'
    BY <1>5 DEF MergeJobError, AnyRun
  <2> QED BY <1>5, <2>1 DEF MergeJobError
<1>6. CASE WritePages
  <2>1. (run \in AnyRun)'
    BY <1>6, ZenonT(60) DEF WritePages, AnyRun
  <2> QED BY <1>6, <2>1 DEF WritePages
<1>7. CASE MarkFileIngested
  <2>1. (run \in AnyRun)'
    BY <1>7 DEF MarkFileIngested, Warn, AnyRun
  <2> QED BY <1>7, <2>1 DEF MarkFileIngested
<1>8. CASE InsertReviews
  <2>1. (run \in AnyRun)'
    BY <1>8 DEF InsertReviews, Warn, AnyRun
  <2> QED BY <1>8, <2>1 DEF InsertReviews
<1>9. CASE RunFails
  <2>1. (run \in AnyRun)'
    BY <1>9 DEF RunFails, AnyRun
  <2> QED BY <1>9, <2>1 DEF RunFails
<1>10. CASE RetryPush
  <2>1. run.job \in Jobs
    BY DEF AnyRun
  <2>2. list' \in Seq(Jobs)
    BY <1>10, <2>1, PushTyped DEF RetryPush
  <2> QED BY <1>10, <2>2, RestTyped DEF RetryPush
<1> QED BY <1>1, <1>2, <1>3, <1>4, <1>5, <1>6, <1>7, <1>8, <1>9, <1>10

LEMMA UpdateTyped ==
    ASSUME Typed, NEW st \in Statuses, UpdateStatus(st)
    PROVE  jobs' \in [Jobs -> Job]
BY SetStatusRow DEF UpdateStatus, SetStatus, Typed, AnyRun

LEMMA CancelTyped ==
    ASSUME Typed, SetStatus(run.job, "cancelled") PROVE jobs' \in [Jobs -> Job]
BY SetStatusRow DEF SetStatus, Typed, AnyRun, Statuses

\* The steps of the worker that write a row.
LEMMA WriteTyped ==
    ASSUME Typed,
           Claim \/ MergeCancelled \/ MergeFailed \/ MergeSkipped \/ FinishItem \/ MergeOver
           \/ RunEnds \/ ReportSuccess \/ ReportFailure \/ RetryPending
    PROVE  Typed'
<1> USE DEF Places, Busy, Merging
<1>a. run \in AnyRun /\ run.job \in Jobs /\ jobs \in [Jobs -> Job]
  BY DEF Typed, AnyRun
<1>1. CASE Claim
  <2>1. jobs' \in [Jobs -> Job]
    <3>1. [jobs EXCEPT ![run.job].status = "running"] \in [Jobs -> Job]
      BY <1>a, SetStatusRow DEF Statuses
    <3> QED BY <1>1, <1>a, <3>1 DEF Claim, SetStatus
  <2>2. ASSUME run' = [run EXCEPT !.transient = TRUE] PROVE (run \in AnyRun)'
    BY <2>2, <1>a DEF AnyRun
  <2>3. ASSUME UNCHANGED run PROVE (run \in AnyRun)'
    BY <2>3, <1>a DEF AnyRun
  <2>4. (run \in AnyRun)' /\ worker' \in Places
    BY <1>1, <2>2, <2>3 DEF Claim
  <2> QED BY <1>1, <2>1, <2>4 DEF Claim, Typed
<1>2. CASE MergeCancelled
  <2>1. jobs' \in [Jobs -> Job]
    BY <1>2, UpdateTyped DEF MergeCancelled, Statuses
  <2> QED BY <1>2, <2>1, RestTyped DEF MergeCancelled, Typed
<1>3. CASE MergeFailed
  <2>1. jobs' \in [Jobs -> Job]
    BY <1>3, SetItemTyped DEF MergeFailed
  <2>2. (run \in AnyRun)'
    <3>1. run.received + 1 \in Nat
      BY <1>a DEF AnyRun
    <3>2. run' = [run EXCEPT !.received = @ + 1, !.warned = TRUE]
      BY <1>3 DEF MergeFailed
    <3> QED BY <3>1, <3>2, <1>a DEF AnyRun
  <2> QED BY <1>3, <2>1, <2>2 DEF MergeFailed, Typed
<1>4. CASE MergeSkipped
  <2>1. jobs' \in [Jobs -> Job]
    BY <1>4, SetItemTyped DEF MergeSkipped
  <2>2. (run \in AnyRun)'
    <3>1. run.received + 1 \in Nat
      BY <1>a DEF AnyRun
    <3>2. run' = [run EXCEPT !.received = @ + 1, !.done = @ + 1, !.skipped = @ + 1]
      BY <1>4 DEF MergeSkipped
    <3> QED BY <3>1, <3>2, <1>a DEF AnyRun
  <2> QED BY <1>4, <2>1, <2>2 DEF MergeSkipped, Typed
<1>5. CASE FinishItem
  <2>1. jobs' \in [Jobs -> Job]
    BY <1>5, SetItemTyped DEF FinishItem, ItemOutcome
  <2>2. (run \in AnyRun)'
    <3>1. run.received + 1 \in Nat
      BY <1>a DEF AnyRun
    <3>2. run' = [run EXCEPT !.received = @ + 1,
                                 !.done = IF ItemOutcome = "done" THEN @ + 1 ELSE @]
      BY <1>5 DEF FinishItem
    <3> QED BY <3>1, <3>2, <1>a DEF AnyRun
  <2> QED BY <1>5, <2>1, <2>2 DEF FinishItem, Typed
<1>6. CASE MergeOver
  <2>1. jobs' \in [Jobs -> Job]
    BY <1>6, <1>a, CancelTyped DEF MergeOver, CheckCancel
  <2>2. (run \in AnyRun)' /\ worker' \in Places
    BY <1>6, <1>a, RestTyped DEF MergeOver, CheckCancel, AnyRun
  <2> QED BY <1>6, <2>1, <2>2 DEF MergeOver, Typed
<1>7. CASE RunEnds
  <2>1. jobs' \in [Jobs -> Job]
    BY <1>7, <1>a, CancelTyped DEF RunEnds, CheckCancel
  <2>2. (run \in AnyRun)' /\ worker' \in Places
    BY <1>7, <1>a, RestTyped DEF RunEnds, CheckCancel, AnyRun
  <2> QED BY <1>7, <2>1, <2>2 DEF RunEnds, Typed
<1>8. CASE ReportSuccess
  <2>1. jobs' \in [Jobs -> Job]
    BY <1>8, UpdateTyped DEF ReportSuccess, Statuses
  <2> QED BY <1>8, <2>1, RestTyped DEF ReportSuccess, Typed
<1>9. CASE ReportFailure
  <2>1. jobs' \in [Jobs -> Job]
    BY <1>9, <1>a, UpdateTyped DEF ReportFailure, Statuses
  <2>2. (run \in AnyRun)' /\ worker' \in Places
    <3>1. CASE UNCHANGED run /\ worker' = "backoff"
      BY <3>1, <1>a DEF AnyRun
    <3>2. CASE Rest
      BY <3>2, RestTyped
    <3> QED BY <1>9, <3>1, <3>2 DEF ReportFailure
  <2> QED BY <1>9, <2>1, <2>2 DEF ReportFailure, Typed
<1>10. CASE RetryPending
  <2> DEFINE r == [jobs EXCEPT ![run.job].status = "pending"]
  <2>1. r \in [Jobs -> Job]
    BY <1>a, SetStatusRow DEF Statuses
  <2>2. r[run.job].tries + 1 \in Nat
    BY <2>1, <1>a DEF Job
  <2>3. [r EXCEPT ![run.job].tries = r[run.job].tries + 1] \in [Jobs -> Job]
    <3> HIDE DEF r
    <3> QED BY <2>1, <2>2, <1>a, SetTriesRow
  <2>4. jobs' \in [Jobs -> Job]
    BY <1>10, <2>3, <1>a DEF RetryPending
  <2>5. (run \in AnyRun)' /\ worker' \in Places
    <3>1. CASE UNCHANGED run /\ worker' = "push"
      BY <3>1, <1>a DEF AnyRun
    <3>2. CASE Rest
      BY <3>2, RestTyped
    <3> QED BY <1>10, <3>1, <3>2 DEF RetryPending
  <2> QED BY <1>10, <2>4, <2>5 DEF RetryPending, Typed
<1> QED BY <1>1, <1>2, <1>3, <1>4, <1>5, <1>6, <1>7, <1>8, <1>9, <1>10

LEMMA GeneratorTyped ==
    ASSUME Typed, GeneratorStep \/ GeneratorDies PROVE Typed'
<1>a. run \in AnyRun /\ run.out \in Seq(Outputs) /\ run.received \in Nat
  BY DEF Typed, AnyRun
<1>1. ASSUME NEW out \in Seq(Outputs), NEW d \in BOOLEAN,
             run' = [run EXCEPT !.out = out, !.dead = d]
      PROVE  (run \in AnyRun)'
  BY <1>1, <1>a DEF AnyRun
<1>2. CASE TakeUp
  <2>1. ASSUME NEW o \in Outputs, run' = [run EXCEPT !.out = Append(@, o)]
        PROVE  (run \in AnyRun)'
    <3>1. Append(run.out, o) \in Seq(Outputs)
      BY <1>a
    <3> QED BY <2>1, <3>1, <1>a DEF AnyRun
  <2>2. (run \in AnyRun)'
    BY <1>2, <2>1 DEF TakeUp, Outputs
  <2> QED BY <1>2, <2>2 DEF TakeUp, Typed
<1>3. ASSUME NEW i \in DOMAIN run.out, Generated(i) PROVE Typed'
  <2>1. ASSUME NEW o \in Outputs, run' = [run EXCEPT !.out[i] = o]
        PROVE  (run \in AnyRun)'
    <3>1. [run.out EXCEPT ![i] = o] \in Seq(Outputs)
      BY <1>a
    <3> QED BY <2>1, <3>1, <1>a DEF AnyRun
  <2>2. PICK o \in Outputs : run' = [run EXCEPT !.out[i] = o]
    BY <1>3 DEF Generated, Outputs
  <2>3. (run \in AnyRun)'
    BY <2>1, <2>2
  <2> QED BY <1>3, <2>3 DEF Generated, Typed
<1>4. CASE GeneratorDies
  <2>1. PICK k \in run.received .. Len(run.out) :
           run' = [run EXCEPT !.out = SubSeq(@, 1, k), !.dead = TRUE]
    BY <1>4 DEF GeneratorDies
  <2>2. SubSeq(run.out, 1, k) \in Seq(Outputs)
    BY <1>a
  <2>3. (run \in AnyRun)'
    BY <1>a, <2>1, <2>2 DEF AnyRun
  <2> QED BY <1>4, <2>3 DEF GeneratorDies, Typed
<1> QED BY <1>2, <1>3, <1>4 DEF GeneratorStep

LEMMA TypedInit == Init => Typed
<1>1. AnyJob \in Jobs /\ NewRow \in Job
  BY JobsAssumption DEF AnyJob, NewRow, Job, Statuses, NoItems
<1>2. ASSUME run = NoRun PROVE run \in AnyRun
  BY <1>1, <1>2 DEF NoRun, FreshRun, AnyRun, NewRow
<1> QED BY <1>1, <1>2 DEF Init, Typed, Places

LEMMA TypedNext == Typed /\ [Next]_vars => Typed'
<1> SUFFICES ASSUME Typed, [Next]_vars PROVE Typed'
  OBVIOUS
<1>1. CASE Crash
  <2>1. (run \in AnyRun)'
    BY <1>1, IdleTyped DEF Crash
  <2> QED BY <1>1, <2>1 DEF Crash, Typed, Places
<1>2. CASE UNCHANGED vars
  BY <1>2 DEF vars, stores, Typed, AnyRun
<1> QED BY <1>1, <1>2, RequestTyped, ReadTyped, WriteTyped, GeneratorTyped
        DEF Next, WorkerStep

THEOREM RunTyping == Spec => []Typed
BY TypedInit, TypedNext, PTL DEF Spec

-----------------------------------------------------------------------------
(* The retry budget.  A run counts the attempts with the number it read of *)
(* the row; the row may have been read before, by a run of a duplicate, so *)
(* what matters is that the row is never ahead of the run that raises it.  *)

Budget ==
    /\ \A j \in Jobs : jobs[j].tries <= MaxRetries
    /\ worker \in {"claim"} \cup Busy => jobs[run.job].tries <= run.tries
    /\ worker = "backoff" => run.tries < MaxRetries

LEMMA BudgetRequest ==
    ASSUME Typed, Budget, NEW j \in Jobs,
           Enqueue(j) \/ ManualRetry(j) \/ RequestCancel(j) \/ HandlerPush(j)
    PROVE  Budget'
<1>a. jobs \in [Jobs -> Job] /\ run.job \in Jobs /\ MaxRetries \in Nat
  BY JobsAssumption DEF Typed, AnyRun
<1>b. jobs[run.job] \in Job /\ jobs[j] \in Job /\ run.tries \in Nat
  BY <1>a DEF Typed, AnyRun
<1>1. CASE Enqueue(j)
  BY <1>1, <1>a, <1>b DEF Enqueue, SetStatus, Budget, Job
<1>2. CASE ManualRetry(j)
  <2> DEFINE row == [[[jobs[j] EXCEPT !.status = "pending"] EXCEPT !.tries = 0]
                        EXCEPT !.cancel = FALSE]
  <2>1. jobs' = [jobs EXCEPT ![j] = row] /\ UNCHANGED <<worker, run>>
    BY <1>2, <1>a DEF ManualRetry
  <2>2. row.tries = 0
    BY <1>b DEF Job
  <2> HIDE DEF row
  <2> QED BY <2>1, <2>2, <1>a, <1>b DEF Budget, Job
<1>3. CASE RequestCancel(j)
  BY <1>3, <1>a, <1>b DEF RequestCancel, Budget, Job
<1>4. CASE HandlerPush(j)
  BY <1>4 DEF HandlerPush, Budget
<1> QED BY <1>1, <1>2, <1>3, <1>4

\* A step that keeps the counts of the rows and the job and count of the run.
LEMMA BudgetKept ==
    ASSUME Budget,
           \A j \in Jobs : jobs'[j].tries = jobs[j].tries,
           run.job \in Jobs,
           worker' \in {"claim"} \cup Busy =>
               /\ worker \in {"claim"} \cup Busy
               /\ run'.job = run.job /\ run'.tries = run.tries,
           worker' = "backoff" => run'.tries < MaxRetries
    PROVE  Budget'
BY DEF Budget

LEMMA SameTries ==
    ASSUME Typed, NEW r \in Jobs, NEW st, jobs' = [jobs EXCEPT ![r].status = st]
    PROVE  \A j \in Jobs : jobs'[j].tries = jobs[j].tries
<1>1. jobs \in [Jobs -> Job] /\ jobs[r] \in Job
  BY DEF Typed
<1> QED BY <1>1 DEF Job

LEMMA SameTriesItem ==
    ASSUME Typed, NEW st, SetItem(st)
    PROVE  \A j \in Jobs : jobs'[j].tries = jobs[j].tries
<1>1. jobs \in [Jobs -> Job] /\ run.job \in Jobs /\ jobs[run.job] \in Job
  BY DEF Typed, AnyRun
<1> QED BY <1>1 DEF SetItem, Job

\* A run keeps its job and its sources until the worker goes back to its list.
Continues == run'.job = run.job /\ run'.tries = run.tries /\ run'.targets = run.targets

LEMMA RunContinues ==
    ASSUME Typed, WorkerStep \/ GeneratorStep \/ GeneratorDies, ~ Pop, ~ Fetch
    PROVE  Rest \/ Continues
<1> USE DEF Continues
<1>a. run \in AnyRun
  BY DEF Typed
<1>b. UNCHANGED run => Continues
  OBVIOUS
<1>c. ASSUME run' = [run EXCEPT !.transient = TRUE] PROVE Continues
  BY <1>a, <1>c DEF AnyRun
<1>d. ASSUME run' = [run EXCEPT !.warned = TRUE] PROVE Continues
  BY <1>a, <1>d DEF AnyRun
<1>1. Start \/ Recover \/ RetryPending \/ RetryPush => UNCHANGED run \/ Rest
  BY DEF Start, Recover, RetryPending, RetryPush
<1>2. MergeCancelled \/ ReportSuccess \/ ReportFailure => UNCHANGED run \/ Rest
  BY DEF MergeCancelled, ReportSuccess, ReportFailure
<1>3. Claim \/ MergeJobError => UNCHANGED run \/ run' = [run EXCEPT !.transient = TRUE]
  BY DEF Claim, MergeJobError
<1>4. MarkFileIngested \/ InsertReviews => UNCHANGED run \/ run' = [run EXCEPT !.warned = TRUE]
  BY DEF MarkFileIngested, InsertReviews, Warn
<1>5. CASE MergeFailed
  BY <1>a, <1>5 DEF MergeFailed, AnyRun
<1>6. CASE MergeSkipped
  BY <1>a, <1>6 DEF MergeSkipped, AnyRun
<1>7. CASE WritePages
  BY <1>a, <1>7 DEF WritePages, AnyRun
<1>8. CASE FinishItem
  BY <1>a, <1>8 DEF FinishItem, AnyRun
<1>9. CASE RunFails
  BY <1>a, <1>9 DEF RunFails, AnyRun
<1>10. CASE MergeOver
  BY <1>b, <1>c, <1>10 DEF MergeOver, CheckCancel
<1>11. CASE RunEnds
  <2>1. PICK w \in BOOLEAN : CheckCancel("report", [run EXCEPT !.warned = @ \/ AllSkipped \/ w])
    BY <1>11 DEF RunEnds
  <2>2. CASE run' = [run EXCEPT !.warned = @ \/ AllSkipped \/ w]
    BY <1>a, <2>2 DEF AnyRun
  <2> QED BY <2>1, <2>2, <1>c DEF CheckCancel
<1>12. CASE TakeUp
  BY <1>a, <1>12 DEF TakeUp, AnyRun
<1>13. ASSUME NEW i \in DOMAIN run.out, Generated(i) PROVE Continues
  BY <1>a, <1>13 DEF Generated, AnyRun
<1>14. CASE GeneratorDies
  BY <1>a, <1>14 DEF GeneratorDies, AnyRun
<1> QED BY <1>b, <1>c, <1>d, <1>1, <1>2, <1>3, <1>4, <1>5, <1>6, <1>7, <1>8, <1>9, <1>10,
           <1>11, <1>12, <1>13, <1>14 DEF WorkerStep, GeneratorStep

LEMMA BudgetWorker ==
    ASSUME Typed, Budget, WorkerStep \/ GeneratorStep \/ GeneratorDies PROVE Budget'
<1>a. run \in AnyRun /\ run.job \in Jobs /\ jobs \in [Jobs -> Job]
  BY DEF Typed, AnyRun
<1> DEFINE Same == \A j \in Jobs : jobs'[j].tries = jobs[j].tries
<1>b. UNCHANGED jobs => Same
  OBVIOUS
<1>c. ASSUME NEW st \in Statuses, SetStatus(run.job, st) PROVE Same
  BY <1>a, <1>c, SameTries DEF SetStatus
<1>d. ASSUME NEW st \in Statuses, UpdateStatus(st) PROVE Same
  BY <1>b, <1>c, <1>d DEF UpdateStatus
<1>e. Rest => worker' = "pop"
  BY DEF Rest
<1> HIDE DEF Same
<1>1. CASE Start \/ Recover
  <2>1. UNCHANGED <<jobs, run>> /\ worker' \in {"recover", "pop"}
    BY <1>1 DEF Start, Recover
  <2> QED BY <2>1, <1>a, <1>b, BudgetKept DEF Same, Busy, Merging
<1>2. CASE Pop
  <2>1. UNCHANGED jobs /\ worker' \in {"fetch", "pop"}
    BY <1>2 DEF Pop
  <2> QED BY <2>1, <1>a, <1>b, BudgetKept DEF Same, Busy, Merging
<1>3. CASE Fetch
  <2>1. CASE Rest
    <3>1. UNCHANGED jobs /\ worker' = "pop"
      BY <1>3, <2>1 DEF Fetch, Rest
    <3> QED BY <3>1, <1>a, <1>b, BudgetKept DEF Same, Busy, Merging
  <2>2. CASE run' = FreshRun(run.job, jobs[run.job]) /\ worker' = "claim"
    <3>1. run'.job = run.job /\ run'.tries = jobs[run.job].tries
      BY <2>2 DEF FreshRun
    <3>2. jobs[run.job].tries \in Nat
      BY <1>a DEF Job
    <3> QED BY <1>3, <2>2, <3>1, <3>2 DEF Fetch, Budget
  <2> QED BY <1>3, <2>1, <2>2 DEF Fetch
<1>4. CASE RetryPending
  <2>1. CASE UNCHANGED jobs /\ Rest
    BY <2>1, <1>a, <1>b, <1>e, BudgetKept DEF Same, Busy, Merging
  <2>2. CASE /\ jobs' = [jobs EXCEPT ![run.job].status = "pending", ![run.job].tries = @ + 1]
             /\ worker' = "push" /\ UNCHANGED run
    <3> DEFINE row == [[jobs[run.job] EXCEPT !.status = "pending"]
                          EXCEPT !.tries = jobs[run.job].tries + 1]
    <3>0. jobs[run.job] \in Job
      BY <1>a
    <3>1. jobs' = [jobs EXCEPT ![run.job] = row]
      BY <2>2, <3>0, <1>a DEF Job
    <3>2. row.tries = jobs[run.job].tries + 1
      BY <3>0 DEF Job
    <3>3. jobs[run.job].tries <= run.tries /\ run.tries < MaxRetries
      BY <1>4 DEF RetryPending, Budget, Busy
    <3>4. jobs[run.job].tries \in Nat /\ run.tries \in Nat /\ MaxRetries \in Nat
      BY <3>0, <1>a, JobsAssumption DEF Job, AnyRun
    <3>5. row.tries <= MaxRetries
      BY <3>2, <3>3, <3>4
    <3> HIDE DEF row
    <3> QED BY <2>2, <3>1, <3>5, <1>a DEF Budget, Busy, Merging
  <2> QED BY <1>4, <2>1, <2>2 DEF RetryPending
<1>5. CASE ~ Pop /\ ~ Fetch /\ ~ RetryPending /\ ~ Start /\ ~ Recover
  <2>1. Same
    <3>1. MergeCancelled \/ ReportSuccess => Same
      BY <1>d DEF MergeCancelled, ReportSuccess, Statuses
    <3>2. ReportFailure => Same
      BY <1>b, <1>d DEF ReportFailure, Statuses
    <3>3. Claim => Same
      BY <1>b, <1>c DEF Claim, Statuses
    <3>4. MergeFailed \/ MergeSkipped \/ FinishItem => Same
      BY SameTriesItem DEF MergeFailed, MergeSkipped, FinishItem, Same
    <3>5. MergeOver \/ RunEnds => Same
      BY <1>b, <1>c DEF MergeOver, RunEnds, CheckCancel, Statuses
    <3>6. MergeJobError \/ WritePages \/ MarkFileIngested \/ InsertReviews \/ RunFails
             \/ RetryPush \/ GeneratorStep \/ GeneratorDies => Same
      BY <1>b DEF MergeJobError, WritePages, MarkFileIngested, InsertReviews, RunFails,
                  RetryPush, GeneratorStep, TakeUp, Generated, GeneratorDies
    <3> QED BY <1>5, <3>1, <3>2, <3>3, <3>4, <3>5, <3>6 DEF WorkerStep
  <2>2. Rest \/ Continues
    BY <1>5, RunContinues
  <2>3. CASE Rest
    BY <2>1, <2>3, <1>a, <1>e, BudgetKept DEF Same, Busy, Merging
  <2>4. CASE Continues /\ ~ Rest
    <3>1. worker' \in {"claim"} \cup Busy => worker \in {"claim"} \cup Busy
      <4>1. RetryPush => Rest
        BY DEF RetryPush
      <4>2. Claim \/ MergeCancelled \/ MergeJobError \/ MergeFailed \/ MergeSkipped \/ WritePages
               \/ MarkFileIngested \/ InsertReviews \/ FinishItem \/ MergeOver \/ RunFails \/ RunEnds
               \/ ReportSuccess \/ ReportFailure \/ GeneratorStep \/ GeneratorDies
               => worker \in {"claim"} \cup Busy
        BY DEF Claim, MergeCancelled, MergeJobError, MergeFailed, MergeSkipped, WritePages,
               MarkFileIngested, InsertReviews, FinishItem, MergeOver, RunFails, RunEnds, Receive,
               ReportSuccess, ReportFailure, GeneratorStep, TakeUp, Generated, GeneratorDies,
               Busy, Merging
      <4> QED BY <1>5, <2>4, <4>1, <4>2 DEF WorkerStep
    <3>2. worker' = "backoff" => run'.tries < MaxRetries
      <4>1. CASE ReportFailure
        BY <4>1, <2>4 DEF ReportFailure, UnderBudget, Continues
      <4>2. CASE ~ ReportFailure
        <5>1. worker' # "backoff"
          BY <1>5, <2>4, <4>2
             DEF WorkerStep, Claim, MergeCancelled, MergeJobError, MergeFailed, MergeSkipped,
                 WritePages, MarkFileIngested, InsertReviews, FinishItem, MergeOver, RunFails,
                 RunEnds, CheckCancel, Receive, ReportSuccess, GeneratorStep, TakeUp, Generated,
                 GeneratorDies, Merging, RetryPush
        <5> QED BY <5>1
      <4> QED BY <4>1, <4>2
    <3> QED BY <2>1, <2>4, <3>1, <3>2, <1>a, BudgetKept DEF Same, Continues
  <2> QED BY <2>2, <2>3, <2>4
<1> QED BY <1>1, <1>2, <1>3, <1>4, <1>5

LEMMA BudgetInit == Init => Budget
BY JobsAssumption DEF Init, Budget, NewRow, Busy, Merging

LEMMA BudgetNext == Typed /\ Budget /\ [Next]_vars => Budget'
<1> SUFFICES ASSUME Typed, Budget, [Next]_vars PROVE Budget'
  OBVIOUS
<1>1. CASE Crash
  <2>1. UNCHANGED jobs /\ worker' = "down"
    BY <1>1 DEF Crash
  <2> QED BY <2>1 DEF Budget, Busy, Merging
<1>2. CASE UNCHANGED vars
  BY <1>2 DEF vars, Budget
<1> QED BY <1>1, <1>2, BudgetRequest, BudgetWorker DEF Next

\* However often a job is delivered, its automatic retries stay within
\* max_retries (ingest_worker.rs, the retry branch of the error path).
THEOREM RetriesBounded == Spec => []RetryBudget
<1>1. Budget => RetryBudget
  BY DEF Budget, RetryBudget
<1> QED BY <1>1, TypedInit, TypedNext, BudgetInit, BudgetNext, PTL DEF Spec

-----------------------------------------------------------------------------
(* A hash without its pages is never recorded.  What a step of the merge   *)
(* loop relies on: the pages of the source at hand are there before its    *)
(* hash is, and its hash before its review items.                          *)

Complete ==
    /\ IngestedComplete
    /\ worker = "mark" /\ run.cohort = "all" => Source \in written
    /\ worker = "review" => Source \in ingested

\* What the generator leaves alone.
LEMMA GeneratorKeeps ==
    ASSUME Typed, GeneratorStep \/ GeneratorDies
    PROVE  /\ run'.received = run.received /\ run'.cohort = run.cohort
           /\ run'.targets = run.targets /\ run'.job = run.job
           /\ UNCHANGED <<jobs, list, handlers, worker, stores, calls, lost, late>>
<1>a. run \in AnyRun
  BY DEF Typed
<1>1. CASE TakeUp
  BY <1>a, <1>1 DEF TakeUp, AnyRun
<1>2. ASSUME NEW i \in DOMAIN run.out, Generated(i)
      PROVE  /\ run'.received = run.received /\ run'.cohort = run.cohort
             /\ run'.targets = run.targets /\ run'.job = run.job
             /\ UNCHANGED <<jobs, list, handlers, worker, stores, calls, lost, late>>
  BY <1>a, <1>2 DEF Generated, AnyRun
<1>3. CASE GeneratorDies
  BY <1>a, <1>3 DEF GeneratorDies, AnyRun
<1> QED BY <1>1, <1>2, <1>3 DEF GeneratorStep

LEMMA CompleteNext ==
    ASSUME "update" \notin Faults, Typed, Complete, [Next]_vars PROVE Complete'
<1>a. run \in AnyRun
  BY DEF Typed
<1>b. ASSUME UNCHANGED stores, worker' \notin {"mark", "review"} PROVE Complete'
  BY <1>b DEF Complete, IngestedComplete, stores
<1>c. ASSUME UNCHANGED <<stores, worker>>, run'.received = run.received,
             run'.cohort = run.cohort, run'.targets = run.targets
      PROVE  Complete'
  BY <1>c DEF Complete, IngestedComplete, stores, Source
<1>1. ASSUME NEW j \in Jobs,
             Enqueue(j) \/ ManualRetry(j) \/ RequestCancel(j) \/ HandlerPush(j)
      PROVE  Complete'
  BY <1>1, <1>c DEF Enqueue, ManualRetry, RequestCancel, HandlerPush
<1>2. CASE GeneratorStep \/ GeneratorDies
  BY <1>2, <1>c, GeneratorKeeps
<1>3. CASE UNCHANGED vars
  BY <1>3, <1>c DEF vars
<1>4. CASE Crash
  BY <1>4, <1>b DEF Crash
<1>5. CASE WritePages
  <2>1. PICK output \in {"pages", "empty"}, cohort \in {"all", "some", "none"} :
           /\ run' = [run EXCEPT !.cohort = cohort,
                                 !.wrote = @ \/ (output = "pages" /\ cohort # "none"),
                                 !.warned = @ \/ output = "empty" \/ cohort # "all"]
           /\ written' = IF cohort = "all" THEN written \cup {Source} ELSE written
           /\ worker' = "mark"
           /\ UNCHANGED <<ingested, reviewed>>
    BY <1>5 DEF WritePages
  <2>2. run'.cohort = cohort /\ run'.received = run.received /\ run'.targets = run.targets
    BY <1>a, <2>1 DEF AnyRun
  <2>3. Source' = Source
    BY <2>2 DEF Source
  <2> QED BY <2>1, <2>2, <2>3 DEF Complete, IngestedComplete
<1>6. CASE MarkFileIngested
  <2>1. worker = "mark" /\ UNCHANGED <<run, written, reviewed>>
    BY <1>6 DEF MarkFileIngested, Warn
  <2>2. \/ run.cohort = "all" /\ worker' = "review" /\ ingested' = ingested \cup {Source}
        \/ worker' = "item" /\ UNCHANGED ingested
    BY <1>6 DEF MarkFileIngested, MarkAllowed, Warn
  <2>3. Source' = Source
    BY <2>1 DEF Source
  <2> QED BY <2>1, <2>2, <2>3 DEF Complete, IngestedComplete
<1>7. CASE InsertReviews
  BY <1>7 DEF InsertReviews, Warn, Complete, IngestedComplete
<1>8. CASE WorkerStep /\ ~ WritePages /\ ~ MarkFileIngested /\ ~ InsertReviews
  <2>1. UNCHANGED stores
    BY <1>8 DEF WorkerStep, Start, Recover, Pop, Fetch, Claim, MergeCancelled, MergeJobError,
                MergeFailed, MergeSkipped, FinishItem, MergeOver, RunFails, RunEnds,
                ReportSuccess, ReportFailure, RetryPending, RetryPush
  <2>2. worker' \notin {"mark", "review"}
    BY <1>8 DEF WorkerStep, Start, Recover, Pop, Fetch, Claim, MergeCancelled, MergeJobError,
                MergeFailed, MergeSkipped, Receive, FinishItem, MergeOver, RunFails, RunEnds,
                CheckCancel, ReportSuccess, ReportFailure, RetryPending, RetryPush, Rest
  <2> QED BY <2>1, <2>2, <1>b
<1> QED BY <1>1, <1>2, <1>3, <1>4, <1>5, <1>6, <1>7, <1>8 DEF Next

\* As long as the statement that records the hash does not fail, a source that
\* is skipped for its hash has all its pages, and review items speak only of
\* sources that will not be processed again: whatever crashes, panics of the
\* generator or failed pages come in between.
THEOREM SkippedIsComplete ==
    ASSUME "update" \notin Faults PROVE Spec => []IngestedComplete
<1>1. Init => Complete
  BY DEF Init, Complete, IngestedComplete
<1>2. Typed /\ Complete /\ [Next]_vars => Complete'
  BY CompleteNext
<1>3. Complete => IngestedComplete
  BY DEF Complete
<1> QED BY <1>1, <1>2, <1>3, TypedInit, TypedNext, PTL DEF Spec

-----------------------------------------------------------------------------
(* A cancel request bounds the work that is still done.  The sources noted *)
(* in late were not taken up when the flag was set, and as long as it is   *)
(* set the generator gives them up.                                        *)

Refused == {"cancelled", "jobError"}

LateRefused ==
    \A x \in late :
        /\ jobs[x[1]].cancel
        /\ worker \in Merging /\ run.job = x[1] =>
              \A i \in DOMAIN run.out : run.targets[i] = x[2] => run.out[i] \in Refused

\* The merge loop is at work on a source that brought pages.
MergesPages ==
    worker \in {"mark", "review", "item"} =>
        /\ run.received + 1 \in DOMAIN run.out
        /\ run.out[run.received + 1] \in {"pages", "empty"}

CancelInv == LateRefused /\ MergesPages /\ (worker = "claim" => run.out = << >>)

LEMMA CancelRequest ==
    ASSUME Typed, CancelInv, NEW j \in Jobs,
           Enqueue(j) \/ ManualRetry(j) \/ RequestCancel(j) \/ HandlerPush(j)
    PROVE  CancelInv'
<1>a. jobs \in [Jobs -> Job] /\ jobs[j] \in Job /\ late \subseteq Jobs \X Sources
  BY DEF Typed
<1>b. UNCHANGED <<worker, run>>
  BY DEF Enqueue, ManualRetry, RequestCancel, HandlerPush
<1>c. ASSUME late' \subseteq late, \A x \in late' : jobs'[x[1]].cancel = jobs[x[1]].cancel
      PROVE  CancelInv'
  BY <1>b, <1>c DEF CancelInv, LateRefused, MergesPages
<1>1. CASE Enqueue(j)
  BY <1>1, <1>a, <1>c DEF Enqueue, SetStatus, Job
<1>2. CASE ManualRetry(j)
  BY <1>2, <1>a, <1>c DEF ManualRetry
<1>3. CASE RequestCancel(j)
  <2> DEFINE new == {<<j, s>> : s \in ToSet(PathsOf[j]) \
                                     (IF run.job = j /\ worker \in Merging THEN Taken ELSE {})}
  <2>1. late' = late \cup new /\ jobs' = [jobs EXCEPT ![j].cancel = TRUE]
    BY <1>3 DEF RequestCancel
  <2>2. \A k \in Jobs : jobs'[k].cancel = (IF k = j THEN TRUE ELSE jobs[k].cancel)
    BY <2>1, <1>a DEF Job
  <2>3. ASSUME NEW x \in late
        PROVE  /\ jobs'[x[1]].cancel
               /\ worker \in Merging /\ run.job = x[1] =>
                     \A i \in DOMAIN run.out : run.targets[i] = x[2] => run.out[i] \in Refused
    <3>1. x[1] \in Jobs
      BY <1>a
    <3> QED BY <3>1, <2>2 DEF CancelInv, LateRefused
  <2>4. ASSUME NEW x \in new
        PROVE  /\ jobs'[x[1]].cancel
               /\ worker \in Merging /\ run.job = x[1] =>
                     \A i \in DOMAIN run.out : run.targets[i] = x[2] => run.out[i] \in Refused
    <3>1. x[1] = j
      OBVIOUS
    <3>2. run.job = j /\ worker \in Merging => x[2] \notin Taken
      OBVIOUS
    <3> QED BY <3>1, <3>2, <2>2 DEF Taken
  <2> HIDE DEF new
  <2>5. LateRefused'
    BY <2>1, <2>3, <2>4, <1>b DEF LateRefused
  <2> QED BY <2>5, <1>b DEF CancelInv, MergesPages
<1>4. CASE HandlerPush(j)
  BY <1>4, <1>c DEF HandlerPush
<1> QED BY <1>1, <1>2, <1>3, <1>4

LEMMA CancelGenerator ==
    ASSUME Typed, CancelInv, GeneratorStep \/ GeneratorDies PROVE CancelInv'
<1>a. run \in AnyRun /\ run.out \in Seq(Outputs) /\ run.received \in Nat
  BY DEF Typed, AnyRun
<1>b. /\ run'.received = run.received /\ run'.targets = run.targets /\ run'.job = run.job
      /\ UNCHANGED <<jobs, worker, late>>
  BY GeneratorKeeps
<1>c. worker \in Merging
  BY DEF GeneratorStep, GeneratorDies, TakeUp, Generated
<1>d. ASSUME NEW x \in late, run.job = x[1], NEW i \in DOMAIN run.out, run.targets[i] = x[2]
      PROVE  run.out[i] \in Refused
  BY <1>c, <1>d DEF CancelInv, LateRefused
<1>e. SUFFICES
        /\ \A x \in late : run.job = x[1] =>
              \A i \in DOMAIN run'.out : run.targets[i] = x[2] => run'.out[i] \in Refused
        /\ MergesPages => MergesPages'
  <2>1. worker # "claim"
    BY <1>c DEF Merging
  <2> QED BY <1>b, <2>1, <1>e DEF CancelInv, LateRefused
<1>1. CASE TakeUp
  <2>1. PICK o \in {"cancelled", "busy", "jobError"} :
           /\ run' = [run EXCEPT !.out = Append(@, o)]
           /\ o = "busy" => ~ jobs[run.job].cancel
    BY <1>1 DEF TakeUp, PeekCancel
  <2>2. run'.out = Append(run.out, o)
    BY <1>a, <2>1 DEF AnyRun
  <2>3. /\ DOMAIN run'.out = 1 .. Len(run.out) + 1
        /\ \A i \in DOMAIN run.out : i \in DOMAIN run'.out /\ run'.out[i] = run.out[i]
        /\ run'.out[Len(run.out) + 1] = o
    BY <1>a, <2>2
  <2>4. ASSUME NEW x \in late, run.job = x[1], NEW i \in DOMAIN run'.out, run.targets[i] = x[2]
        PROVE  run'.out[i] \in Refused
    <3>1. CASE i \in DOMAIN run.out
      BY <1>d, <2>3, <2>4, <3>1
    <3>2. CASE i \notin DOMAIN run.out
      <4>1. i = Len(run.out) + 1
        BY <1>a, <2>3, <3>2
      <4>2. jobs[run.job].cancel
        BY <2>4 DEF CancelInv, LateRefused
      <4> QED BY <2>1, <2>3, <4>1, <4>2 DEF Refused
    <3> QED BY <3>1, <3>2
  <2>5. MergesPages => MergesPages'
    BY <1>b, <2>3 DEF MergesPages
  <2> QED BY <2>4, <2>5
<1>2. ASSUME NEW k \in DOMAIN run.out, Generated(k)
      PROVE  /\ \A x \in late : run.job = x[1] =>
                   \A i \in DOMAIN run'.out : run.targets[i] = x[2] => run'.out[i] \in Refused
             /\ MergesPages => MergesPages'
  <2>1. PICK o : run' = [run EXCEPT !.out[k] = o]
    BY <1>2 DEF Generated
  <2>2. run'.out = [run.out EXCEPT ![k] = o]
    BY <1>a, <2>1 DEF AnyRun
  <2>3. run.out[k] = "busy"
    BY <1>2 DEF Generated
  <2>4. ASSUME NEW x \in late, run.job = x[1], NEW i \in DOMAIN run'.out, run.targets[i] = x[2]
        PROVE  run'.out[i] \in Refused
    <3>1. i \in DOMAIN run.out /\ run.out[i] \in Refused
      BY <1>d, <2>2, <2>4
    <3> QED BY <2>2, <2>3, <3>1 DEF Refused
  <2>5. MergesPages => MergesPages'
    BY <1>b, <2>2, <2>3 DEF MergesPages
  <2> QED BY <2>4, <2>5
<1>3. CASE GeneratorDies
  <2>1. PICK k \in run.received .. Len(run.out) :
           /\ run' = [run EXCEPT !.out = SubSeq(@, 1, k), !.dead = TRUE]
           /\ worker # "merge" => k > run.received
    BY <1>3 DEF GeneratorDies
  <2>2. run'.out = SubSeq(run.out, 1, k)
    BY <1>a, <2>1 DEF AnyRun
  <2>3. DOMAIN run'.out = 1 .. k /\ \A i \in 1 .. k : i \in DOMAIN run.out /\ run'.out[i] = run.out[i]
    BY <1>a, <2>1, <2>2
  <2>4. ASSUME NEW x \in late, run.job = x[1], NEW i \in DOMAIN run'.out, run.targets[i] = x[2]
        PROVE  run'.out[i] \in Refused
    BY <1>d, <2>3, <2>4
  <2>5. MergesPages => MergesPages'
    <3>1. worker \in {"mark", "review", "item"} => run.received + 1 \in 1 .. k
      BY <1>a, <2>1
    <3> QED BY <1>b, <2>3, <3>1 DEF MergesPages
  <2> QED BY <2>4, <2>5
<1> QED BY <1>1, <1>2, <1>3 DEF GeneratorStep

LEMMA SameCancel ==
    ASSUME Typed, WorkerStep PROVE \A j \in Jobs : jobs'[j].cancel = jobs[j].cancel
<1> DEFINE Same == \A j \in Jobs : jobs'[j].cancel = jobs[j].cancel
<1> SUFFICES Same
  OBVIOUS
<1>a. jobs \in [Jobs -> Job] /\ run.job \in Jobs /\ jobs[run.job] \in Job
  BY DEF Typed, AnyRun
<1>b. UNCHANGED jobs => Same
  OBVIOUS
<1>c. ASSUME NEW row, row.cancel = jobs[run.job].cancel, jobs' = [jobs EXCEPT ![run.job] = row]
      PROVE  Same
  BY <1>a, <1>c
<1>1. ASSUME NEW st, SetStatus(run.job, st) PROVE Same
  <2> DEFINE row == [jobs[run.job] EXCEPT !.status = st]
  <2>1. row.cancel = jobs[run.job].cancel
    BY <1>a DEF Job
  <2>2. jobs' = [jobs EXCEPT ![run.job] = row]
    BY <1>1 DEF SetStatus
  <2> HIDE DEF row, Same
  <2> QED BY <2>1, <2>2, <1>c
<1>2. ASSUME NEW st, SetItem(st) PROVE Same
  <2> DEFINE row == [jobs[run.job] EXCEPT !.items[Source] = st]
  <2>1. row.cancel = jobs[run.job].cancel
    BY <1>a DEF Job
  <2>2. UNCHANGED jobs \/ jobs' = [jobs EXCEPT ![run.job] = row]
    BY <1>2 DEF SetItem
  <2> HIDE DEF row, Same
  <2> QED BY <2>1, <2>2, <1>b, <1>c
<1>3. CASE RetryPending
  <2> DEFINE row == [[jobs[run.job] EXCEPT !.status = "pending"]
                        EXCEPT !.tries = jobs[run.job].tries + 1]
  <2>1. UNCHANGED jobs \/ jobs' = [jobs EXCEPT ![run.job] = row]
    BY <1>3, <1>a DEF RetryPending, Job
  <2>2. row.cancel = jobs[run.job].cancel
    BY <1>a DEF Job
  <2> HIDE DEF row, Same
  <2> QED BY <2>1, <2>2, <1>b, <1>c
<1> HIDE DEF Same
<1>4. CASE ~ RetryPending
  <2>1. \/ UNCHANGED jobs
        \/ \E st : SetStatus(run.job, st)
        \/ \E st : SetItem(st)
    BY <1>4 DEF WorkerStep, Start, Recover, Pop, Fetch, Claim, MergeCancelled, MergeJobError,
                MergeFailed, MergeSkipped, WritePages, MarkFileIngested, InsertReviews,
                FinishItem, MergeOver, RunFails, RunEnds, CheckCancel, UpdateStatus,
                ReportSuccess, ReportFailure, RetryPush
  <2> QED BY <2>1, <1>1, <1>2, <1>b
<1> QED BY <1>3, <1>4

LEMMA CancelWorker ==
    ASSUME Typed, CancelInv, WorkerStep PROVE CancelInv'
<1>a. /\ run \in AnyRun /\ run.out \in Seq(Outputs) /\ run.received \in Nat
      /\ run.job \in Jobs /\ jobs \in [Jobs -> Job] /\ late \subseteq Jobs \X Sources
  BY DEF Typed, AnyRun
<1>b. UNCHANGED late
  BY DEF WorkerStep, Start, Recover, Pop, Fetch, Claim, MergeCancelled, MergeJobError,
         MergeFailed, MergeSkipped, WritePages, MarkFileIngested, InsertReviews, FinishItem,
         MergeOver, RunFails, RunEnds, ReportSuccess, ReportFailure, RetryPending, RetryPush
<1>c. \A j \in Jobs : jobs'[j].cancel = jobs[j].cancel
  BY SameCancel
<1>d. \A x \in late : x[1] \in Jobs /\ jobs'[x[1]].cancel
  BY <1>a, <1>c DEF CancelInv, LateRefused
<1>1. CASE worker' \notin {"claim"} \cup Merging
  BY <1>1, <1>b, <1>d DEF CancelInv, LateRefused, MergesPages, Merging
<1>2. CASE Fetch /\ worker' = "claim"
  <2>1. run' = FreshRun(run.job, jobs[run.job])
    BY <1>2 DEF Fetch, Rest
  <2>2. run'.out = << >>
    BY <2>1 DEF FreshRun
  <2> QED BY <1>2, <1>b, <1>d, <2>2 DEF CancelInv, LateRefused, MergesPages, Merging
<1>3. CASE Claim /\ worker' = "merge"
  <2>1. UNCHANGED run /\ run.out = << >>
    BY <1>3 DEF Claim, CancelInv
  <2> QED BY <1>3, <1>b, <1>d, <2>1 DEF CancelInv, LateRefused, MergesPages
<1>4. ASSUME worker \in Merging, worker' \in Merging, run'.out = run.out,
             run'.targets = run.targets, run'.job = run.job, MergesPages'
      PROVE  CancelInv'
  BY <1>4, <1>b, <1>d DEF CancelInv, LateRefused, Merging
<1>5. CASE MergeFailed \/ MergeSkipped \/ FinishItem
  <2>1. worker \in Merging /\ worker' = "merge"
    BY <1>5 DEF MergeFailed, MergeSkipped, FinishItem, Receive, Merging
  <2>2. run'.out = run.out /\ run'.targets = run.targets /\ run'.job = run.job
    BY <1>5, <1>a DEF MergeFailed, MergeSkipped, FinishItem, AnyRun
  <2> QED BY <1>4, <2>1, <2>2 DEF MergesPages, Merging
<1>6. CASE WritePages
  <2>1. PICK output \in {"pages", "empty"}, cohort \in {"all", "some", "none"} :
           /\ Receive(output)
           /\ run' = [run EXCEPT !.cohort = cohort,
                                 !.wrote = @ \/ (output = "pages" /\ cohort # "none"),
                                 !.warned = @ \/ output = "empty" \/ cohort # "all"]
           /\ worker' = "mark"
    BY <1>6 DEF WritePages
  <2>2. /\ run'.out = run.out /\ run'.targets = run.targets /\ run'.job = run.job
        /\ run'.received = run.received
    BY <1>a, <2>1 DEF AnyRun
  <2>3. run.received + 1 \in DOMAIN run.out /\ run.out[run.received + 1] = output
    BY <1>a, <2>1 DEF Receive
  <2>4. MergesPages' /\ worker \in Merging /\ worker' \in Merging
    BY <2>1, <2>2, <2>3 DEF MergesPages, Receive, Merging
  <2> QED BY <1>4, <2>2, <2>4
<1>7. CASE MarkFileIngested \/ InsertReviews
  <2>1. UNCHANGED run \/ run' = [run EXCEPT !.warned = TRUE]
    BY <1>7 DEF MarkFileIngested, InsertReviews, Warn
  <2>2. /\ run'.out = run.out /\ run'.targets = run.targets /\ run'.job = run.job
        /\ run'.received = run.received
    BY <1>a, <2>1 DEF AnyRun
  <2>3. worker \in {"mark", "review"} /\ worker' \in {"review", "item"}
    BY <1>7 DEF MarkFileIngested, InsertReviews
  <2>4. MergesPages'
    BY <2>2, <2>3 DEF CancelInv, MergesPages
  <2> QED BY <1>4, <2>2, <2>3, <2>4 DEF Merging
<1>8. CASE /\ worker' \in {"claim"} \cup Merging
           /\ ~ Fetch /\ ~ Claim /\ ~ MergeFailed /\ ~ MergeSkipped /\ ~ FinishItem
           /\ ~ WritePages /\ ~ MarkFileIngested /\ ~ InsertReviews
  <2>1. FALSE
    BY <1>8 DEF WorkerStep, Start, Recover, Pop, MergeCancelled, MergeJobError, MergeOver,
                RunFails, RunEnds, CheckCancel, ReportSuccess, ReportFailure, RetryPending,
                RetryPush, Rest, Merging
  <2> QED BY <2>1
<1>9. Fetch => worker' \in {"claim", "pop"}
  BY DEF Fetch, Rest
<1>10. Claim => worker' \in {"merge", "error"}
  BY DEF Claim
<1> QED BY <1>1, <1>2, <1>3, <1>5, <1>6, <1>7, <1>8, <1>9, <1>10 DEF Merging

LEMMA CancelInit == Init => CancelInv
<1>1. Init => late = {} /\ worker \notin {"claim"} \cup Merging
  BY DEF Init, Merging
<1> QED BY <1>1 DEF CancelInv, LateRefused, MergesPages, Merging

LEMMA CancelNext == Typed /\ CancelInv /\ [Next]_vars => CancelInv'
<1> SUFFICES ASSUME Typed, CancelInv, [Next]_vars PROVE CancelInv'
  OBVIOUS
<1>1. CASE Crash
  <2>1. UNCHANGED <<jobs, late>> /\ worker' = "down"
    BY <1>1 DEF Crash
  <2> QED BY <2>1 DEF CancelInv, LateRefused, MergesPages, Merging
<1>2. CASE UNCHANGED vars
  BY <1>2 DEF vars, CancelInv, LateRefused, MergesPages
<1> QED BY <1>1, <1>2, CancelRequest, CancelGenerator, CancelWorker DEF Next

\* A step of the merge loop that records a source does not record a late one.
LEMMA RecordsNoLate ==
    ASSUME Typed, CancelInv, NEW x \in late, NEW st, SetItem(st),
           run.received + 1 \in DOMAIN run.out, worker \in Merging,
           run.out[run.received + 1] \notin Refused
    PROVE  jobs'[x[1]].items[x[2]] = jobs[x[1]].items[x[2]]
<1>1. run.job \in Jobs /\ jobs \in [Jobs -> Job] /\ x \in Jobs \X Sources
  BY DEF Typed, AnyRun
<1>2. ~ (run.job = x[1] /\ Source = x[2])
  BY DEF CancelInv, LateRefused, Source
<1>3. CASE UNCHANGED jobs
  BY <1>3
<1>4. CASE jobs' = [jobs EXCEPT ![run.job].items[Source] = st]
  <2>1. CASE run.job # x[1]
    BY <1>1, <1>4, <2>1
  <2>2. CASE run.job = x[1]
    <3>1. jobs[run.job] \in Job /\ x[2] # Source
      BY <1>1, <1>2, <2>2
    <3>2. jobs'[run.job] = [jobs[run.job] EXCEPT !.items[Source] = st]
      BY <1>1, <1>4
    <3>3. jobs'[run.job].items = [jobs[run.job].items EXCEPT ![Source] = st]
      BY <3>1, <3>2 DEF Job
    <3>4. x[2] \in DOMAIN jobs[run.job].items
      BY <1>1, <3>1 DEF Job
    <3> QED BY <2>2, <3>1, <3>3, <3>4
  <2> QED BY <2>1, <2>2
<1> QED BY <1>3, <1>4 DEF SetItem

\* Every other step leaves the items of all rows alone.
LEMMA SameItems ==
    ASSUME Typed, [Next]_vars, ~ MergeFailed, ~ MergeSkipped, ~ FinishItem
    PROVE  \A j \in Jobs : jobs'[j].items = jobs[j].items
<1> DEFINE Same == \A j \in Jobs : jobs'[j].items = jobs[j].items
<1> SUFFICES Same
  OBVIOUS
<1>a. jobs \in [Jobs -> Job] /\ run.job \in Jobs
  BY DEF Typed, AnyRun
<1>b. UNCHANGED jobs => Same
  OBVIOUS
<1>c. ASSUME NEW r \in Jobs, NEW row, row.items = jobs[r].items,
             jobs' = [jobs EXCEPT ![r] = row]
      PROVE  Same
  BY <1>a, <1>c
<1>d. ASSUME NEW r \in Jobs, NEW st, SetStatus(r, st) PROVE Same
  <2> DEFINE row == [jobs[r] EXCEPT !.status = st]
  <2>1. row.items = jobs[r].items
    BY <1>a, jobs[r] \in Job DEF Job
  <2>2. jobs' = [jobs EXCEPT ![r] = row]
    BY <1>d DEF SetStatus
  <2> HIDE DEF row, Same
  <2> QED BY <2>1, <2>2, <1>c
<1>1. ASSUME NEW j \in Jobs,
             Enqueue(j) \/ ManualRetry(j) \/ RequestCancel(j) \/ HandlerPush(j)
      PROVE  Same
  <2>1. CASE ManualRetry(j)
    <3> DEFINE row == [[[jobs[j] EXCEPT !.status = "pending"] EXCEPT !.tries = 0]
                          EXCEPT !.cancel = FALSE]
    <3>1. jobs' = [jobs EXCEPT ![j] = row]
      BY <2>1, <1>a DEF ManualRetry
    <3>2. row.items = jobs[j].items
      BY <1>a, jobs[j] \in Job DEF Job
    <3> HIDE DEF row, Same
    <3> QED BY <3>1, <3>2, <1>c
  <2>2. CASE RequestCancel(j)
    <3> DEFINE row == [jobs[j] EXCEPT !.cancel = TRUE]
    <3>1. jobs' = [jobs EXCEPT ![j] = row]
      BY <2>2 DEF RequestCancel
    <3>2. row.items = jobs[j].items
      BY <1>a, jobs[j] \in Job DEF Job
    <3> HIDE DEF row, Same
    <3> QED BY <3>1, <3>2, <1>c
  <2> HIDE DEF Same
  <2> QED BY <1>1, <2>1, <2>2, <1>b, <1>d DEF Enqueue, HandlerPush
<1>2. CASE RetryPending
  <2> DEFINE row == [[jobs[run.job] EXCEPT !.status = "pending"]
                        EXCEPT !.tries = jobs[run.job].tries + 1]
  <2>1. UNCHANGED jobs \/ jobs' = [jobs EXCEPT ![run.job] = row]
    BY <1>2, <1>a, jobs[run.job] \in Job DEF RetryPending, Job
  <2>2. row.items = jobs[run.job].items
    BY <1>a, jobs[run.job] \in Job DEF Job
  <2> HIDE DEF row, Same
  <2> QED BY <2>1, <2>2, <1>a, <1>b, <1>c
<1> HIDE DEF Same
<1>3. CASE WorkerStep /\ ~ RetryPending
  <2>1. UNCHANGED jobs \/ \E st : SetStatus(run.job, st)
    BY <1>3 DEF WorkerStep, Start, Recover, Pop, Fetch, Claim, MergeCancelled, MergeJobError,
                WritePages, MarkFileIngested, InsertReviews, MergeOver, RunFails, RunEnds,
                CheckCancel, UpdateStatus, ReportSuccess, ReportFailure, RetryPush
  <2> QED BY <2>1, <1>a, <1>b, <1>d
<1>4. CASE GeneratorStep \/ GeneratorDies
  BY <1>4, <1>b, GeneratorKeeps
<1>5. CASE Crash \/ UNCHANGED vars
  BY <1>5, <1>b DEF Crash, vars
<1> QED BY <1>1, <1>2, <1>3, <1>4, <1>5 DEF Next

\* After a cancel request no source is processed that was not under way: the
\* peeks of the generator are enough, also for the sources generated ahead.
THEOREM CancelStopsWork == Spec => CancelBoundsWork
<1>1. ASSUME Typed, CancelInv, [Next]_vars, NEW x \in late
      PROVE  jobs'[x[1]].items[x[2]] = jobs[x[1]].items[x[2]]
  <2>1. CASE MergeFailed \/ MergeSkipped
    <3>1. run.out \in Seq(Outputs) /\ run.received \in Nat
      BY <1>1 DEF Typed, AnyRun
    <3>2. \E st : SetItem(st)
      BY <2>1 DEF MergeFailed, MergeSkipped
    <3>3. /\ run.received + 1 \in DOMAIN run.out /\ worker \in Merging
          /\ run.out[run.received + 1] \notin Refused
      BY <2>1, <3>1 DEF MergeFailed, MergeSkipped, Receive, Refused, Merging
    <3> QED BY <3>2, <3>3, <1>1, RecordsNoLate
  <2>2. CASE FinishItem
    <3>1. SetItem(ItemOutcome) /\ worker = "item"
      BY <2>2 DEF FinishItem
    <3>2. run.received + 1 \in DOMAIN run.out /\ run.out[run.received + 1] \notin Refused
      BY <1>1, <3>1 DEF CancelInv, MergesPages, Refused
    <3> QED BY <3>1, <3>2, <1>1, RecordsNoLate DEF Merging
  <2>3. CASE ~ MergeFailed /\ ~ MergeSkipped /\ ~ FinishItem
    <3>1. x[1] \in Jobs
      BY <1>1 DEF Typed
    <3> QED BY <2>3, <3>1, <1>1, SameItems
  <2> QED BY <2>1, <2>2, <2>3
<1>2. Typed /\ CancelInv /\ [Next]_vars =>
         [\A x \in late \cap late' : jobs'[x[1]].items[x[2]] = jobs[x[1]].items[x[2]]]_vars
  BY <1>1
<1> QED BY <1>2, TypedInit, TypedNext, CancelInit, CancelNext, PTL DEF Spec, CancelBoundsWork

-----------------------------------------------------------------------------
(* No job is forgotten: the rows against the list, the handlers and the    *)
(* run of the worker.                                                      *)

LEMMA ToSetAppend ==
    ASSUME NEW q \in Seq(Jobs), NEW j PROVE ToSet(q) \cup {j} \subseteq ToSet(Append(q, j))
<1>1. \A i \in DOMAIN q : i \in DOMAIN Append(q, j) /\ Append(q, j)[i] = q[i]
  OBVIOUS
<1>2. Len(q) + 1 \in DOMAIN Append(q, j) /\ Append(q, j)[Len(q) + 1] = j
  OBVIOUS
<1> QED BY <1>1, <1>2 DEF ToSet

LEMMA ToSetTail ==
    ASSUME NEW q \in Seq(Jobs), q # << >> PROVE ToSet(q) \subseteq {Head(q)} \cup ToSet(Tail(q))
<1> SUFFICES ASSUME NEW i \in DOMAIN q, i # 1 PROVE q[i] \in ToSet(Tail(q))
  BY DEF ToSet
<1>1. i - 1 \in DOMAIN Tail(q) /\ Tail(q)[i - 1] = q[i]
  OBVIOUS
<1> QED BY <1>1 DEF ToSet

LEMMA ToSetConcat ==
    ASSUME NEW p \in Seq(Jobs), NEW q \in Seq(Jobs)
    PROVE  ToSet(q) \subseteq ToSet(p \o q)
<1> SUFFICES ASSUME NEW i \in DOMAIN q PROVE q[i] \in ToSet(p \o q)
  BY DEF ToSet
<1>1. Len(p) + i \in DOMAIN (p \o q) /\ (p \o q)[Len(p) + i] = q[i]
  OBVIOUS
<1> QED BY <1>1 DEF ToSet

\* A sequence of Cardinality(S) different elements of S has all of them.
LEMMA SetToSeqsCover ==
    ASSUME NEW S, IsFiniteSet(S), NEW q \in SetToSeqs(S) PROVE S \subseteq ToSet(q)
<1> DEFINE D == 1 .. Cardinality(S)
<1>1. Cardinality(S) \in Nat
  BY FS_CardinalityType
<1>2. IsFiniteSet(D) /\ Cardinality(D) = Cardinality(S)
  <2>1. Cardinality(S) \in Int /\ 1 \in Int
    BY <1>1
  <2> QED BY <1>1, <2>1, FS_Interval
<1>3. q \in [D -> S] /\ \A i, j \in D : i # j => q[i] # q[j]
  BY DEF SetToSeqs
<1>4. q \in Injection(D, S)
  BY <1>3 DEF Injection, IsInjective
<1>5. q \in Surjection(D, S)
  BY <1>2, <1>4, FS_Injection
<1>6. \A s \in S : \E i \in D : q[i] = s
  BY <1>5 DEF Surjection
<1> QED BY <1>3, <1>6 DEF ToSet

LEMMA StatusOfOthers ==
    ASSUME Typed, NEW r \in Jobs, NEW st, SetStatus(r, st)
    PROVE  /\ jobs'[r].status = st
           /\ \A j \in Jobs \ {r} : jobs'[j].status = jobs[j].status
<1>1. jobs \in [Jobs -> Job] /\ jobs[r] \in Job
  BY DEF Typed
<1> QED BY <1>1 DEF SetStatus, Job

\* The run goes on, whatever it makes of the row of its job.
LEMMA StuckGoesOn ==
    ASSUME NoStuckJob,
           worker \in {"fetch", "claim"} \cup Busy, worker' \in {"claim"} \cup Busy,
           run'.job = run.job, UNCHANGED <<list, handlers>>, lost \ {run.job} \subseteq lost',
           \A j \in Jobs \ {run.job} : jobs'[j].status = jobs[j].status
    PROVE  NoStuckJob'
<1>1. \A j \in Jobs \ ({run.job} \cup lost') :
         /\ jobs'[j].status = "pending" => j \in ToSet(list) \cup handlers
         /\ jobs'[j].status = "running" => j \in ToSet(list)
  BY DEF NoStuckJob, Busy, Merging
<1> QED BY <1>1 DEF NoStuckJob

\* The run is over, its job finished or cut off.
LEMMA StuckRests ==
    ASSUME NoStuckJob, worker \in {"fetch", "claim"} \cup Busy, Rest,
           UNCHANGED <<list, handlers>>, lost \subseteq lost',
           \A j \in Jobs \ {run.job} : jobs'[j].status = jobs[j].status,
           jobs'[run.job].status \notin Unfinished \/ run.job \in lost'
    PROVE  NoStuckJob'
<1>1. \A j \in Jobs \ ({run.job} \cup lost') :
         /\ jobs'[j].status = "pending" => j \in ToSet(list) \cup handlers
         /\ jobs'[j].status = "running" => j \in ToSet(list)
  BY DEF NoStuckJob, Busy, Merging
<1> QED BY <1>1 DEF NoStuckJob, Rest, Unfinished

LEMMA StuckRequest ==
    ASSUME Typed, NoStuckJob, NEW j \in Jobs,
           Enqueue(j) \/ ManualRetry(j) \/ RequestCancel(j) \/ HandlerPush(j)
    PROVE  NoStuckJob'
<1>a. jobs \in [Jobs -> Job] /\ jobs[j] \in Job /\ list \in Seq(Jobs)
  BY DEF Typed
<1>1. ASSUME UNCHANGED <<list, worker, run, lost>>, handlers' = handlers \cup {j},
             jobs'[j].status = "pending",
             \A k \in Jobs \ {j} : jobs'[k].status = jobs[k].status
      PROVE  NoStuckJob'
  BY <1>1 DEF NoStuckJob
<1>2. CASE Enqueue(j)
  BY <1>1, <1>2, StatusOfOthers DEF Enqueue
<1>3. CASE ManualRetry(j)
  <2> DEFINE row == [[[jobs[j] EXCEPT !.status = "pending"] EXCEPT !.tries = 0]
                        EXCEPT !.cancel = FALSE]
  <2>1. jobs' = [jobs EXCEPT ![j] = row]
    BY <1>3, <1>a DEF ManualRetry
  <2>2. row.status = "pending"
    BY <1>a DEF Job
  <2> HIDE DEF row
  <2>3. jobs'[j].status = "pending" /\ \A k \in Jobs \ {j} : jobs'[k].status = jobs[k].status
    BY <1>a, <2>1, <2>2
  <2> QED BY <1>1, <1>3, <2>3 DEF ManualRetry
<1>4. CASE RequestCancel(j)
  <2>1. \A k \in Jobs : jobs'[k].status = jobs[k].status
    BY <1>4, <1>a DEF RequestCancel, Job
  <2> QED BY <1>4, <2>1 DEF RequestCancel, NoStuckJob
<1>5. CASE HandlerPush(j)
  <2>1. ToSet(list) \subseteq ToSet(list') /\ (j \in ToSet(list') \/ j \in lost') /\ lost \subseteq lost'
    BY <1>5, <1>a, ToSetAppend DEF HandlerPush, Push
  <2> QED BY <1>5, <2>1 DEF HandlerPush, NoStuckJob
<1> QED BY <1>2, <1>3, <1>4, <1>5

LEMMA StuckWorker ==
    ASSUME Typed, NoStuckJob, WorkerStep \/ GeneratorStep \/ GeneratorDies PROVE NoStuckJob'
<1>a. /\ jobs \in [Jobs -> Job] /\ run \in AnyRun /\ run.job \in Jobs /\ list \in Seq(Jobs)
  BY DEF Typed, AnyRun
<1> DEFINE OthersSame == \A j \in Jobs \ {run.job} : jobs'[j].status = jobs[j].status
<1>b. UNCHANGED jobs => OthersSame
  OBVIOUS
<1>c. ASSUME NEW st, SetStatus(run.job, st) PROVE OthersSame /\ jobs'[run.job].status = st
  BY <1>a, <1>c, StatusOfOthers
<1>d. ASSUME NEW st, SetItem(st) PROVE OthersSame
  BY <1>a, <1>d DEF SetItem
<1>e. ASSUME NEW st, st \notin Unfinished, UpdateStatus(st)
      PROVE  /\ OthersSame /\ lost \subseteq lost'
             /\ jobs'[run.job].status \notin Unfinished \/ run.job \in lost'
  BY <1>b, <1>c, <1>e DEF UpdateStatus
<1> HIDE DEF OthersSame
<1> USE DEF Unfinished
<1>1. CASE Start
  BY <1>1 DEF Start, NoStuckJob
<1>2. CASE Recover
  <2>1. PICK S \in SUBSET RecoverUnfinished :
               (\E q \in SetToSeqs(S) : list' = list \o q) /\ lost' = RecoverUnfinished \ S
    BY <1>2 DEF Recover
  <2>2. PICK q \in SetToSeqs(S) : list' = list \o q
    BY <2>1
  <2>3. S \subseteq Jobs /\ IsFiniteSet(S)
    BY <2>1, JobsAssumption, FS_Subset DEF RecoverUnfinished
  <2>4. q \in Seq(Jobs) /\ S \subseteq ToSet(q)
    BY <2>2, <2>3, RecoverTyped, SetToSeqsCover
  <2>5. S \subseteq ToSet(list')
    BY <1>a, <2>2, <2>4, ToSetConcat
  <2> QED BY <1>2, <2>1, <2>5 DEF Recover, RecoverUnfinished, NoStuckJob
<1>3. CASE Pop
  <2>1. ToSet(list) \subseteq {Head(list)} \cup ToSet(list')
    BY <1>3, <1>a, ToSetTail DEF Pop
  <2>2. CASE worker' = "fetch"
    <3>1. run' = [run EXCEPT !.job = Head(list)]
      BY <1>3, <2>2 DEF Pop
    <3>2. run'.job = Head(list)
      BY <1>a, <3>1 DEF AnyRun
    <3> QED BY <1>3, <2>1, <2>2, <3>2 DEF Pop, NoStuckJob, Busy, Merging
  <2>3. CASE UNCHANGED <<run, worker>> /\ Drop(Head(list))
    BY <1>3, <2>1, <2>3 DEF Pop, Drop, NoStuckJob, Busy, Merging
  <2> QED BY <1>3, <2>2, <2>3 DEF Pop
<1>4. CASE Fetch
  <2>1. CASE Rest
    <3>1. /\ lost' = IF jobs[run.job].status \in Unfinished THEN lost \cup {run.job} ELSE lost
          /\ worker = "fetch" /\ UNCHANGED <<jobs, list, handlers>>
      BY <1>4, <2>1 DEF Fetch, Rest, Drop
    <3>2. jobs'[run.job].status \notin Unfinished \/ run.job \in lost'
      BY <3>1
    <3> QED BY <2>1, <3>1, <3>2, <1>b, StuckRests DEF OthersSame
  <2>2. CASE run' = FreshRun(run.job, jobs[run.job]) /\ worker' = "claim" /\ UNCHANGED lost
    BY <1>4, <2>2, <1>b, StuckGoesOn DEF Fetch, FreshRun, OthersSame
  <2> QED BY <1>4, <2>1, <2>2 DEF Fetch
<1>5. CASE MergeCancelled
  BY <1>5, <1>e, StuckRests DEF MergeCancelled, Receive, Busy, Merging, OthersSame
<1>6. CASE ReportSuccess
  BY <1>6, <1>e, StuckRests DEF ReportSuccess, Busy, Merging, OthersSame
<1>7. CASE ReportFailure
  <2>1. CASE Rest /\ UpdateStatus("failed")
    BY <1>7, <2>1, <1>e, StuckRests DEF ReportFailure, Busy, Merging, OthersSame
  <2>2. CASE worker' = "backoff" /\ UNCHANGED <<jobs, run, lost>>
    BY <1>7, <2>2, <1>b, StuckGoesOn DEF ReportFailure, Busy, Merging, OthersSame
  <2> QED BY <1>7, <2>1, <2>2 DEF ReportFailure
<1>8. CASE MergeOver \/ RunEnds
  <2>0. worker \in Busy /\ UNCHANGED <<list, handlers, lost>>
    BY <1>8 DEF MergeOver, RunEnds, Busy, Merging
  <2>1. \/ Rest /\ SetStatus(run.job, "cancelled")
        \/ worker' \in Busy /\ UNCHANGED jobs
    BY <1>8 DEF MergeOver, RunEnds, CheckCancel, Busy, Merging
  <2>2. CASE Rest /\ SetStatus(run.job, "cancelled")
    BY <2>0, <2>2, <1>c, StuckRests DEF OthersSame
  <2>3. CASE worker' \in Busy /\ UNCHANGED jobs
    <3>1. Continues
      BY <1>8, <2>3, RunContinues DEF WorkerStep, MergeOver, RunEnds, Pop, Fetch, Rest, Busy, Merging
    <3> QED BY <2>0, <2>3, <3>1, <1>b, StuckGoesOn DEF Continues, OthersSame
  <2> QED BY <2>1, <2>2, <2>3
<1>9. CASE Claim
  <2>1. OthersSame
    BY <1>9, <1>b, <1>c DEF Claim
  <2>2. Continues
    BY <1>9, RunContinues DEF WorkerStep, Claim, Pop, Fetch, Rest
  <2> QED BY <1>9, <2>1, <2>2, StuckGoesOn DEF Claim, Continues, Busy, Merging, OthersSame
<1>10. CASE MergeFailed \/ MergeSkipped \/ FinishItem
  <2>1. OthersSame
    BY <1>10, <1>d DEF MergeFailed, MergeSkipped, FinishItem
  <2>2. /\ worker \in Merging /\ worker' = "merge" /\ UNCHANGED <<list, handlers, lost>>
    BY <1>10 DEF MergeFailed, MergeSkipped, FinishItem, Receive, Merging
  <2>3. Continues
    BY <1>10, <2>2, RunContinues DEF WorkerStep, Pop, Fetch, Rest, Merging
  <2> QED BY <2>1, <2>2, <2>3, StuckGoesOn DEF Continues, Busy, Merging, OthersSame
<1>11. CASE MergeJobError \/ WritePages \/ MarkFileIngested \/ InsertReviews \/ RunFails
  <2>1. worker \in Busy /\ worker' \in Busy /\ UNCHANGED <<jobs, list, handlers, lost>>
    BY <1>11 DEF MergeJobError, WritePages, MarkFileIngested, InsertReviews, RunFails, Receive,
                 Busy, Merging
  <2>2. Continues
    BY <1>11, <2>1, RunContinues DEF WorkerStep, Pop, Fetch, Rest, Busy, Merging
  <2> QED BY <2>1, <2>2, <1>b, StuckGoesOn DEF Continues, OthersSame
<1>12. CASE GeneratorStep \/ GeneratorDies
  <2>1. worker \in Merging
    BY <1>12 DEF GeneratorStep, GeneratorDies, TakeUp, Generated
  <2> QED BY <1>12, <2>1, <1>b, GeneratorKeeps, StuckGoesOn DEF Busy, OthersSame
<1>13. CASE RetryPending
  <2>1. CASE Rest /\ UNCHANGED jobs /\ lost' = lost \cup {run.job}
    BY <1>13, <2>1, <1>b, StuckRests DEF RetryPending, Busy, OthersSame
  <2>2. CASE /\ jobs' = [jobs EXCEPT ![run.job].status = "pending", ![run.job].tries = @ + 1]
             /\ worker' = "push" /\ UNCHANGED <<run, lost>>
    <3> DEFINE row == [[jobs[run.job] EXCEPT !.status = "pending"]
                          EXCEPT !.tries = jobs[run.job].tries + 1]
    <3>1. jobs' = [jobs EXCEPT ![run.job] = row]
      BY <2>2, <1>a, jobs[run.job] \in Job DEF Job
    <3>2. row.status = "pending"
      BY <1>a, jobs[run.job] \in Job DEF Job
    <3> HIDE DEF row
    <3>3. jobs'[run.job].status = "pending"
      BY <1>a, <3>1, <3>2
    <3>4. \A j \in Jobs \ {run.job} : jobs'[j].status = jobs[j].status
      BY <1>a, <3>1
    <3> QED BY <1>13, <2>2, <3>3, <3>4 DEF RetryPending, NoStuckJob, Busy, Merging
  <2> QED BY <1>13, <2>1, <2>2 DEF RetryPending
<1>14. CASE RetryPush
  <2>1. /\ ToSet(list) \subseteq ToSet(list') /\ lost \subseteq lost'
        /\ run.job \in ToSet(list') \/ run.job \in lost'
    BY <1>14, <1>a, ToSetAppend DEF RetryPush, Push
  <2> QED BY <1>14, <2>1 DEF RetryPush, Rest, NoStuckJob, Busy, Merging
<1> QED BY <1>1, <1>2, <1>3, <1>4, <1>5, <1>6, <1>7, <1>8, <1>9, <1>10, <1>11, <1>12, <1>13, <1>14
        DEF WorkerStep

\* No interleaving of requests, redeliveries, retries and crashes leaves an
\* unfinished job where neither the list nor a handler nor the worker knows of
\* it, unless an error the code ignores dropped its wakeup (lost).
THEOREM NoJobForgotten == Spec => []NoStuckJob
<1>1. Init => NoStuckJob
  BY DEF Init, NoStuckJob, NewRow
<1>2. ASSUME Typed, NoStuckJob, [Next]_vars PROVE NoStuckJob'
  <2>1. CASE Crash
    BY <2>1 DEF Crash, NoStuckJob
  <2>2. CASE UNCHANGED vars
    BY <1>2, <2>2 DEF vars, NoStuckJob
  <2> QED BY <1>2, <2>1, <2>2, StuckRequest, StuckWorker DEF Next
<1> QED BY <1>1, <1>2, TypedInit, TypedNext, PTL DEF Spec

-----------------------------------------------------------------------------
(* The targets of a run: the sources of its job that the row does not have *)
(* as done, each once.  They are read off the list of paths from the       *)
(* front, so what is said of them is proved by induction on what was read. *)

Round(p, D, f, n) ==
    IF n = 0 THEN << >>
    ELSE IF p[n] \in D \cup ToSet(f[n - 1]) THEN f[n - 1] ELSE Append(f[n - 1], p[n])

IsReading(p, D, f, m) == f = [n \in 0..m |-> Round(p, D, f, n)]

\* The recursive definition has a solution.
LEMMA ReadingExists ==
  ASSUME NEW p, NEW D, NEW m \in Nat
  PROVE  \E f : IsReading(p, D, f, m)
<1> DEFINE Good == {n \in Nat : \E f : IsReading(p, D, f, n)}
<1>1. 0 \in Good
  <2> DEFINE f == [n \in 0..0 |-> << >>]
  <2>1. IsReading(p, D, f, 0)
    BY DEF IsReading, Round
  <2> QED BY <2>1
<1>2. ASSUME NEW n \in Good PROVE n + 1 \in Good
  <2>1. PICK f : IsReading(p, D, f, n)
    OBVIOUS
  <2> DEFINE g == [k \in 0..n + 1 |-> IF k <= n THEN f[k] ELSE Round(p, D, f, k)]
  <2>2. ASSUME NEW k \in 0..n + 1 PROVE g[k] = Round(p, D, g, k)
    <3>1. CASE k <= n
      <4>1. g[k] = f[k] /\ f[k] = Round(p, D, f, k)
        BY <2>1, <3>1 DEF IsReading
      <4>2. k # 0 => g[k - 1] = f[k - 1]
        BY <3>1
      <4> QED BY <4>1, <4>2 DEF Round
    <3>2. CASE k = n + 1
      <4>1. g[k] = Round(p, D, f, k) /\ g[k - 1] = f[k - 1]
        BY <3>2
      <4> QED BY <4>1 DEF Round
    <3> QED BY <3>1, <3>2
  <2>3. IsReading(p, D, g, n + 1)
    BY <2>2 DEF IsReading
  <2> QED BY <2>3
<1>3. Good = Nat
  <2> HIDE DEF Good
  <2> QED BY <1>1, <1>2, Induction!InductiveSet DEF Good
<1> QED BY <1>3

\* q has each of the first n paths that is not in D, once.
Remaining(p, D, q, n) ==
    /\ q \in Seq(Sources)
    /\ \A i, k \in DOMAIN q : q[i] = q[k] => i = k
    /\ \A i \in DOMAIN q : q[i] \notin D /\ \E k \in 1..n : q[i] = p[k]
    /\ \A k \in 1..n : p[k] \in D \/ \E i \in DOMAIN q : q[i] = p[k]

LEMMA ReadingStep ==
  ASSUME NEW p \in Seq(Sources), NEW D, NEW f, IsReading(p, D, f, Len(p)),
         NEW n \in Nat, n + 1 <= Len(p), Remaining(p, D, f[n], n)
  PROVE  Remaining(p, D, f[n + 1], n + 1)
<1> DEFINE s == p[n + 1]
           q == f[n]
<1>1. f[n + 1] = IF s \in D \cup ToSet(q) THEN q ELSE Append(q, s)
  <2>1. n + 1 \in 0..Len(p) /\ n + 1 # 0 /\ (n + 1) - 1 = n
    OBVIOUS
  <2>2. f[n + 1] = Round(p, D, f, n + 1)
    BY <2>1 DEF IsReading
  <2> QED BY <2>1, <2>2 DEF Round
<1>2. s \in Sources /\ q \in Seq(Sources)
  BY DEF Remaining
<1>3. \A k \in 1..n + 1 : k \in 1..n \/ k = n + 1
  OBVIOUS
<1>4. \A k \in 1..n : k \in 1..n + 1
  OBVIOUS
<1> HIDE DEF s
<1>5. CASE s \in D
  <2>1. f[n + 1] = q
    BY <1>1, <1>5
  <2> QED BY <1>3, <1>4, <1>5, <2>1 DEF Remaining, s
<1>6. CASE s \in ToSet(q)
  <2>1. f[n + 1] = q
    BY <1>1, <1>6
  <2>2. \E i \in DOMAIN q : q[i] = s
    BY <1>6 DEF ToSet
  <2> QED BY <1>3, <1>4, <2>1, <2>2 DEF Remaining, s
<1>7. CASE s \notin D \cup ToSet(q)
  <2> DEFINE r == Append(q, s)
  <2>1. /\ r \in Seq(Sources) /\ DOMAIN r = 1..Len(q) + 1 /\ DOMAIN q = 1..Len(q)
        /\ Len(q) \in Nat /\ r[Len(q) + 1] = s
    BY <1>2
  <2>2. \A i \in DOMAIN q : i \in DOMAIN r /\ r[i] = q[i]
    BY <1>2
  <2>3. \A i \in DOMAIN r : i \in DOMAIN q \/ i = Len(q) + 1
    BY <2>1
  <2>4. \A i \in DOMAIN q : q[i] # s
    BY <1>7 DEF ToSet
  <2>5. f[n + 1] = r
    BY <1>1, <1>7
  <2> HIDE DEF r, q
  <2>6. Remaining(p, D, q, n)
    BY DEF q
  <2>7. n + 1 \in 1..n + 1 /\ Len(q) + 1 \in DOMAIN r
    BY <2>1
  <2>8. \A i, k \in DOMAIN r : r[i] = r[k] => i = k
    BY <2>1, <2>2, <2>3, <2>4, <2>6 DEF Remaining
  <2>9. \A i \in DOMAIN r : r[i] \notin D /\ \E k \in 1..n + 1 : r[i] = p[k]
    BY <1>4, <1>7, <2>1, <2>2, <2>3, <2>6, <2>7, SMTT(30) DEF Remaining, s
  <2>10. \A k \in 1..n + 1 : p[k] \in D \/ \E i \in DOMAIN r : r[i] = p[k]
    BY <1>3, <2>1, <2>2, <2>6, <2>7 DEF Remaining, s
  <2>11. Remaining(p, D, r, n + 1)
    BY <2>1, <2>8, <2>9, <2>10 DEF Remaining
  <2> QED BY <2>5, <2>11
<1> QED BY <1>5, <1>6, <1>7

\* Each source of the job that is not done is a target, once.
LEMMA TargetsRemain ==
  ASSUME NEW j \in Jobs, NEW row
  PROVE  Remaining(PathsOf[j], PriorDone(j, row), Targets(j, row), Len(PathsOf[j]))
<1> DEFINE p == PathsOf[j]
           D == PriorDone(j, row)
           f == CHOOSE g : IsReading(p, D, g, Len(p))
<1>1. p \in Seq(Sources) /\ Len(p) \in Nat
  BY JobsAssumption
<1>2. IsReading(p, D, f, Len(p))
  BY <1>1, ReadingExists
<1>3. Targets(j, row) = f[Len(p)]
  BY DEF Targets, IsReading, Round
<1> HIDE DEF p, D, f
<1> DEFINE Good == {n \in Nat : n <= Len(p) => Remaining(p, D, f[n], n)}
<1>4. 0 \in Good
  <2>1. f[0] = << >>
    BY <1>1, <1>2 DEF IsReading, Round
  <2>2. << >> \in Seq(Sources) /\ DOMAIN << >> = {} /\ 1..0 = {}
    OBVIOUS
  <2>3. Remaining(p, D, << >>, 0)
    BY <2>2 DEF Remaining
  <2> QED BY <2>1, <2>3
<1>5. ASSUME NEW n \in Good PROVE n + 1 \in Good
  <2>1. ASSUME n + 1 <= Len(p) PROVE Remaining(p, D, f[n + 1], n + 1)
    <3>1. n \in Nat /\ n <= Len(p)
      BY <1>1, <2>1
    <3>2. Remaining(p, D, f[n], n)
      BY <3>1
    <3> QED BY <1>1, <1>2, <2>1, <3>1, <3>2, ReadingStep
  <2> QED BY <2>1
<1>6. Good = Nat
  <2> HIDE DEF Good
  <2> QED BY <1>4, <1>5, Induction!InductiveSet DEF Good
<1>7. Len(p) \in Good
  BY <1>1, <1>6
<1>8. Remaining(p, D, f[Len(p)], Len(p))
  BY <1>1, <1>7
<1> QED BY <1>3, <1>8 DEF p, D

\* In the terms of the runs: what a new run takes up.
LEMMA FreshTargets ==
  ASSUME NEW j \in Jobs, NEW row \in Job
  PROVE  LET q == Targets(j, row) IN
         /\ q \in Seq(Sources)
         /\ \A i, k \in DOMAIN q : q[i] = q[k] => i = k
         /\ \A i \in DOMAIN q : q[i] \in ToSet(PathsOf[j]) /\ row.items[q[i]] # "done"
         /\ \A s \in ToSet(PathsOf[j]) :
               row.items[s] = "done" \/ \E i \in DOMAIN q : q[i] = s
<1>1. PathsOf[j] \in Seq(Sources)
  BY JobsAssumption
<1>2. \A k \in 1..Len(PathsOf[j]) : PathsOf[j][k] \in ToSet(PathsOf[j])
  BY <1>1 DEF ToSet
<1>3. \A s \in ToSet(PathsOf[j]) : \E k \in 1..Len(PathsOf[j]) : PathsOf[j][k] = s
  BY <1>1 DEF ToSet
<1> DEFINE q == Targets(j, row)
<1>4. Remaining(PathsOf[j], PriorDone(j, row), q, Len(PathsOf[j]))
  BY TargetsRemain
<1> HIDE DEF q
<1>5. \A s \in ToSet(PathsOf[j]) : s \in PriorDone(j, row) <=> row.items[s] = "done"
  BY DEF PriorDone
<1>6. q \in Seq(Sources) /\ \A i, k \in DOMAIN q : q[i] = q[k] => i = k
  BY <1>4 DEF Remaining
<1>7. \A i \in DOMAIN q : q[i] \in ToSet(PathsOf[j]) /\ row.items[q[i]] # "done"
  BY <1>2, <1>4, <1>5 DEF Remaining
<1>8. \A s \in ToSet(PathsOf[j]) : row.items[s] = "done" \/ \E i \in DOMAIN q : q[i] = s
  BY <1>3, <1>4, <1>5 DEF Remaining
<1> QED BY <1>6, <1>7, <1>8 DEF q

\* The number of sources that are done already.
LEMMA FreshDone ==
  ASSUME NEW j \in Jobs, NEW row \in Job
  PROVE  /\ PriorCount(j, row) \in Nat
         /\ PriorCount(j, row) > 0 => PriorDone(j, row) # {}
<1> DEFINE p == PathsOf[j]
           P == {n \in DOMAIN p : p[n] \in PriorDone(j, row)}
<1>1. DOMAIN p = 1..Len(p) /\ Len(p) \in Nat
  BY JobsAssumption
<1>2. IsFiniteSet(P)
  <2>1. IsFiniteSet(1..Len(p))
    BY <1>1, FS_Interval
  <2> QED BY <1>1, <2>1, FS_Subset
<1>3. PriorDone(j, row) = {} => P = {}
  OBVIOUS
<1>4. PriorCount(j, row) = Cardinality(P)
  BY DEF PriorCount
<1> HIDE DEF P
<1> QED BY <1>2, <1>3, <1>4, FS_CardinalityType, FS_EmptySet

-----------------------------------------------------------------------------
(* The whole type invariant.  The merge loop writes a source it was sent,  *)
(* and the generator sends what it took up: the three positions lie within *)
(* each other.                                                             *)

InSource == {"mark", "review", "item"}

Within ==
    /\ run.received <= Len(run.out) /\ Len(run.out) <= Len(run.targets)
    /\ worker \in InSource => run.received < Len(run.out)
    /\ worker = "claim" => run.out = << >>

Whole ==
    /\ run.targets \in Seq(Sources)
    /\ run.done \in Nat /\ run.skipped \in Nat
    /\ run.wrote \in BOOLEAN /\ run.warned \in BOOLEAN /\ run.transient \in BOOLEAN

Stored ==
    /\ written \subseteq Sources /\ ingested \subseteq Sources /\ reviewed \subseteq Sources
    /\ calls \in 0..MaxCalls
    /\ lost \subseteq Jobs

TypedInv == Typed /\ Within /\ Whole /\ Stored

LEMMA TypedInvGives == TypedInv => TypeOK
<1> SUFFICES ASSUME TypedInv PROVE TypeOK
  OBVIOUS
<1>1. run \in Run
  BY DEF TypedInv, Typed, Whole, AnyRun, Run
<1> QED BY <1>1 DEF TypedInv, Typed, Stored, TypeOK, Places

\* What a new run of a job remembers.
LEMMA FreshRunTyped ==
  ASSUME NEW j \in Jobs, NEW row \in Job, run' = FreshRun(j, row)
  PROVE  /\ Whole'
         /\ run'.received = 0 /\ run'.out = << >> /\ Len(run'.targets) \in Nat
<1>1. Targets(j, row) \in Seq(Sources) /\ PriorCount(j, row) \in Nat
  BY FreshTargets, FreshDone
<1>2. /\ run'.targets = Targets(j, row) /\ run'.done = PriorCount(j, row)
      /\ run'.skipped = 0 /\ run'.wrote = FALSE /\ run'.warned = FALSE
      /\ run'.transient = FALSE /\ run'.received = 0 /\ run'.out = << >>
  BY DEF FreshRun
<1>3. run'.targets \in Seq(Sources)
  BY <1>1, <1>2
<1>4. Len(run'.targets) \in Nat
  BY <1>3
<1>5. Whole'
  <2>1. run'.done \in Nat
    BY <1>1, <1>2
  <2>2. run'.skipped \in Nat
    BY <1>2
  <2>3. run'.wrote \in BOOLEAN /\ run'.warned \in BOOLEAN /\ run'.transient \in BOOLEAN
    BY <1>2
  <2> QED BY <1>3, <2>1, <2>2, <2>3 DEF Whole
<1> QED BY <1>2, <1>4, <1>5

LEMMA IdleWhole ==
  ASSUME run' = NoRun, worker' \notin InSource
  PROVE  Whole' /\ Within'
<1>1. AnyJob \in Jobs
  BY JobsAssumption DEF AnyJob
<1>2. NewRow \in Job
  BY DEF NewRow, Job, Statuses, NoItems
<1>3. Whole' /\ run'.received = 0 /\ run'.out = << >> /\ Len(run'.targets) \in Nat
  BY <1>1, <1>2, FreshRunTyped DEF NoRun
<1>4. Len(run'.out) = 0
  BY <1>3
<1>5. 0 <= Len(run'.out) /\ Len(run'.out) <= Len(run'.targets)
  BY <1>3, <1>4
<1> QED BY <1>3, <1>5 DEF Within

LEMMA RestWhole == Rest => Whole' /\ Within'
BY IdleWhole DEF Rest, InSource

\* A step that leaves the positions of the run alone.
LEMMA WithinKept ==
  ASSUME Within, run'.received = run.received, run'.out = run.out, run'.targets = run.targets,
         worker' \in InSource => worker \in InSource, worker' = "claim" => worker = "claim"
  PROVE  Within'
BY DEF Within

LEMMA RequestWhole ==
  ASSUME TypedInv, NEW j \in Jobs,
         Enqueue(j) \/ ManualRetry(j) \/ RequestCancel(j) \/ HandlerPush(j)
  PROVE  Within' /\ Whole' /\ Stored'
<1>1. UNCHANGED <<run, worker, stores>>
  BY DEF Enqueue, ManualRetry, RequestCancel, HandlerPush
<1>2. calls' \in 0..MaxCalls
  BY JobsAssumption
     DEF TypedInv, Stored, Enqueue, ManualRetry, RequestCancel, HandlerPush, Request
<1>3. lost' \subseteq Jobs
  BY DEF TypedInv, Stored, Enqueue, ManualRetry, RequestCancel, HandlerPush, Push
<1> QED BY <1>1, <1>2, <1>3 DEF TypedInv, Within, Whole, Stored, stores

\* The sets of sources and the counters, in a step of the worker.
LEMMA WorkerStored ==
  ASSUME TypedInv, WorkerStep PROVE Stored'
<1>a. run \in AnyRun /\ run.job \in Jobs /\ run.out \in Seq(Outputs) /\ run.received \in Nat
  BY DEF TypedInv, Typed, AnyRun
<1>b. run.received < Len(run.out) => Source \in Sources
  <2>1. run.targets \in Seq(Sources) /\ Len(run.out) <= Len(run.targets)
    BY DEF TypedInv, Whole, Within
  <2>2. Len(run.out) \in Nat /\ Len(run.targets) \in Nat
    BY <1>a, <2>1
  <2> QED BY <1>a, <2>1, <2>2 DEF Source
<1>c. UNCHANGED calls
  BY DEF WorkerStep, Start, Recover, Pop, Fetch, Claim, MergeCancelled, MergeJobError,
         MergeFailed, MergeSkipped, WritePages, MarkFileIngested, InsertReviews, FinishItem,
         MergeOver, RunFails, RunEnds, ReportSuccess, ReportFailure, RetryPending, RetryPush
<1>e. RecoverUnfinished \subseteq Jobs
  BY DEF RecoverUnfinished
<1>d. lost' \subseteq Jobs
  <2>1. lost \subseteq Jobs /\ (Pop => Head(list) \in Jobs)
    BY DEF Pop, TypedInv, Typed, Stored
  <2> QED BY <1>a, <1>e, <2>1
     DEF WorkerStep, Start, Recover, Pop, Fetch, Claim, MergeCancelled, MergeJobError,
         MergeFailed, MergeSkipped, WritePages, MarkFileIngested, InsertReviews, FinishItem,
         MergeOver, RunFails, RunEnds, ReportSuccess, ReportFailure, RetryPending, RetryPush,
         UpdateStatus, Push, Drop
<1>1. CASE WritePages
  <2>1. run.received < Len(run.out) /\ UNCHANGED <<ingested, reviewed>>
    BY <1>1 DEF WritePages, Receive
  <2>2. written' \subseteq written \cup {Source}
    BY <1>1 DEF WritePages
  <2> QED BY <1>a, <1>b, <1>c, <1>d, <1>e, <2>1, <2>2 DEF TypedInv, Stored
<1>2. CASE MarkFileIngested \/ InsertReviews
  <2>1. worker \in InSource /\ UNCHANGED written
    BY <1>2 DEF MarkFileIngested, InsertReviews, InSource
  <2>2. run.received < Len(run.out)
    BY <2>1 DEF TypedInv, Within
  <2>3. ingested' \subseteq ingested \cup {Source} /\ reviewed' \subseteq reviewed \cup {Source}
    BY <1>2 DEF MarkFileIngested, InsertReviews
  <2> QED BY <1>a, <1>b, <1>c, <1>d, <1>e, <2>1, <2>2, <2>3 DEF TypedInv, Stored
<1>3. CASE ~ WritePages /\ ~ MarkFileIngested /\ ~ InsertReviews
  <2>1. UNCHANGED stores
    BY <1>3 DEF WorkerStep, Start, Recover, Pop, Fetch, Claim, MergeCancelled, MergeJobError,
                MergeFailed, MergeSkipped, FinishItem, MergeOver, RunFails, RunEnds,
                ReportSuccess, ReportFailure, RetryPending, RetryPush
  <2> QED BY <1>a, <1>c, <1>d, <1>e, <2>1 DEF TypedInv, Stored, stores
<1> QED BY <1>1, <1>2, <1>3
\* How far a step of the merge loop gets, and what else it notes.
LEMMA WorkerWhole ==
  ASSUME TypedInv, WorkerStep PROVE Whole' /\ Within'
<1>a. /\ run \in AnyRun /\ run.job \in Jobs /\ jobs \in [Jobs -> Job]
      /\ run.out \in Seq(Outputs) /\ run.received \in Nat /\ run.targets \in Seq(Sources)
  BY DEF TypedInv, Typed, Whole, AnyRun
<1>b. Len(run.out) \in Nat /\ Len(run.targets) \in Nat
  BY <1>a
<1>c. Whole /\ Within
  BY DEF TypedInv
<1>d. UNCHANGED run => Whole'
  BY <1>c DEF Whole
<1>e. ASSUME NEW b \in BOOLEAN, run' = [run EXCEPT !.transient = b]
      PROVE  Whole' /\ run'.received = run.received /\ run'.out = run.out
                    /\ run'.targets = run.targets
  BY <1>a, <1>c, <1>e DEF Whole, AnyRun
<1>f. ASSUME NEW b \in BOOLEAN, run' = [run EXCEPT !.warned = b]
      PROVE  Whole' /\ run'.received = run.received /\ run'.out = run.out
                    /\ run'.targets = run.targets
  BY <1>a, <1>c, <1>f DEF Whole, AnyRun
<1>g. ASSUME run.received < Len(run.out), run'.received = run.received + 1,
             run'.out = run.out, run'.targets = run.targets, worker' = "merge"
      PROVE  Within'
  BY <1>a, <1>b, <1>c, <1>g DEF Within, InSource
<1>1. CASE Start \/ Recover \/ RetryPush \/ RetryPending
  <2>1. Rest \/ (UNCHANGED run /\ worker' \notin InSource \cup {"claim"})
    BY <1>1 DEF Start, Recover, RetryPush, RetryPending, InSource
  <2> QED BY <1>c, <1>d, <2>1, RestWhole, WithinKept
<1>2. CASE Pop
  <2>1. \/ run' = [run EXCEPT !.job = Head(list)] /\ worker' = "fetch"
        \/ UNCHANGED run /\ worker' = "pop"
    BY <1>2 DEF Pop
  <2>2. Whole' /\ run'.received = run.received /\ run'.out = run.out
               /\ run'.targets = run.targets
    BY <1>a, <1>c, <2>1 DEF Whole, AnyRun
  <2> QED BY <1>c, <2>1, <2>2, WithinKept DEF InSource
<1>3. CASE Fetch
  <2>1. CASE Rest
    BY <2>1, RestWhole
  <2>2. CASE run' = FreshRun(run.job, jobs[run.job]) /\ worker' = "claim"
    <3>1. jobs[run.job] \in Job
      BY <1>a
    <3>2. Whole' /\ run'.received = 0 /\ run'.out = << >> /\ Len(run'.targets) \in Nat
      BY <1>a, <2>2, <3>1, FreshRunTyped
    <3>3. Len(run'.out) = 0
      BY <3>2
    <3> QED BY <2>2, <3>2, <3>3 DEF Within, InSource
  <2> QED BY <1>3, <2>1, <2>2 DEF Fetch
<1>4. CASE Claim \/ MergeJobError \/ RunFails
  <2>1. UNCHANGED run \/ \E b \in BOOLEAN : run' = [run EXCEPT !.transient = b]
    BY <1>4 DEF Claim, MergeJobError, RunFails
  <2>2. worker' \in {"merge", "error"}
    BY <1>4 DEF Claim, MergeJobError, RunFails
  <2> QED BY <1>c, <1>d, <1>e, <2>1, <2>2, WithinKept DEF InSource
<1>5. CASE MergeCancelled \/ ReportSuccess \/ ReportFailure
  <2>1. Rest \/ (UNCHANGED run /\ worker' = "backoff")
    BY <1>5 DEF MergeCancelled, ReportSuccess, ReportFailure
  <2> QED BY <1>c, <1>d, <2>1, RestWhole, WithinKept DEF InSource
<1>6. CASE MergeFailed
  <2>1. run' = [run EXCEPT !.received = @ + 1, !.warned = TRUE] /\ worker' = "merge"
    BY <1>6 DEF MergeFailed, Receive
  <2>2. run.received < Len(run.out)
    BY <1>6 DEF MergeFailed, Receive
  <2>3. /\ run'.received = run.received + 1 /\ run'.out = run.out
        /\ run'.targets = run.targets /\ Whole'
    BY <1>a, <1>c, <2>1 DEF Whole, AnyRun
  <2> QED BY <1>g, <2>1, <2>2, <2>3
<1>7. CASE MergeSkipped
  <2>1. /\ run' = [run EXCEPT !.received = @ + 1, !.done = @ + 1, !.skipped = @ + 1]
        /\ worker' = "merge"
    BY <1>7 DEF MergeSkipped, Receive
  <2>2. run.received < Len(run.out)
    BY <1>7 DEF MergeSkipped, Receive
  <2>3. /\ run'.received = run.received + 1 /\ run'.out = run.out
        /\ run'.targets = run.targets /\ run'.done = run.done + 1
        /\ run'.skipped = run.skipped + 1 /\ run'.wrote = run.wrote
        /\ run'.warned = run.warned /\ run'.transient = run.transient
    BY <1>a, <2>1 DEF AnyRun
  <2>4. Whole'
    BY <1>c, <2>3 DEF Whole
  <2> QED BY <1>g, <2>1, <2>2, <2>3, <2>4
<1>8. CASE WritePages
  <2>1. PICK output \in {"pages", "empty"}, cohort \in {"all", "some", "none"} :
           /\ Receive(output)
           /\ run' = [run EXCEPT !.cohort = cohort,
                                 !.wrote = @ \/ (output = "pages" /\ cohort # "none"),
                                 !.warned = @ \/ output = "empty" \/ cohort # "all"]
           /\ worker' = "mark"
    BY <1>8 DEF WritePages
  <2>2. /\ run'.received = run.received /\ run'.out = run.out /\ run'.targets = run.targets
        /\ run'.done = run.done /\ run'.skipped = run.skipped
        /\ run'.transient = run.transient
    BY <1>a, <2>1 DEF AnyRun
  <2>3. run'.wrote \in BOOLEAN /\ run'.warned \in BOOLEAN
    BY <1>a, <1>c, <2>1 DEF Whole, AnyRun
  <2>4. run.received < Len(run.out)
    BY <2>1 DEF Receive
  <2> QED BY <1>c, <2>1, <2>2, <2>3, <2>4 DEF Whole, Within
<1>9. CASE MarkFileIngested \/ InsertReviews
  <2>1. UNCHANGED run \/ run' = [run EXCEPT !.warned = TRUE]
    BY <1>9 DEF MarkFileIngested, InsertReviews, Warn
  <2>2. worker \in InSource /\ worker' \in InSource
    BY <1>9 DEF MarkFileIngested, InsertReviews, InSource
  <2> QED BY <1>c, <1>d, <1>f, <2>1, <2>2, WithinKept DEF InSource
<1>10. CASE FinishItem
  <2>1. worker = "item" /\ worker' = "merge"
    BY <1>10 DEF FinishItem
  <2>2. run' = [run EXCEPT !.received = @ + 1,
                           !.done = IF ItemOutcome = "done" THEN @ + 1 ELSE @]
    BY <1>10 DEF FinishItem
  <2>3. /\ run'.received = run.received + 1 /\ run'.out = run.out
        /\ run'.targets = run.targets
        /\ run'.skipped = run.skipped /\ run'.wrote = run.wrote
        /\ run'.warned = run.warned /\ run'.transient = run.transient
    BY <1>a, <2>2 DEF AnyRun
  <2>4. run'.done \in {run.done, run.done + 1}
    BY <1>a, <2>2 DEF AnyRun
  <2>5. Whole'
    BY <1>c, <2>3, <2>4 DEF Whole
  <2>6. run.received < Len(run.out)
    BY <1>c, <2>1 DEF Within, InSource
  <2> QED BY <1>g, <2>1, <2>3, <2>5, <2>6
<1>11. CASE MergeOver \/ RunEnds
  <2>1. \/ Rest \/ UNCHANGED run
        \/ \E b \in BOOLEAN : run' = [run EXCEPT !.transient = b]
        \/ \E b \in BOOLEAN : run' = [run EXCEPT !.warned = b]
    <3>1. CASE MergeOver
      BY <3>1 DEF MergeOver, CheckCancel
    <3>2. CASE RunEnds
      <4>1. PICK w \in BOOLEAN :
              CheckCancel("report", [run EXCEPT !.warned = @ \/ AllSkipped \/ w])
        BY <3>2 DEF RunEnds
      <4> DEFINE b == run.warned \/ AllSkipped \/ w
      <4>2. b \in BOOLEAN
        OBVIOUS
      <4>3. CASE run' = [run EXCEPT !.warned = b]
        BY <4>2, <4>3
      <4>4. CASE run' # [run EXCEPT !.warned = b]
        BY <4>1, <4>4 DEF CheckCancel
      <4> QED BY <4>3, <4>4
    <3> QED BY <1>11, <3>1, <3>2
  <2>2. worker' \in {"last", "report", "error", "pop"}
    BY <1>11 DEF MergeOver, RunEnds, CheckCancel, Rest
  <2> QED BY <1>c, <1>d, <1>e, <1>f, <2>1, <2>2, RestWhole, WithinKept DEF InSource
<1> QED BY <1>1, <1>2, <1>3, <1>4, <1>5, <1>6, <1>7, <1>8, <1>9, <1>10, <1>11
        DEF WorkerStep

LEMMA GeneratorWhole ==
  ASSUME TypedInv, GeneratorStep \/ GeneratorDies
  PROVE  Whole' /\ Within' /\ Stored'
<1>a. /\ run \in AnyRun /\ run.out \in Seq(Outputs) /\ run.received \in Nat
      /\ run.targets \in Seq(Sources)
  BY DEF TypedInv, Typed, Whole, AnyRun
<1>b. Len(run.out) \in Nat /\ Len(run.targets) \in Nat
  BY <1>a
<1>c. Whole /\ Within
  BY DEF TypedInv
<1>d. UNCHANGED <<jobs, worker, stores, calls, lost>>
  BY GeneratorKeeps DEF TypedInv
<1>e. Stored'
  BY <1>d DEF TypedInv, Stored, stores
<1>f. worker \in Merging
  BY DEF GeneratorStep, TakeUp, Generated, GeneratorDies
<1>1. CASE TakeUp
  <2>1. PICK o : run' = [run EXCEPT !.out = Append(@, o)]
    BY <1>1 DEF TakeUp
  <2>2. run'.out = Append(run.out, o) /\ run'.received = run.received
        /\ run'.targets = run.targets /\ Whole'
    BY <1>a, <1>c, <2>1 DEF Whole, AnyRun
  <2>3. Len(run'.out) = Len(run.out) + 1
    BY <1>a, <2>2
  <2>4. Len(run.out) < Len(run.targets)
    BY <1>1 DEF TakeUp
  <2>5. Within'
    BY <1>a, <1>b, <1>c, <1>d, <1>f, <2>2, <2>3, <2>4 DEF Within, Merging
  <2> QED BY <1>e, <2>2, <2>5
<1>2. ASSUME NEW i \in DOMAIN run.out, Generated(i) PROVE Whole' /\ Within' /\ Stored'
  <2>1. PICK o : run' = [run EXCEPT !.out[i] = o]
    BY <1>2 DEF Generated
  <2>2. run'.out = [run.out EXCEPT ![i] = o] /\ run'.received = run.received
        /\ run'.targets = run.targets /\ Whole'
    BY <1>a, <1>c, <2>1 DEF Whole, AnyRun
  <2>3. Len(run'.out) = Len(run.out)
    BY <1>a, <2>2
  <2>4. Within'
    BY <1>c, <1>d, <1>f, <2>2, <2>3 DEF Within, Merging
  <2> QED BY <1>e, <2>2, <2>4
<1>3. CASE GeneratorDies
  <2>1. PICK k \in run.received .. Len(run.out) :
           /\ run' = [run EXCEPT !.out = SubSeq(@, 1, k), !.dead = TRUE]
           /\ worker # "merge" => k > run.received
    BY <1>3 DEF GeneratorDies
  <2>2. run'.out = SubSeq(run.out, 1, k) /\ run'.received = run.received
        /\ run'.targets = run.targets /\ Whole'
    BY <1>a, <1>c, <2>1 DEF Whole, AnyRun
  <2>3. Len(run'.out) = k
    BY <1>a, <2>1, <2>2
  <2>4. Within'
    BY <1>a, <1>b, <1>c, <1>d, <1>f, <2>1, <2>2, <2>3 DEF Within, Merging, InSource
  <2> QED BY <1>e, <2>2, <2>4
<1> QED BY <1>1, <1>2, <1>3 DEF GeneratorStep

LEMMA TypedInvInit == Init => TypedInv
<1> SUFFICES ASSUME Init PROVE TypedInv
  OBVIOUS
<1>1. AnyJob \in Jobs /\ NewRow \in Job
  BY JobsAssumption DEF AnyJob, NewRow, Job, Statuses, NoItems
<1>2. Targets(AnyJob, NewRow) \in Seq(Sources) /\ PriorCount(AnyJob, NewRow) \in Nat
  BY <1>1, FreshTargets, FreshDone
<1>3. /\ run.targets = Targets(AnyJob, NewRow) /\ run.done = PriorCount(AnyJob, NewRow)
      /\ run.skipped = 0 /\ run.wrote = FALSE /\ run.warned = FALSE
      /\ run.transient = FALSE /\ run.received = 0 /\ run.out = << >>
  BY DEF Init, NoRun, FreshRun
<1>4. run.targets \in Seq(Sources)
  BY <1>2, <1>3
<1>5. Len(run.targets) \in Nat /\ Len(run.out) = 0
  BY <1>3, <1>4
<1>6. Whole
  <2>1. run.done \in Nat
    BY <1>2, <1>3
  <2>2. run.skipped \in Nat
    BY <1>3
  <2>3. run.wrote \in BOOLEAN /\ run.warned \in BOOLEAN /\ run.transient \in BOOLEAN
    BY <1>3
  <2> QED BY <1>4, <2>1, <2>2, <2>3 DEF Whole
<1>7. Within
  BY <1>3, <1>5 DEF Init, Within, InSource
<1>8. Stored
  BY JobsAssumption DEF Init, Stored
<1> QED BY <1>6, <1>7, <1>8, TypedInit DEF TypedInv

LEMMA TypedInvNext == TypedInv /\ [Next]_vars => TypedInv'
<1> SUFFICES ASSUME TypedInv, [Next]_vars PROVE TypedInv'
  OBVIOUS
<1>1. Typed'
  BY TypedNext DEF TypedInv
<1>2. CASE Crash
  <2>1. run' = NoRun /\ worker' = "down" /\ UNCHANGED <<stores, lost>>
    BY <1>2 DEF Crash
  <2>2. calls' \in 0..MaxCalls
    BY <1>2, JobsAssumption DEF Crash, TypedInv, Stored
  <2>3. Whole' /\ Within'
    BY <2>1, IdleWhole DEF InSource
  <2> QED BY <1>1, <2>1, <2>2, <2>3 DEF TypedInv, Stored, stores
<1>3. CASE UNCHANGED vars
  <2>1. Whole' /\ Within' /\ Stored'
    BY <1>3 DEF vars, stores, TypedInv, Whole, Within, Stored
  <2> QED BY <1>1, <2>1 DEF TypedInv
<1>4. CASE Next /\ ~ Crash
  <2>1. Whole' /\ Within' /\ Stored'
    BY <1>4, RequestWhole, WorkerStored, WorkerWhole, GeneratorWhole DEF Next
  <2> QED BY <1>1, <2>1 DEF TypedInv
<1> QED BY <1>2, <1>3, <1>4

LEMMA AlwaysTyped == Spec => []TypedInv
BY TypedInvInit, TypedInvNext, PTL DEF Spec

\* Every variable keeps its type, the targets of a run and its counters
\* included, and the merge loop never looks past what the generator sent.
THEOREM JobTyping == Spec => []TypeOK
BY AlwaysTyped, TypedInvGives, PTL

-----------------------------------------------------------------------------
(* What a run has before it: each source of its job that is not done, once. *)

Working == {"claim"} \cup Busy
Paths == ToSet(PathsOf[run.job])
Item(s) == jobs[run.job].items[s]

Before ==
    worker \in Working =>
        /\ \A i, k \in DOMAIN run.targets : run.targets[i] = run.targets[k] => i = k
        /\ \A i \in DOMAIN run.targets : run.targets[i] \in Paths
        /\ \A s \in Paths : Item(s) = "done" \/ \E i \in DOMAIN run.targets : run.targets[i] = s
        /\ \A i \in DOMAIN run.targets : i > run.received => Item(run.targets[i]) # "done"

\* The steps that record the state of a source, and go on to the next.
Records == MergeFailed \/ MergeSkipped \/ FinishItem

LEMMA Recorded ==
  ASSUME TypedInv, Records
  PROVE  /\ run.received + 1 \in DOMAIN run.targets
         /\ run'.received = run.received + 1 /\ Continues
         /\ worker \in {"merge", "item"} /\ worker' = "merge"
         /\ \E st \in {"failed", "done"} : SetItem(st)
<1>a. /\ run \in AnyRun /\ run.out \in Seq(Outputs) /\ run.received \in Nat
      /\ run.targets \in Seq(Sources)
  BY DEF TypedInv, Typed, Whole, AnyRun
<1>b. Len(run.out) \in Nat /\ Len(run.targets) \in Nat
  BY <1>a
<1>1. run.received < Len(run.out)
  BY DEF Records, MergeFailed, MergeSkipped, FinishItem, Receive, TypedInv, Within, InSource
<1>2. run.received + 1 \in DOMAIN run.targets
  BY <1>a, <1>b, <1>1 DEF TypedInv, Within
<1>3. worker \in {"merge", "item"} /\ worker' = "merge"
  BY DEF Records, MergeFailed, MergeSkipped, FinishItem, Receive
<1>4. \E st \in {"failed", "done"} : SetItem(st)
  BY DEF Records, MergeFailed, MergeSkipped, FinishItem, ItemOutcome
<1>5. CASE MergeFailed
  <2>1. run' = [run EXCEPT !.received = @ + 1, !.warned = TRUE]
    BY <1>5 DEF MergeFailed
  <2>2. run'.received = run.received + 1 /\ Continues
    BY <1>a, <2>1 DEF AnyRun, Continues
  <2> QED BY <1>2, <1>3, <1>4, <2>2
<1>6. CASE MergeSkipped
  <2>1. run' = [run EXCEPT !.received = @ + 1, !.done = @ + 1, !.skipped = @ + 1]
    BY <1>6 DEF MergeSkipped
  <2>2. run'.received = run.received + 1 /\ Continues
    BY <1>a, <2>1 DEF AnyRun, Continues
  <2> QED BY <1>2, <1>3, <1>4, <2>2
<1>7. CASE FinishItem
  <2>1. run' = [run EXCEPT !.received = @ + 1,
                           !.done = IF ItemOutcome = "done" THEN @ + 1 ELSE @]
    BY <1>7 DEF FinishItem
  <2>2. run'.received = run.received + 1 /\ Continues
    BY <1>a, <2>1 DEF AnyRun, Continues
  <2> QED BY <1>2, <1>3, <1>4, <2>2
<1> QED BY <1>5, <1>6, <1>7 DEF Records

\* The state of one source of the job is written.
LEMMA ItemSet ==
  ASSUME TypedInv, NEW st, SetItem(st), run.received + 1 \in DOMAIN run.targets
  PROVE  /\ \A s \in Sources : s # Source => jobs'[run.job].items[s] = jobs[run.job].items[s]
         /\ "update" \notin Faults => jobs'[run.job].items[Source] = st
         /\ \A j \in Jobs : jobs'[j].status = jobs[j].status
         /\ \A j \in Jobs : j # run.job => jobs'[j].items = jobs[j].items
<1>a. run.job \in Jobs /\ jobs \in [Jobs -> Job] /\ run.targets \in Seq(Sources)
  BY DEF TypedInv, Typed, Whole, AnyRun
<1>b. Source \in Sources
  BY <1>a DEF Source
<1>c. jobs[run.job] \in Job
  BY <1>a
<1>1. CASE jobs' = [jobs EXCEPT ![run.job].items[Source] = st]
  <2>1. jobs'[run.job] = [jobs[run.job] EXCEPT !.items[Source] = st]
    BY <1>a, <1>1
  <2>2. /\ jobs'[run.job].items = [jobs[run.job].items EXCEPT ![Source] = st]
        /\ jobs'[run.job].status = jobs[run.job].status
    BY <1>c, <2>1 DEF Job
  <2>3. jobs[run.job].items \in [Sources -> {"none", "done", "failed"}]
    BY <1>c DEF Job
  <2>4. \A j \in Jobs : j # run.job => jobs'[j] = jobs[j]
    BY <1>a, <1>1
  <2> QED BY <1>a, <1>b, <2>2, <2>3, <2>4
<1>2. CASE UNCHANGED jobs /\ "update" \in Faults
  BY <1>2
<1> QED BY <1>1, <1>2 DEF SetItem

\* Every other step of a run keeps what it is about.
LEMMA RunKept ==
  ASSUME TypedInv, [Next]_vars, ~ Records, ~ Fetch, worker' \in Working
  PROVE  /\ worker \in Working /\ Continues /\ run'.received = run.received
         /\ run'.done = run.done /\ (run.warned => run'.warned)
<1> DEFINE Keeps == /\ Continues /\ run'.received = run.received
                    /\ run'.done = run.done /\ (run.warned => run'.warned)
<1> SUFFICES worker \in Working /\ Keeps
  OBVIOUS
<1>a. run \in AnyRun /\ run.warned \in BOOLEAN
  BY DEF TypedInv, Typed, Whole
<1>b. UNCHANGED run => Keeps
  BY DEF Continues
<1>c. ASSUME NEW b, run' = [run EXCEPT !.transient = b] PROVE Keeps
  BY <1>a, <1>c DEF AnyRun, Continues
<1>d. ASSUME NEW b, run' = [run EXCEPT !.warned = b], run.warned => b PROVE Keeps
  BY <1>a, <1>d DEF AnyRun, Continues
<1>e. Rest => worker' = "pop"
  BY DEF Rest
<1>f. worker' # "pop" /\ worker' # "down"
  BY DEF Working, Busy, Merging
<1>g. Typed
  BY DEF TypedInv
<1> HIDE DEF Keeps
<1>1. ASSUME NEW j \in Jobs,
             Enqueue(j) \/ ManualRetry(j) \/ RequestCancel(j) \/ HandlerPush(j)
      PROVE  worker \in Working /\ Keeps
  <2>1. UNCHANGED <<run, worker>>
    BY <1>1 DEF Enqueue, ManualRetry, RequestCancel, HandlerPush
  <2> QED BY <1>b, <2>1
<1>2. CASE UNCHANGED vars
  BY <1>2, <1>b DEF vars
<1>3. CASE Crash
  BY <1>3, <1>f DEF Crash
<1>4. CASE GeneratorStep \/ GeneratorDies
  <2>1. worker \in Working
    BY <1>4 DEF GeneratorStep, TakeUp, Generated, GeneratorDies, Working, Busy
  <2>2. ASSUME NEW out, run' = [run EXCEPT !.out = out] PROVE Keeps
    BY <1>a, <2>2 DEF AnyRun, Continues, Keeps
  <2>3. CASE TakeUp
    BY <2>1, <2>2, <2>3 DEF TakeUp
  <2>4. CASE \E i \in DOMAIN run.out : Generated(i)
    <3>1. PICK i \in DOMAIN run.out : Generated(i)
      BY <2>4
    <3>2. PICK o : run' = [run EXCEPT !.out[i] = o]
      BY <3>1 DEF Generated
    <3> QED BY <2>1, <2>2, <3>2
  <2>5. CASE GeneratorDies
    <3>1. PICK k : run' = [run EXCEPT !.out = SubSeq(@, 1, k), !.dead = TRUE]
      BY <2>5 DEF GeneratorDies
    <3> QED BY <1>a, <2>1, <3>1 DEF AnyRun, Continues, Keeps
  <2> QED BY <1>4, <2>3, <2>4, <2>5 DEF GeneratorStep
<1>5. CASE Start \/ Recover \/ Pop \/ RetryPush
  <2>1. worker' \in {"recover", "pop", "fetch"}
    BY <1>5, <1>e DEF Start, Recover, Pop, RetryPush
  <2> QED BY <2>1 DEF Working, Busy, Merging
<1>6. CASE Claim \/ MergeJobError \/ RunFails \/ MergeCancelled \/ ReportSuccess \/ ReportFailure
           \/ RetryPending
  <2>1. worker \in Working
    BY <1>6 DEF Claim, MergeJobError, RunFails, MergeCancelled, ReportSuccess, ReportFailure,
                RetryPending, Receive, Working, Busy, Merging
  <2>2. \/ UNCHANGED run \/ worker' = "pop"
        \/ \E b : run' = [run EXCEPT !.transient = b]
    BY <1>6, <1>e DEF Claim, MergeJobError, RunFails, MergeCancelled, ReportSuccess,
                      ReportFailure, RetryPending
  <2> QED BY <1>b, <1>c, <1>f, <2>1, <2>2
<1>7. CASE MarkFileIngested \/ InsertReviews
  <2>1. UNCHANGED run \/ run' = [run EXCEPT !.warned = TRUE]
    BY <1>7 DEF MarkFileIngested, InsertReviews, Warn
  <2>2. worker \in Working
    BY <1>7 DEF MarkFileIngested, InsertReviews, Working, Busy, Merging
  <2> QED BY <1>b, <1>d, <2>1, <2>2
<1>8. CASE WritePages
  <2>1. PICK output, cohort :
           run' = [run EXCEPT !.cohort = cohort,
                              !.wrote = @ \/ (output = "pages" /\ cohort # "none"),
                              !.warned = @ \/ output = "empty" \/ cohort # "all"]
    BY <1>8 DEF WritePages
  <2>2. Keeps
    BY <1>a, <2>1 DEF AnyRun, Continues, Keeps
  <2>3. worker \in Working
    BY <1>8 DEF WritePages, Receive, Working, Busy, Merging
  <2> QED BY <2>2, <2>3
<1>9. CASE MergeOver \/ RunEnds
  <2>1. worker \in Working
    BY <1>9 DEF MergeOver, RunEnds, Working, Busy, Merging
  <2>2. CASE MergeOver
    <3>1. UNCHANGED run \/ worker' = "pop" \/ run' = [run EXCEPT !.transient = TRUE]
      BY <2>2, <1>e DEF MergeOver, CheckCancel
    <3> QED BY <1>b, <1>c, <1>f, <2>1, <3>1
  <2>3. CASE RunEnds
    <3>1. PICK w \in BOOLEAN :
            CheckCancel("report", [run EXCEPT !.warned = @ \/ AllSkipped \/ w])
      BY <2>3 DEF RunEnds
    <3> DEFINE b == run.warned \/ AllSkipped \/ w
    <3>2. run.warned => b
      OBVIOUS
    <3>3. \/ run' = [run EXCEPT !.warned = b] \/ worker' = "pop"
          \/ run' = [run EXCEPT !.transient = TRUE]
      BY <3>1, <1>e DEF CheckCancel
    <3> HIDE DEF b
    <3> QED BY <1>c, <1>d, <1>f, <2>1, <3>2, <3>3
  <2> QED BY <1>9, <2>2, <2>3
<1> QED BY <1>1, <1>2, <1>3, <1>4, <1>5, <1>6, <1>7, <1>8, <1>9 DEF Next, WorkerStep, Records

LEMMA BeforeRecords ==
  ASSUME TypedInv, Before, Records PROVE Before'
<1> DEFINE i0 == run.received + 1
<1>1. /\ i0 \in DOMAIN run.targets /\ run'.received = i0 /\ Continues
      /\ worker \in {"merge", "item"} /\ worker' = "merge"
      /\ \E st \in {"failed", "done"} : SetItem(st)
  BY Recorded
<1>2. run.targets \in Seq(Sources) /\ run.received \in Nat /\ run.job \in Jobs
  BY DEF TypedInv, Typed, Whole, AnyRun
<1>3. /\ \A i, k \in DOMAIN run.targets : run.targets[i] = run.targets[k] => i = k
      /\ \A i \in DOMAIN run.targets : run.targets[i] \in Paths
      /\ \A s \in Paths : Item(s) = "done" \/ \E i \in DOMAIN run.targets : run.targets[i] = s
      /\ \A i \in DOMAIN run.targets : i > run.received => Item(run.targets[i]) # "done"
  BY <1>1 DEF Before, Working, Busy, Merging
<1>4. \A s \in Sources : s # Source => jobs'[run.job].items[s] = jobs[run.job].items[s]
  BY <1>1, ItemSet
<1>5. Source = run.targets[i0] /\ run'.targets = run.targets /\ run'.job = run.job
  BY <1>1 DEF Source, Continues
<1>6. Paths \subseteq Sources
  <2>1. PathsOf[run.job] \in Seq(Sources)
    BY <1>2, JobsAssumption
  <2> QED BY <2>1 DEF Paths, ToSet
<1>7. \A s \in Paths : jobs'[run.job].items[s] = "done"
                          \/ \E i \in DOMAIN run.targets : run.targets[i] = s
  <2>1. ASSUME NEW s \in Paths, s # Source
        PROVE  jobs'[run.job].items[s] = jobs[run.job].items[s]
    BY <1>4, <1>6, <2>1
  <2> QED BY <1>1, <1>3, <1>5, <2>1 DEF Item
<1>8. ASSUME NEW i \in DOMAIN run.targets, i > i0
      PROVE  jobs'[run.job].items[run.targets[i]] # "done"
  <2>1. i # i0 /\ i > run.received
    BY <1>2, <1>8
  <2>2. run.targets[i] # Source /\ run.targets[i] \in Sources
    BY <1>1, <1>2, <1>3, <1>5, <2>1
  <2> QED BY <1>3, <1>4, <2>1, <2>2 DEF Item
<1> HIDE DEF i0
<1> QED BY <1>1, <1>3, <1>5, <1>7, <1>8 DEF Before, Paths, Item

LEMMA BeforeNext == TypedInv /\ Before /\ [Next]_vars => Before'
<1> SUFFICES ASSUME TypedInv, Before, [Next]_vars, worker' \in Working PROVE Before'
  BY DEF Before
<1>1. CASE Records
  BY <1>1, BeforeRecords
<1>2. CASE Fetch
  <2>1. run' = FreshRun(run.job, jobs[run.job]) /\ UNCHANGED jobs
    BY <1>2 DEF Fetch, Rest, Working, Busy, Merging
  <2>2. run.job \in Jobs /\ jobs[run.job] \in Job
    BY DEF TypedInv, Typed, AnyRun
  <2>3. run'.job = run.job /\ run'.targets = Targets(run.job, jobs[run.job])
    BY <2>1 DEF FreshRun
  <2> DEFINE q == Targets(run.job, jobs[run.job])
  <2>4. /\ \A i, k \in DOMAIN q : q[i] = q[k] => i = k
        /\ \A i \in DOMAIN q : q[i] \in Paths /\ Item(q[i]) # "done"
        /\ \A s \in Paths : Item(s) = "done" \/ \E i \in DOMAIN q : q[i] = s
    BY <2>2, FreshTargets DEF Paths, Item
  <2>5. run'.targets = q
    BY <2>3
  <2> HIDE DEF q
  <2> QED BY <2>1, <2>3, <2>4, <2>5 DEF Before, Paths, Item
<1>3. CASE ~ Records /\ ~ Fetch
  <2>1. worker \in Working /\ Continues /\ run'.received = run.received
    BY <1>3, RunKept
  <2>2. \A j \in Jobs : jobs'[j].items = jobs[j].items
    BY <1>3, SameItems DEF Records, TypedInv
  <2>3. run.job \in Jobs
    BY DEF TypedInv, Typed, AnyRun
  <2>4. jobs'[run'.job].items = jobs[run.job].items /\ run'.targets = run.targets
        /\ PathsOf[run'.job] = PathsOf[run.job]
    BY <2>1, <2>2, <2>3 DEF Continues
  <2> QED BY <2>1, <2>4 DEF Before, Paths, Item
<1> QED BY <1>1, <1>2, <1>3

LEMMA BeforeInit == Init => Before
BY DEF Init, Before, Working, Busy, Merging

\* Whatever is delivered twice, crashes and is delivered again, or fails: no
\* source is taken up that its job has as done.
THEOREM NothingRedone == Spec => DoneNotRedone
<1>1. TypedInv /\ Before /\ [Next]_vars =>
        (Len(run'.out) > Len(run.out) =>
           jobs[run.job].items[run.targets[Len(run'.out)]] # "done")
  <2> SUFFICES ASSUME TypedInv, Before, [Next]_vars, Len(run'.out) > Len(run.out)
               PROVE  jobs[run.job].items[run.targets[Len(run'.out)]] # "done"
    OBVIOUS
  <2>a. /\ run \in AnyRun /\ run.out \in Seq(Outputs) /\ run.received \in Nat
        /\ run.targets \in Seq(Sources)
    BY DEF TypedInv, Typed, Whole, AnyRun
  <2>b. Len(run.out) \in Nat /\ Len(run.targets) \in Nat
    BY <2>a
  <2>1. CASE TakeUp
    <3>1. PICK o : run' = [run EXCEPT !.out = Append(@, o)]
      BY <2>1 DEF TakeUp
    <3>2. run'.out = Append(run.out, o)
      BY <2>a, <3>1 DEF AnyRun
    <3>3. Len(run'.out) = Len(run.out) + 1
      BY <2>a, <3>2
    <3>4. Len(run.out) < Len(run.targets) /\ run.received <= Len(run.out) /\ worker \in Working
      BY <2>1 DEF TakeUp, TypedInv, Within, Working, Busy
    <3>5. Len(run'.out) \in DOMAIN run.targets /\ Len(run'.out) > run.received
      BY <2>a, <2>b, <3>3, <3>4
    <3> QED BY <3>4, <3>5 DEF Before, Item
  <2>2. CASE ~ TakeUp
    <3>1. run'.out = run.out \/ Len(run'.out) <= Len(run.out)
      <4>1. CASE \E i \in DOMAIN run.out : Generated(i)
        <5>1. PICK i \in DOMAIN run.out : Generated(i)
          BY <4>1
        <5>2. PICK o : run' = [run EXCEPT !.out[i] = o]
          BY <5>1 DEF Generated
        <5>3. run'.out = [run.out EXCEPT ![i] = o]
          BY <2>a, <5>2 DEF AnyRun
        <5> QED BY <2>a, <2>b, <5>3
      <4>2. CASE GeneratorDies
        <5>1. PICK k \in run.received .. Len(run.out) :
                 run' = [run EXCEPT !.out = SubSeq(@, 1, k), !.dead = TRUE]
          BY <4>2 DEF GeneratorDies
        <5>2. run'.out = SubSeq(run.out, 1, k)
          BY <2>a, <5>1 DEF AnyRun
        <5>3. Len(run'.out) = k
          BY <2>a, <5>1, <5>2
        <5> QED BY <2>a, <2>b, <5>1, <5>3
      <4>3. CASE run' = NoRun \/ Fetch
        <5>1. run'.out = << >> \/ UNCHANGED run
          BY <4>3 DEF Fetch, Rest, NoRun, FreshRun
        <5> QED BY <2>b, <5>1
      <4>4. CASE Records
        BY <2>a, <4>4 DEF Records, MergeFailed, MergeSkipped, FinishItem, AnyRun
      <4>5. CASE ~ Fetch /\ ~ Records /\ run' # NoRun /\ ~ GeneratorStep /\ ~ GeneratorDies
        <5>1. ASSUME NEW j \in Jobs,
                     Enqueue(j) \/ ManualRetry(j) \/ RequestCancel(j) \/ HandlerPush(j)
              PROVE  UNCHANGED run
          BY <5>1 DEF Enqueue, ManualRetry, RequestCancel, HandlerPush
        <5>2. Crash \/ Rest => run' = NoRun
          BY DEF Crash, Rest
        <5>3. CASE Start \/ Recover \/ RetryPush \/ UNCHANGED vars
          BY <4>5, <5>2, <5>3 DEF Start, Recover, RetryPush, vars
        <5>4. CASE Pop
          <6>1. run' = [run EXCEPT !.job = Head(list)]
            BY <5>4 DEF Pop
          <6> QED BY <2>a, <6>1 DEF AnyRun
        <5>5. CASE \/ Claim \/ MergeJobError \/ RunFails \/ MergeCancelled \/ ReportSuccess
                   \/ ReportFailure \/ RetryPending
          <6>1. UNCHANGED run \/ \E b : run' = [run EXCEPT !.transient = b]
            BY <4>5, <5>2, <5>5 DEF Claim, MergeJobError, RunFails, MergeCancelled,
                                    ReportSuccess, ReportFailure, RetryPending
          <6> QED BY <2>a, <6>1 DEF AnyRun
        <5>6. CASE MarkFileIngested \/ InsertReviews
          <6>1. UNCHANGED run \/ run' = [run EXCEPT !.warned = TRUE]
            BY <5>6 DEF MarkFileIngested, InsertReviews, Warn
          <6> QED BY <2>a, <6>1 DEF AnyRun
        <5>7. CASE WritePages
          <6>1. PICK output, cohort :
                   run' = [run EXCEPT !.cohort = cohort,
                                      !.wrote = @ \/ (output = "pages" /\ cohort # "none"),
                                      !.warned = @ \/ output = "empty" \/ cohort # "all"]
            BY <5>7 DEF WritePages
          <6> QED BY <2>a, <6>1 DEF AnyRun
        <5>8. CASE MergeOver
          <6>1. UNCHANGED run \/ run' = [run EXCEPT !.transient = TRUE]
            BY <4>5, <5>2, <5>8 DEF MergeOver, CheckCancel
          <6> QED BY <2>a, <6>1 DEF AnyRun
        <5>9. CASE RunEnds
          <6>1. PICK w \in BOOLEAN :
                   CheckCancel("report", [run EXCEPT !.warned = @ \/ AllSkipped \/ w])
            BY <5>9 DEF RunEnds
          <6>2. \/ run' = [run EXCEPT !.warned = @ \/ AllSkipped \/ w]
                \/ run' = [run EXCEPT !.transient = TRUE]
            BY <4>5, <5>2, <6>1 DEF CheckCancel
          <6> QED BY <2>a, <6>2 DEF AnyRun
        <5> QED BY <4>5, <5>1, <5>2, <5>3, <5>4, <5>5, <5>6, <5>7, <5>8, <5>9
                DEF Next, WorkerStep, Records
      <4> QED BY <2>2, <4>1, <4>2, <4>3, <4>4, <4>5 DEF GeneratorStep
    <3> QED BY <2>b, <3>1
  <2> QED BY <2>1, <2>2
<1>2. Spec => []Before
  BY AlwaysTyped, BeforeInit, BeforeNext, PTL DEF Spec
<1> QED BY <1>1, <1>2, AlwaysTyped, PTL DEF Spec, DoneNotRedone

-----------------------------------------------------------------------------
(* The outcome of a job, as long as the updates of its row are carried     *)
(* out.  Counted relates what the run counts to what the row has: a source *)
(* that was done before the run, or that the run has recorded, stays done. *)

Safe(s) ==
    /\ s \in Paths /\ Item(s) = "done"
    /\ \A i \in DOMAIN run.targets : run.targets[i] = s => i <= run.received

Counted ==
    worker \in Working =>
        /\ run.done > 0 => \E s \in Paths : Safe(s)
        /\ run.received > 0 /\ ~ run.warned => run.done > 0
        /\ ~ run.warned => \A i \in 1..run.received : Item(run.targets[i]) = "done"

InPlace ==
    /\ worker \in Busy => jobs[run.job].status = "running"
    /\ worker \in InSource /\ ~ run.warned => run.cohort = "all"
    /\ worker \in {"last", "report"} => run.received = Len(run.targets)
    /\ worker = "report" => \E s \in Paths : Item(s) = "done"

OutcomeInv == Before /\ Counted /\ InPlace /\ OutcomeMatchesItems

LEMMA CountedRecords ==
  ASSUME TypedInv, Before, Counted, InPlace, Records, "update" \notin Faults
  PROVE  Counted'
<1>0. PICK i0 : i0 = run.received + 1
  OBVIOUS
<1>1. /\ i0 \in DOMAIN run.targets /\ run'.received = i0 /\ Continues
      /\ worker \in {"merge", "item"}
      /\ \E st \in {"failed", "done"} : SetItem(st)
  BY <1>0, Recorded
<1>2. /\ run \in AnyRun /\ run.targets \in Seq(Sources) /\ run.received \in Nat
      /\ run.job \in Jobs /\ run.done \in Nat /\ run.warned \in BOOLEAN
  BY DEF TypedInv, Typed, Whole, AnyRun
<1>3. worker \in Working
  BY <1>1 DEF Working, Busy, Merging
<1>4. /\ \A i, k \in DOMAIN run.targets : run.targets[i] = run.targets[k] => i = k
      /\ \A i \in DOMAIN run.targets : run.targets[i] \in Paths
  BY <1>3 DEF Before
<1>5. \A s \in Sources : s # Source => jobs'[run.job].items[s] = jobs[run.job].items[s]
  BY <1>0, <1>1, ItemSet
<1>6. Source = run.targets[i0] /\ run'.targets = run.targets /\ run'.job = run.job
  BY <1>0, <1>1 DEF Source, Continues
<1>7. \A s \in Paths : s \in Sources
  <2>1. PathsOf[run.job] \in Seq(Sources)
    BY <1>2, JobsAssumption
  <2> QED BY <2>1 DEF Paths, ToSet
<1>8. Paths' = Paths
  BY <1>6 DEF Paths
\* A source that is safe stays so.
<1>9. ASSUME NEW s \in Paths, Safe(s) PROVE Safe(s)'
  <2>1. s # Source
    BY <1>0, <1>1, <1>2, <1>6, <1>9 DEF Safe
  <2>2. jobs'[run'.job].items[s] = "done"
    BY <1>5, <1>6, <1>7, <1>9, <2>1 DEF Safe, Item
  <2>3. \A i \in DOMAIN run'.targets : run'.targets[i] = s => i <= run'.received
    <3>1. \A i \in DOMAIN run.targets : i \in Nat
      BY <1>2
    <3> QED BY <1>0, <1>1, <1>2, <1>6, <1>9, <3>1 DEF Safe
  <2> QED BY <1>8, <2>2, <2>3 DEF Safe, Item
\* The source that is recorded as done becomes so.
<1>10. PICK s0 \in Paths : s0 = run.targets[i0]
  BY <1>1, <1>4
<1>11. ASSUME SetItem("done") PROVE Safe(s0)'
  <2>1. jobs'[run.job].items[s0] = "done"
    BY <1>0, <1>1, <1>6, <1>10, <1>11, ItemSet
  <2>2. \A i \in DOMAIN run.targets : run.targets[i] = s0 => i <= i0
    BY <1>1, <1>2, <1>4, <1>10
  <2> QED BY <1>1, <1>6, <1>8, <1>10, <2>1, <2>2 DEF Safe, Item
<1>12. ASSUME NEW i \in 1..run.received, Item(run.targets[i]) = "done"
       PROVE  jobs'[run'.job].items[run'.targets[i]] = "done"
  <2>1. i \in DOMAIN run.targets /\ i # i0
    BY <1>0, <1>1, <1>2
  <2>2. run.targets[i] # Source /\ run.targets[i] \in Sources
    BY <1>1, <1>2, <1>4, <1>6, <2>1
  <2> QED BY <1>5, <1>6, <1>12, <2>2 DEF Item
<1>13. \A i \in 1..i0 : i \in 1..run.received \/ i = i0
  BY <1>0, <1>2
<1>14. run.done > 0 => \E s \in Paths : Safe(s)'
  BY <1>3, <1>9 DEF Counted
\* A failure is a warning of the run.
<1>15. CASE run'.done = run.done /\ run'.warned
  BY <1>8, <1>14, <1>15 DEF Counted
<1>16. CASE SetItem("done") /\ run'.done = run.done + 1 /\ run'.warned = run.warned
  <2>1. Safe(s0)' /\ run'.done > 0
    BY <1>2, <1>11, <1>16
  <2>2. jobs'[run'.job].items[run'.targets[i0]] = "done"
    BY <1>6, <1>10, <2>1 DEF Safe, Item
  <2>3. ~ run'.warned => \A i \in 1..i0 : jobs'[run'.job].items[run'.targets[i]] = "done"
    BY <1>3, <1>12, <1>13, <1>16, <2>2 DEF Counted
  <2> QED BY <1>1, <1>8, <1>10, <2>1, <2>3 DEF Counted, Item
<1>17. CASE MergeFailed
  <2>1. run' = [run EXCEPT !.received = @ + 1, !.warned = TRUE]
    BY <1>17 DEF MergeFailed
  <2>2. run'.done = run.done /\ run'.warned
    BY <1>2, <2>1 DEF AnyRun
  <2> QED BY <1>15, <2>2
<1>18. CASE MergeSkipped
  <2>1. /\ SetItem("done")
        /\ run' = [run EXCEPT !.received = @ + 1, !.done = @ + 1, !.skipped = @ + 1]
    BY <1>18 DEF MergeSkipped
  <2>2. run'.done = run.done + 1 /\ run'.warned = run.warned
    BY <1>2, <2>1 DEF AnyRun
  <2> QED BY <1>16, <2>1, <2>2
<1>19. CASE FinishItem
  <2>1. /\ SetItem(ItemOutcome) /\ worker = "item"
        /\ run' = [run EXCEPT !.received = @ + 1,
                              !.done = IF ItemOutcome = "done" THEN @ + 1 ELSE @]
    BY <1>19 DEF FinishItem
  <2>2. CASE ItemOutcome = "done"
    <3>1. run'.done = run.done + 1 /\ run'.warned = run.warned
      BY <1>2, <2>1, <2>2 DEF AnyRun
    <3> QED BY <1>16, <2>1, <2>2, <3>1
  <2>3. CASE ItemOutcome # "done"
    <3>1. run'.done = run.done /\ run'.warned = run.warned
      BY <1>2, <2>1, <2>3 DEF AnyRun
    <3>2. run.cohort = "none"
      BY <2>3 DEF ItemOutcome
    <3>3. run.warned
      BY <1>2, <2>1, <3>2 DEF InPlace, InSource
    <3> QED BY <1>15, <3>1, <3>3
  <2> QED BY <2>2, <2>3
<1> QED BY <1>17, <1>18, <1>19 DEF Records

LEMMA CountedNext ==
  ASSUME TypedInv, Before, Counted, InPlace, [Next]_vars, "update" \notin Faults
  PROVE  Counted'
<1> SUFFICES ASSUME worker' \in Working PROVE Counted'
  BY DEF Counted
<1>1. CASE Records
  BY <1>1, CountedRecords
<1>2. CASE Fetch
  <2>1. run' = FreshRun(run.job, jobs[run.job]) /\ UNCHANGED jobs
    BY <1>2 DEF Fetch, Rest, Working, Busy, Merging
  <2>2. run.job \in Jobs /\ jobs[run.job] \in Job
    BY DEF TypedInv, Typed, AnyRun
  <2> DEFINE row == jobs[run.job]
  <2>3. /\ run'.job = run.job /\ run'.targets = Targets(run.job, row)
        /\ run'.done = PriorCount(run.job, row)
        /\ run'.received = 0
    BY <2>1 DEF FreshRun
  <2>4. run'.done > 0 => \E s \in Paths : Item(s) = "done"
    BY <2>2, <2>3, FreshDone DEF PriorDone, Paths, Item
  <2>5. ASSUME NEW s \in Paths, Item(s) = "done" PROVE Safe(s)'
    <3> DEFINE q == Targets(run.job, row)
    <3>1. \A i \in DOMAIN q : Item(q[i]) # "done"
      BY <2>2, FreshTargets DEF Item
    <3>2. run'.targets = q
      BY <2>3
    <3> HIDE DEF q
    <3> QED BY <2>1, <2>3, <2>5, <3>1, <3>2 DEF Safe, Paths, Item
  <2>6. 1..0 = {}
    OBVIOUS
  <2>7. Paths' = Paths
    BY <2>3 DEF Paths
  <2> HIDE DEF row
  <2> QED BY <2>3, <2>4, <2>5, <2>6, <2>7 DEF Counted
<1>3. CASE ~ Records /\ ~ Fetch
  <2>1. /\ worker \in Working /\ Continues /\ run'.received = run.received
        /\ run'.done = run.done /\ (run.warned => run'.warned)
    BY <1>3, RunKept
  <2>2. \A j \in Jobs : jobs'[j].items = jobs[j].items
    BY <1>3, SameItems DEF Records, TypedInv
  <2>3. run.job \in Jobs
    BY DEF TypedInv, Typed, AnyRun
  <2>4. /\ jobs'[run'.job].items = jobs[run.job].items /\ run'.targets = run.targets
        /\ PathsOf[run'.job] = PathsOf[run.job]
    BY <2>1, <2>2, <2>3 DEF Continues
  <2>5. Paths' = Paths /\ \A s \in Paths : Safe(s)' <=> Safe(s)
    BY <2>1, <2>4 DEF Paths, Safe, Item
  <2> QED BY <2>1, <2>4, <2>5 DEF Counted, Item
<1> QED BY <1>1, <1>2, <1>3
\* Where the worker is in these places, it came by one of these steps.
LEMMA Placed ==
  ASSUME TypedInv, [Next]_vars, ~ Records, "update" \notin Faults,
         worker' \in InSource \cup {"last", "report"}
  PROVE  \/ worker' = worker /\ run'.cohort = run.cohort /\ run'.warned = run.warned
         \/ worker \in InSource /\ worker' \in InSource /\ UNCHANGED run
         \/ WritePages
         \/ MergeOver /\ worker' = "last" /\ ~ Shortfall /\ UNCHANGED run
         \/ RunEnds /\ worker' = "report"
<1>a. run \in AnyRun
  BY DEF TypedInv, Typed
<1>b. worker' \in {"mark", "review", "item", "last", "report"}
  BY DEF InSource
<1>1. ASSUME NEW j \in Jobs,
             Enqueue(j) \/ ManualRetry(j) \/ RequestCancel(j) \/ HandlerPush(j)
      PROVE  UNCHANGED <<worker, run>>
  BY <1>1 DEF Enqueue, ManualRetry, RequestCancel, HandlerPush
<1>2. CASE GeneratorStep \/ GeneratorDies
  <2>1. UNCHANGED worker
    BY <1>2 DEF GeneratorStep, TakeUp, Generated, GeneratorDies
  <2>2. ASSUME NEW out, run' = [run EXCEPT !.out = out]
        PROVE  run'.cohort = run.cohort /\ run'.warned = run.warned
    BY <1>a, <2>2 DEF AnyRun
  <2>3. CASE TakeUp
    BY <2>1, <2>2, <2>3 DEF TakeUp
  <2>4. CASE \E i \in DOMAIN run.out : Generated(i)
    <3>1. PICK i \in DOMAIN run.out : Generated(i)
      BY <2>4
    <3>2. PICK o : run' = [run EXCEPT !.out[i] = o]
      BY <3>1 DEF Generated
    <3> QED BY <2>1, <2>2, <3>2
  <2>5. CASE GeneratorDies
    <3>1. PICK k : run' = [run EXCEPT !.out = SubSeq(@, 1, k), !.dead = TRUE]
      BY <2>5 DEF GeneratorDies
    <3>2. run'.cohort = run.cohort /\ run'.warned = run.warned
      BY <1>a, <3>1 DEF AnyRun
    <3> QED BY <2>1, <3>2
  <2> QED BY <1>2, <2>3, <2>4, <2>5 DEF GeneratorStep
<1>3. CASE MarkFileIngested \/ InsertReviews
  BY <1>3 DEF MarkFileIngested, InsertReviews, Warn, InSource
<1>4. CASE MergeOver
  BY <1>4, <1>b DEF MergeOver, CheckCancel, Rest
<1>5. CASE RunEnds
  BY <1>5, <1>b DEF RunEnds, CheckCancel, Rest
<1>6. CASE \/ Start \/ Recover \/ Pop \/ Fetch \/ Claim \/ MergeCancelled \/ MergeJobError
           \/ RunFails \/ ReportSuccess \/ ReportFailure \/ RetryPending \/ RetryPush \/ Crash
  BY <1>6, <1>b DEF Start, Recover, Pop, Fetch, Claim, MergeCancelled, MergeJobError, RunFails,
                    ReportSuccess, ReportFailure, RetryPending, RetryPush, Crash, Rest
<1>7. CASE UNCHANGED vars
  BY <1>7 DEF vars
<1> QED BY <1>1, <1>2, <1>3, <1>4, <1>5, <1>6, <1>7 DEF Next, WorkerStep, Records

\* Which steps change the status of a job: a running one is ended by its own
\* run, which is over then, and only the report makes it a success.
LEMMA StatusChange ==
  ASSUME TypedInv, [Next]_vars, NEW j \in Jobs, jobs'[j].status # jobs[j].status
  PROVE  /\ jobs[j].status = "running" => j = run.job /\ worker' \notin Busy
         /\ jobs'[j].status \in {"succeeded", "succeeded_with_warnings"} =>
               j = run.job /\ ReportSuccess
<1>a. jobs \in [Jobs -> Job] /\ run.job \in Jobs
  BY DEF TypedInv, Typed, AnyRun
<1>b. Typed
  BY DEF TypedInv
<1>c. ASSUME NEW st, SetStatus(run.job, st) PROVE j = run.job /\ jobs'[j].status = st
  BY <1>a, <1>b, <1>c, StatusOfOthers
<1>d. Rest => worker' \notin Busy
  BY DEF Rest, Busy, Merging
<1>1. ASSUME NEW k \in Jobs,
             Enqueue(k) \/ ManualRetry(k) \/ RequestCancel(k) \/ HandlerPush(k)
      PROVE  /\ jobs[j].status \in {"absent", "failed", "cancelled"}
             /\ jobs'[j].status = "pending"
  <2>1. CASE Enqueue(k)
    <3>1. j = k
      BY <1>b, <2>1, StatusOfOthers DEF Enqueue
    <3> QED BY <1>b, <2>1, <3>1, StatusOfOthers DEF Enqueue
  <2>2. CASE ManualRetry(k)
    <3> DEFINE row == [[[jobs[k] EXCEPT !.status = "pending"] EXCEPT !.tries = 0]
                          EXCEPT !.cancel = FALSE]
    <3>1. jobs' = [jobs EXCEPT ![k] = row]
      BY <2>2, <1>a DEF ManualRetry
    <3>2. row.status = "pending"
      BY <1>a, jobs[k] \in Job DEF Job
    <3> HIDE DEF row
    <3>3. j = k
      BY <1>a, <3>1
    <3> QED BY <1>a, <2>2, <3>1, <3>2, <3>3 DEF ManualRetry
  <2>3. CASE RequestCancel(k)
    <3> DEFINE row == [jobs[k] EXCEPT !.cancel = TRUE]
    <3>1. jobs' = [jobs EXCEPT ![k] = row]
      BY <2>3 DEF RequestCancel
    <3>2. row.status = jobs[k].status
      BY <1>a, jobs[k] \in Job DEF Job
    <3> HIDE DEF row
    <3> QED BY <1>a, <3>1, <3>2
  <2> QED BY <1>1, <2>1, <2>2, <2>3 DEF HandlerPush
<1>2. CASE Claim
  BY <1>2, <1>c DEF Claim
<1>3. CASE Records
  BY <1>3, Recorded, ItemSet
<1>4. CASE MergeCancelled \/ ReportFailure
  <2>1. Rest /\ \E st \in {"cancelled", "failed"} : SetStatus(run.job, st)
    BY <1>4 DEF MergeCancelled, ReportFailure, UpdateStatus
  <2> QED BY <1>c, <1>d, <2>1
<1>5. CASE ReportSuccess
  <2>1. Rest /\ \E st : SetStatus(run.job, st)
    BY <1>5 DEF ReportSuccess, UpdateStatus
  <2> QED BY <1>5, <1>c, <1>d, <2>1
<1>6. CASE MergeOver \/ RunEnds
  <2>1. Rest /\ SetStatus(run.job, "cancelled")
    BY <1>6 DEF MergeOver, RunEnds, CheckCancel
  <2> QED BY <1>c, <1>d, <2>1
<1>7. CASE RetryPending
  <2> DEFINE row == [[jobs[run.job] EXCEPT !.status = "pending"]
                        EXCEPT !.tries = jobs[run.job].tries + 1]
  <2>1. worker' = "push" /\ jobs' = [jobs EXCEPT ![run.job] = row]
    BY <1>7, <1>a, jobs[run.job] \in Job DEF RetryPending, Job
  <2>2. row.status = "pending"
    BY <1>a, jobs[run.job] \in Job DEF Job
  <2> HIDE DEF row
  <2>3. j = run.job /\ jobs'[j].status = "pending"
    BY <1>a, <2>1, <2>2
  <2> QED BY <2>1, <2>3 DEF Busy, Merging
<1>8. CASE \/ Start \/ Recover \/ Pop \/ Fetch \/ MergeJobError \/ WritePages \/ MarkFileIngested
           \/ InsertReviews \/ RunFails \/ RetryPush \/ GeneratorStep \/ GeneratorDies \/ Crash
           \/ UNCHANGED vars
  <2>1. UNCHANGED jobs
    BY <1>8 DEF Start, Recover, Pop, Fetch, MergeJobError, WritePages, MarkFileIngested,
                InsertReviews, RunFails, RetryPush, GeneratorStep, TakeUp, Generated,
                GeneratorDies, Crash, vars
  <2> QED BY <2>1
<1> QED BY <1>1, <1>2, <1>3, <1>4, <1>5, <1>6, <1>7, <1>8 DEF Next, WorkerStep, Records
\* When the run is over and did not fail, some source of its job is done, and
\* all are if there was no warning.
LEMMA Sound ==
  ASSUME TypedInv, OutcomeInv, worker \in {"last", "report"}
  PROVE  /\ run.done > 0 \/ ~ run.warned => \E s \in Paths : Item(s) = "done"
         /\ ~ run.warned => \A s \in Paths : Item(s) = "done"
<1>1. worker \in Working /\ run.received = Len(run.targets)
  BY DEF OutcomeInv, InPlace, Working, Busy
<1>2. run.targets \in Seq(Sources) /\ run.job \in Jobs
  BY DEF TypedInv, Typed, Whole, AnyRun
<1>3. ASSUME ~ run.warned, NEW s \in Paths PROVE Item(s) = "done"
  <2>1. CASE \E i \in DOMAIN run.targets : run.targets[i] = s
    <3>1. PICK i \in DOMAIN run.targets : run.targets[i] = s
      BY <2>1
    <3>2. i \in 1..run.received
      BY <1>1, <1>2
    <3> QED BY <1>1, <1>3, <3>1, <3>2 DEF OutcomeInv, Counted
  <2>2. CASE ~ \E i \in DOMAIN run.targets : run.targets[i] = s
    BY <1>1, <2>2 DEF OutcomeInv, Before
  <2> QED BY <2>1, <2>2
\* A job names at least one source.
<1>4. \E s \in Paths : TRUE
  <2>1. PathsOf[run.job] \in Seq(Sources) \ {<< >>}
    BY <1>2, JobsAssumption
  <2>2. 1 \in DOMAIN PathsOf[run.job]
    BY <2>1
  <2> QED BY <2>2 DEF Paths, ToSet
<1>5. run.done > 0 => \E s \in Paths : Item(s) = "done"
  BY <1>1 DEF OutcomeInv, Counted, Safe
<1> QED BY <1>3, <1>4, <1>5

\* A step that is not a record keeps the items of every job.
LEMMA ItemsSame ==
  ASSUME TypedInv, [Next]_vars, ~ Records, run'.job = run.job
  PROVE  Paths' = Paths /\ \A s \in Paths : Item(s)' = Item(s)
<1>1. run.job \in Jobs
  BY DEF TypedInv, Typed, AnyRun
<1>2. \A j \in Jobs : jobs'[j].items = jobs[j].items
  BY SameItems DEF Records, TypedInv
<1> QED BY <1>1, <1>2 DEF Paths, Item

LEMMA InPlaceNext ==
  ASSUME TypedInv, OutcomeInv, [Next]_vars, "update" \notin Faults
  PROVE  InPlace'
<1>a. run \in AnyRun /\ run.job \in Jobs /\ jobs \in [Jobs -> Job] /\ run.warned \in BOOLEAN
  BY DEF TypedInv, Typed, Whole, AnyRun
<1>b. Typed
  BY DEF TypedInv
<1>1. worker' \in Busy => jobs'[run'.job].status = "running"
  <2> SUFFICES ASSUME worker' \in Busy PROVE jobs'[run'.job].status = "running"
    OBVIOUS
  <2>1. worker' \in Working /\ ~ Fetch
    BY DEF Working, Fetch, Rest, Busy, Merging
  <2>2. worker \in Working /\ run'.job = run.job
    <3>1. CASE Records
      BY <3>1, Recorded DEF Continues, Working, Busy, Merging
    <3>2. CASE ~ Records
      BY <2>1, <3>2, RunKept DEF Continues
    <3> QED BY <3>1, <3>2
  <2>3. CASE worker \in Busy
    <3>1. jobs[run.job].status = "running"
      BY <2>3 DEF OutcomeInv, InPlace
    <3>2. jobs'[run.job].status = jobs[run.job].status
      BY <1>a, <3>1, StatusChange
    <3> QED BY <2>2, <3>1, <3>2
  <2>4. CASE worker = "claim"
    <3>1. Claim
      <4>1. worker # worker'
        BY <2>4 DEF Busy, Merging
      <4>2. ASSUME NEW j \in Jobs,
                   Enqueue(j) \/ ManualRetry(j) \/ RequestCancel(j) \/ HandlerPush(j)
            PROVE  UNCHANGED worker
        BY <4>2 DEF Enqueue, ManualRetry, RequestCancel, HandlerPush
      <4>3. ~ Crash
        BY DEF Crash, Busy, Merging
      <4>4. ~ GeneratorStep /\ ~ GeneratorDies
        BY <2>4 DEF GeneratorStep, TakeUp, Generated, GeneratorDies, Merging
      <4>5. WorkerStep
        BY <4>1, <4>2, <4>3, <4>4 DEF Next, vars
      <4> QED BY <2>4, <4>5 DEF WorkerStep, Start, Recover, Pop, Fetch, MergeCancelled,
                                MergeJobError, MergeFailed, MergeSkipped, WritePages,
                                MarkFileIngested, InsertReviews, FinishItem, MergeOver, RunFails,
                                RunEnds, ReportSuccess, ReportFailure, RetryPending, RetryPush,
                                Receive
    <3>2. SetStatus(run.job, "running")
      BY <3>1 DEF Claim
    <3> QED BY <1>a, <1>b, <2>2, <3>2, StatusOfOthers
  <2> QED BY <2>2, <2>3, <2>4 DEF Working
<1>2. CASE worker' \notin InSource \cup {"last", "report"}
  BY <1>1, <1>2 DEF InPlace
<1>3. CASE worker' \in InSource \cup {"last", "report"}
  <2>1. worker' \in Working /\ ~ Records /\ ~ Fetch
    <3>1. worker' # "merge" /\ worker' # "claim" /\ worker' # "pop" /\ worker' \in Working
      BY <1>3 DEF InSource, Working, Busy, Merging
    <3> QED BY <3>1, Recorded DEF Fetch, Rest
  <2>2. Continues /\ run'.received = run.received
    BY <2>1, RunKept
  <2>3. Paths' = Paths /\ \A s \in Paths : Item(s)' = Item(s)
    BY <2>1, <2>2, ItemsSame DEF Continues
  <2>4. (\E s \in Paths : Item(s) = "done") => (\E s \in Paths : Item(s) = "done")'
    BY <2>3
  <2>5. CASE worker' = worker /\ run'.cohort = run.cohort /\ run'.warned = run.warned
    BY <1>1, <2>2, <2>4, <2>5 DEF OutcomeInv, InPlace, Continues
  <2>6. CASE worker \in InSource /\ worker' \in InSource /\ UNCHANGED run
    BY <1>1, <2>6 DEF OutcomeInv, InPlace, InSource
  <2>7. CASE WritePages
    <3>1. PICK output \in {"pages", "empty"}, cohort \in {"all", "some", "none"} :
             /\ worker' = "mark"
             /\ run' = [run EXCEPT !.cohort = cohort,
                                   !.wrote = @ \/ (output = "pages" /\ cohort # "none"),
                                   !.warned = @ \/ output = "empty" \/ cohort # "all"]
      BY <2>7 DEF WritePages
    <3>2. run'.cohort = cohort /\ (cohort # "all" => run'.warned)
      BY <1>a, <3>1 DEF AnyRun
    <3> QED BY <1>1, <3>1, <3>2 DEF InPlace
  <2>8. CASE MergeOver /\ worker' = "last" /\ ~ Shortfall /\ UNCHANGED run
    <3>1. run.received = Len(run.targets)
      <4>1. /\ run.received \in Nat /\ run.out \in Seq(Outputs) /\ run.targets \in Seq(Sources)
            /\ run.received <= Len(run.out) /\ Len(run.out) <= Len(run.targets)
        BY DEF TypedInv, Typed, Whole, Within, AnyRun
      <4>2. Len(run.out) \in Nat /\ Len(run.targets) \in Nat
        BY <4>1
      <4> QED BY <2>8, <4>1, <4>2 DEF Shortfall
    <3> QED BY <1>1, <2>8, <3>1 DEF InPlace, InSource
  <2>9. CASE RunEnds /\ worker' = "report"
    <3>1. worker = "last" /\ ~ AllFailed
      BY <2>9 DEF RunEnds
    <3>2. run.done \in Nat
      BY DEF TypedInv, Whole
    <3>3. \E s \in Paths : Item(s) = "done"
      BY <3>1, <3>2, Sound DEF AllFailed
    <3>4. run.received = Len(run.targets)
      BY <3>1 DEF OutcomeInv, InPlace
    <3> QED BY <1>1, <2>2, <2>4, <2>9, <3>3, <3>4 DEF InPlace, InSource, Continues
  <2> QED BY <1>3, <2>1, <2>5, <2>6, <2>7, <2>8, <2>9, Placed
<1> QED BY <1>2, <1>3

LEMMA OutcomeNext ==
  ASSUME TypedInv, OutcomeInv, [Next]_vars, "update" \notin Faults
  PROVE  OutcomeMatchesItems'
<1>a. run.job \in Jobs /\ run.warned \in BOOLEAN
  BY DEF TypedInv, Typed, Whole, AnyRun
<1> DEFINE Fits(j, row) ==
             LET done == {s \in ToSet(PathsOf[j]) : row.items[s] = "done"} IN
             /\ row.status = "succeeded" => done = ToSet(PathsOf[j])
             /\ row.status = "succeeded_with_warnings" => done # {}
<1>1. ASSUME NEW j \in Jobs PROVE Fits(j, jobs[j])
  BY DEF OutcomeInv, OutcomeMatchesItems
<1>2. ASSUME NEW j \in Jobs PROVE Fits(j, jobs'[j])
  <2>1. CASE jobs'[j].status \notin {"succeeded", "succeeded_with_warnings"}
    BY <2>1
  <2>2. CASE jobs'[j].status = jobs[j].status
             /\ jobs[j].status \in {"succeeded", "succeeded_with_warnings"}
    <3>1. jobs'[j].items = jobs[j].items
      <4>1. CASE Records
        <5>1. jobs[run.job].status = "running"
          BY <4>1, Recorded DEF OutcomeInv, InPlace, Busy, Merging
        <5> QED BY <2>2, <4>1, <5>1, Recorded, ItemSet
      <4>2. CASE ~ Records
        BY <4>2, SameItems DEF Records, TypedInv
      <4> QED BY <4>1, <4>2
    <3> QED BY <1>1, <2>2, <3>1
  <2>3. CASE jobs'[j].status # jobs[j].status
             /\ jobs'[j].status \in {"succeeded", "succeeded_with_warnings"}
    <3>1. j = run.job /\ ReportSuccess
      BY <2>3, StatusChange
    <3>2. worker = "report"
          /\ SetStatus(run.job, IF run.warned THEN "succeeded_with_warnings" ELSE "succeeded")
      BY <3>1 DEF ReportSuccess, UpdateStatus
    <3>3. jobs'[j].status = IF run.warned THEN "succeeded_with_warnings" ELSE "succeeded"
      BY <1>a, <3>1, <3>2, StatusOfOthers DEF TypedInv
    <3>4. jobs'[j].items = jobs[j].items
      <4>1. ~ MergeFailed /\ ~ MergeSkipped /\ ~ FinishItem
        BY <3>2 DEF MergeFailed, MergeSkipped, FinishItem, Receive
      <4> QED BY <4>1, SameItems DEF TypedInv
    <3>5. ~ run.warned => \A s \in ToSet(PathsOf[j]) : jobs[j].items[s] = "done"
      BY <3>1, <3>2, Sound DEF Paths, Item
    <3>6. \E s \in ToSet(PathsOf[j]) : jobs[j].items[s] = "done"
      BY <3>1, <3>2 DEF OutcomeInv, InPlace, Paths, Item
    <3> QED BY <3>3, <3>4, <3>5, <3>6
  <2> QED BY <2>1, <2>2, <2>3
<1> QED BY <1>2 DEF OutcomeMatchesItems

LEMMA OutcomeInit == Init => OutcomeInv
<1> SUFFICES ASSUME Init PROVE OutcomeInv
  OBVIOUS
<1>1. worker = "recover" /\ \A j \in Jobs : jobs[j].status = "absent"
  BY DEF Init, NewRow
<1> QED BY <1>1, BeforeInit DEF OutcomeInv, Counted, InPlace, OutcomeMatchesItems, Working, Busy,
                                Merging, InSource

\* The final status of a job tells what became of its sources, however often
\* it was delivered, crashed, was retried or cancelled, and whatever failed,
\* unless an update of its row did not reach the database.
THEOREM OutcomeTold ==
  ASSUME "update" \notin Faults PROVE Spec => []OutcomeMatchesItems
<1>1. TypedInv /\ OutcomeInv /\ [Next]_vars => OutcomeInv'
  <2> SUFFICES ASSUME TypedInv, OutcomeInv, [Next]_vars PROVE OutcomeInv'
    OBVIOUS
  <2>1. Before /\ Counted /\ InPlace
    BY DEF OutcomeInv
  <2> QED BY <2>1, BeforeNext, CountedNext, InPlaceNext, OutcomeNext DEF OutcomeInv
<1>2. OutcomeInv => OutcomeMatchesItems
  BY DEF OutcomeInv
<1>3. Spec => []TypedInv
  BY AlwaysTyped
<1> QED BY <1>1, <1>2, <1>3, OutcomeInit, PTL DEF Spec
=============================================================================
