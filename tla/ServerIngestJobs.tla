-------------------------- MODULE ServerIngestJobs --------------------------
(***************************************************************************)
(* Ingest jobs of the server: rows of ingest_jobs in PostgreSQL are the    *)
(* truth, a Redis list wakes the one worker of the process, and the worker *)
(* runs a job as a generator task (LLM calls for several sources at once)  *)
(* feeding a merge loop that writes source after source.                   *)
(*                                                                         *)
(* Both stores survive a crash of the server; the worker, its generator    *)
(* and the request handlers do not.  At every start the worker pushes all  *)
(* unfinished jobs again.                                                  *)
(*                                                                         *)
(* The documents do not change while they are ingested: a source has one   *)
(* content hash, and ingested_files is the set of sources that have a row. *)
(* A job names at least one source (the route does not refuse a job with   *)
(* none; such a job would succeed at once).  A generator that outlives its *)
(* merge loop writes nothing, so it is left out.                           *)
(***************************************************************************)
EXTENDS Naturals, Sequences, FiniteSets, SequencesExt

CONSTANTS
    Jobs,
    Sources,
    PathsOf,        \* source_paths of each job
    MaxRetries,     \* max_retries of a row
    Window,         \* sources generated ahead of the merge loop: the
                    \* concurrency and the capacity of the channel
    MaxCalls,       \* bound: requests and crashes
    Calls,          \* what the environment does
    Faults          \* what may fail: see the uses

ASSUME JobsAssumption ==
    /\ Jobs # {} /\ IsFiniteSet(Jobs)
    /\ PathsOf \in [Jobs -> Seq(Sources) \ {<< >>}]
    /\ MaxRetries \in Nat /\ Window \in Nat \ {0} /\ MaxCalls \in Nat

VARIABLES
    jobs,       \* the rows
    list,       \* ingest:queue, oldest first
    handlers,   \* jobs whose request handler has yet to push them
    worker,     \* where the worker is
    run,        \* what it remembers of its job
    written,    \* sources all pages of which are in wiki_pages
    ingested,   \* sources in ingested_files
    reviewed,   \* sources whose review items were inserted
    calls,      \* requests and crashes so far
    lost,       \* jobs an ignored error cut off until the next start
    late        \* <<job, source>>: not taken up when the cancel came

stores == <<written, ingested, reviewed>>
vars == <<jobs, list, handlers, worker, run, stores, calls, lost, late>>

Statuses == {"absent", "pending", "running", "succeeded",
             "succeeded_with_warnings", "failed", "cancelled"}

Unfinished == {"pending", "running"}

Job == [status: Statuses, cancel: BOOLEAN, tries: Nat,
        items: [Sources -> {"none", "done", "failed"}]]

AnyJob == CHOOSE j \in Jobs : TRUE
NoItems == [s \in Sources |-> "none"]

\* Phase1Output of the sources taken up so far, in their order; "busy" while
\* the LLM works.
Outputs == {"busy", "cancelled", "jobError", "failed", "skip", "pages", "empty"}

Run == [job: Jobs, targets: Seq(Sources), tries: Nat,
        out: Seq(Outputs), dead: BOOLEAN, received: Nat,
        done: Nat, skipped: Nat, wrote: BOOLEAN, warned: BOOLEAN,
        cohort: {"all", "some", "none"}, transient: BOOLEAN]

\* The sources of a job that its row has as done, how many of its paths they
\* are, and those that are left: each once, in order.
NoPriorDone(j, row) == {}   \* mutant: a resumed run starts over
PriorDone(j, row) == {s \in ToSet(PathsOf[j]) : row.items[s] = "done"}
PriorCount(j, row) ==
    Cardinality({n \in DOMAIN PathsOf[j] : PathsOf[j][n] \in PriorDone(j, row)})

Targets(j, row) ==
    LET left[n \in 0..Len(PathsOf[j])] ==
            IF n = 0 THEN << >>
            ELSE IF PathsOf[j][n] \in PriorDone(j, row) \cup ToSet(left[n - 1])
                 THEN left[n - 1]
                 ELSE Append(left[n - 1], PathsOf[j][n])
    IN left[Len(PathsOf[j])]

FreshRun(j, row) ==
    [job |-> j, targets |-> Targets(j, row), tries |-> row.tries, out |-> << >>,
     dead |-> FALSE, received |-> 0, done |-> PriorCount(j, row),
     skipped |-> 0, wrote |-> FALSE, warned |-> FALSE, cohort |-> "all",
     transient |-> FALSE]

NewRow == [status |-> "absent", cancel |-> FALSE, tries |-> 0, items |-> NoItems]
NoRun == FreshRun(AnyJob, NewRow)

Init ==
    /\ jobs = [j \in Jobs |-> NewRow]
    /\ list = << >>
    /\ handlers = {}
    /\ worker = "recover"
    /\ run = NoRun
    /\ written = {} /\ ingested = {} /\ reviewed = {}
    /\ calls = 0
    /\ lost = {} /\ late = {}

-----------------------------------------------------------------------------
Taken == {run.targets[i] : i \in DOMAIN run.out}

\* The worker goes back to its list, its job's variables go out of scope.
Rest == worker' = "pop" /\ run' = NoRun

\* The states of the worker in which the merge loop runs.
Merging == {"merge", "mark", "review", "item"}
Busy == Merging \cup {"last", "report", "error", "backoff"}

SetStatus(j, st) == jobs' = [jobs EXCEPT ![j].status = st]

\* An UPDATE of a job's status whose error the worker ignores.
UpdateStatus(st) ==
    \/ SetStatus(run.job, st) /\ UNCHANGED lost
    \/ /\ "update" \in Faults
       /\ lost' = lost \cup {run.job}
       /\ UNCHANGED jobs

\* A job that is dropped after its id was taken from the list.
Drop(j) == lost' = IF jobs[j].status \in Unfinished THEN lost \cup {j} ELSE lost

\* LPUSH; its error is ignored.
Push(j) ==
    \/ list' = Append(list, j) /\ UNCHANGED lost
    \/ /\ "push" \in Faults
       /\ lost' = lost \cup {j}
       /\ UNCHANGED list

-----------------------------------------------------------------------------
(* Requests *)

Request(op) ==
    /\ op \in Calls
    /\ worker # "down"
    /\ calls < MaxCalls
    /\ calls' = calls + 1

Enqueue(j) ==
    /\ Request("enqueue")
    /\ jobs[j].status = "absent"
    /\ SetStatus(j, "pending")
    /\ handlers' = handlers \cup {j}
    /\ UNCHANGED <<list, worker, run, stores, lost, late>>

\* A job's row is inserted or reset before it is pushed.  Bound: one handler
\* of a job is between the two at a time.
ManualRetry(j) ==
    /\ Request("retry")
    /\ jobs[j].status \in {"failed", "cancelled"}
    /\ j \notin handlers
    /\ jobs' = [jobs EXCEPT ![j].status = "pending", ![j].tries = 0, ![j].cancel = FALSE]
    /\ handlers' = handlers \cup {j}
    /\ late' = {x \in late : x[1] # j}
    /\ UNCHANGED <<list, worker, run, stores, lost>>

HandlerPush(j) ==
    /\ j \in handlers
    /\ handlers' = handlers \ {j}
    /\ Push(j)
    /\ UNCHANGED <<jobs, worker, run, stores, calls, late>>

\* Only the flag is set, whatever the status is.
RequestCancel(j) ==
    LET started == IF run.job = j /\ worker \in Merging THEN Taken ELSE {} IN
    /\ Request("cancel")
    /\ jobs[j].status # "absent" /\ ~ jobs[j].cancel
    /\ jobs' = [jobs EXCEPT ![j].cancel = TRUE]
    /\ late' = late \cup {<<j, s>> : s \in ToSet(PathsOf[j]) \ started}
    /\ UNCHANGED <<list, handlers, worker, run, stores, lost>>

-----------------------------------------------------------------------------
(* worker_loop *)

RecoverPending == {j \in Jobs : jobs[j].status = "pending"}   \* mutant: not the running ones
RecoverUnfinished == {j \in Jobs : jobs[j].status \in Unfinished}

\* recover_pending, once per start of the process: one LPUSH for each job.
Recover ==
    /\ worker = "recover"
    /\ worker' = "pop"
    /\ \E S \in SUBSET RecoverUnfinished :
          /\ "push" \notin Faults => S = RecoverUnfinished
          /\ \E q \in SetToSeqs(S) : list' = list \o q
          /\ lost' = RecoverUnfinished \ S
    /\ UNCHANGED <<jobs, handlers, run, stores, calls, late>>

\* BRPOP; an error may come after the id has left the list.
Pop ==
    /\ worker = "pop"
    /\ list # << >>
    /\ list' = Tail(list)
    /\ \/ /\ run' = [run EXCEPT !.job = Head(list)]
          /\ worker' = "fetch"
          /\ UNCHANGED lost
       \/ /\ "pop" \in Faults
          /\ Drop(Head(list))
          /\ UNCHANGED <<run, worker>>
    /\ UNCHANGED <<jobs, handlers, stores, calls, late>>

\* The row is read; an error drops the job that was popped.
Fetch ==
    /\ worker = "fetch"
    /\ \/ /\ run' = FreshRun(run.job, jobs[run.job])
          /\ worker' = "claim"
          /\ UNCHANGED lost
       \/ /\ "query" \in Faults
          /\ Rest
          /\ Drop(run.job)
    /\ UNCHANGED <<jobs, list, handlers, stores, calls, late>>

\* mark_job_running does not look at the status it replaces.  run_ingest_job
\* starts by reading the project: an error of the database is transient.
Claim ==
    /\ worker = "claim"
    /\ SetStatus(run.job, "running") \/ ("update" \in Faults /\ UNCHANGED jobs)
    /\ \/ /\ worker' = "merge"
          /\ UNCHANGED run
       \/ /\ "query" \in Faults
          /\ worker' = "error"
          /\ run' = [run EXCEPT !.transient = TRUE]
    /\ lost' = lost \ {run.job}
    /\ UNCHANGED <<list, handlers, stores, calls, late>>

-----------------------------------------------------------------------------
(* The generator of run_ingest_job *)

PeekNothing(j) == FALSE   \* mutant: the flag is not looked at
PeekCancel(j) == jobs[j].cancel

\* What follows a terminal output is never merged, so it is left out here.
TakeUp ==
    /\ worker \in Merging
    /\ ~ run.dead
    /\ Len(run.out) < Len(run.targets)
    /\ Len(run.out) < run.received + Window
    /\ \A i \in DOMAIN run.out : run.out[i] \notin {"cancelled", "jobError"}
    /\ \/ run' = [run EXCEPT !.out = Append(@, IF PeekCancel(run.job) THEN "cancelled" ELSE "busy")]
       \/ "query" \in Faults /\ run' = [run EXCEPT !.out = Append(@, "jobError")]
    /\ UNCHANGED <<jobs, list, handlers, worker, stores, calls, lost, late>>

\* check_ingested_file: an error of the database counts as no row.
HashFound(s) == {s \in ingested} \cup (IF "query" \in Faults THEN {FALSE} ELSE {})

\* process_source_path: a source with an unchanged hash is skipped.
Generated(i) ==
    /\ worker \in Merging
    /\ run.out[i] = "busy"
    /\ \E found \in HashFound(run.targets[i]) :
       \E o \in (IF found THEN {"skip"} ELSE {"pages"} \cup ({"empty"} \cap Faults))
                   \cup ({"failed"} \cap Faults) :
          run' = [run EXCEPT !.out[i] = o]
    /\ UNCHANGED <<jobs, list, handlers, worker, stores, calls, lost, late>>

\* The task panics: what it had not sent yet is gone.
GeneratorDies ==
    /\ "panic" \in Faults
    /\ worker \in Merging
    /\ ~ run.dead
    /\ \E i \in DOMAIN run.out : run.out[i] = "busy"
    /\ \E k \in run.received .. Len(run.out) :
          /\ worker # "merge" => k > run.received
          /\ \A i \in 1..k : run.out[i] # "busy"
          /\ run' = [run EXCEPT !.out = SubSeq(@, 1, k), !.dead = TRUE]
    /\ UNCHANGED <<jobs, list, handlers, worker, stores, calls, lost, late>>

-----------------------------------------------------------------------------
(* Its merge loop *)

Source == run.targets[run.received + 1]

Receive(output) ==
    /\ worker = "merge"
    /\ run.received < Len(run.out)
    /\ run.out[run.received + 1] = output

\* update_item_state; its error is ignored.
SetItem(st) ==
    \/ jobs' = [jobs EXCEPT ![run.job].items[Source] = st]
    \/ "update" \in Faults /\ UNCHANGED jobs

MergeCancelled ==
    /\ Receive("cancelled")
    /\ UpdateStatus("cancelled")
    /\ Rest
    /\ UNCHANGED <<list, handlers, stores, calls, late>>

MergeJobError ==
    /\ Receive("jobError")
    /\ run' = [run EXCEPT !.transient = TRUE]
    /\ worker' = "error"
    /\ UNCHANGED <<jobs, list, handlers, stores, calls, lost, late>>

MergeFailed ==
    /\ Receive("failed")
    /\ SetItem("failed")
    /\ run' = [run EXCEPT !.received = @ + 1, !.warned = TRUE]
    /\ UNCHANGED <<list, handlers, worker, stores, calls, lost, late>>

MergeSkipped ==
    /\ Receive("skip")
    /\ SetItem("done")
    /\ run' = [run EXCEPT !.received = @ + 1, !.done = @ + 1, !.skipped = @ + 1]
    /\ UNCHANGED <<list, handlers, worker, stores, calls, lost, late>>

\* The pages are upserted one by one, each failure a warning.
WritePages ==
    \E output \in {"pages", "empty"}, cohort \in {"all", "some", "none"} :
        /\ Receive(output)
        /\ cohort # "all" => "upsert" \in Faults /\ output = "pages"
        /\ run' = [run EXCEPT !.cohort = cohort,
                              !.wrote = @ \/ (output = "pages" /\ cohort # "none"),
                              !.warned = @ \/ output = "empty" \/ cohort # "all"]
        /\ written' = IF cohort = "all" THEN written \cup {Source} ELSE written
        /\ worker' = "mark"
        /\ UNCHANGED <<jobs, list, handlers, ingested, reviewed, calls, lost, late>>

MarkWritten == run.cohort # "none"   \* mutant: some pages are enough
MarkAllowed == run.cohort = "all"

\* An error of these two is a warning of the job.
Warn == "update" \in Faults /\ run' = [run EXCEPT !.warned = TRUE]

MarkFileIngested ==
    /\ worker = "mark"
    /\ IF MarkAllowed
       THEN /\ worker' = "review"
            /\ \/ ingested' = ingested \cup {Source} /\ UNCHANGED run
               \/ Warn /\ UNCHANGED ingested
       ELSE worker' = "item" /\ UNCHANGED <<run, ingested>>
    /\ UNCHANGED <<jobs, list, handlers, written, reviewed, calls, lost, late>>

InsertReviews ==
    /\ worker = "review"
    /\ \/ reviewed' = reviewed \cup {Source} /\ UNCHANGED run
       \/ Warn /\ UNCHANGED reviewed
    /\ worker' = "item"
    /\ UNCHANGED <<jobs, list, handlers, written, ingested, calls, lost, late>>

\* A source fails only if none of its pages was written.
ItemSkipped == IF run.cohort # "none" THEN "done" ELSE "skipped"   \* mutant
ItemOutcome == IF run.cohort # "none" THEN "done" ELSE "failed"

FinishItem ==
    /\ worker = "item"
    /\ SetItem(ItemOutcome)
    /\ run' = [run EXCEPT !.received = @ + 1,
                          !.done = IF ItemOutcome = "done" THEN @ + 1 ELSE @]
    /\ worker' = "merge"
    /\ UNCHANGED <<list, handlers, stores, calls, lost, late>>

-----------------------------------------------------------------------------
(* Its tail, and what the worker makes of the result *)

GeneratorOver == run.received = Len(run.out) /\ (run.dead \/ Len(run.out) = Len(run.targets))

ShortfallIgnored == FALSE   \* mutant: the outputs are not counted
Shortfall == run.received < Len(run.targets)

\* check_cancel; if there is nothing to cancel, the run goes on as r.  Its two
\* statements are the only ones here whose errors end the run.
CheckCancel(next, r) ==
    \/ /\ ~ PeekCancel(run.job)
       /\ worker' = next /\ run' = r
       /\ UNCHANGED jobs
    \/ /\ PeekCancel(run.job)
       /\ SetStatus(run.job, "cancelled")
       /\ Rest
    \/ /\ "query" \in Faults \/ ("update" \in Faults /\ PeekCancel(run.job))
       /\ worker' = "error"
       /\ run' = [run EXCEPT !.transient = TRUE]
       /\ UNCHANGED jobs

\* verify_generator_completeness and the first check of the flag
MergeOver ==
    /\ worker = "merge"
    /\ GeneratorOver
    /\ IF Shortfall
       THEN worker' = "error" /\ UNCHANGED <<jobs, run>>
       ELSE CheckCancel("last", run)
    /\ UNCHANGED <<list, handlers, stores, calls, lost, late>>

AllFailed == run.done = 0 /\ run.warned
AllSkipped == ~ run.wrote /\ ~ run.warned /\ run.skipped > 0 /\ run.done = run.skipped

\* The all-failed verdict: transient when the messages speak of a timeout, a
\* connection or a rate limit.
RunFails ==
    /\ worker = "last"
    /\ AllFailed
    /\ \E transient \in {FALSE} \cup {x \in {TRUE} : "limit" \in Faults} :
          run' = [run EXCEPT !.transient = transient]
    /\ worker' = "error"
    /\ UNCHANGED <<jobs, list, handlers, stores, calls, lost, late>>

\* The warning about a job all of whose sources were skipped, the second
\* check of the flag, and the embeddings.  "warn" stands for the warnings that
\* change nothing but the final status: of the embeddings, of the reserved
\* pages, of a link or a citation that was cleaned up.
RunEnds ==
    /\ worker = "last"
    /\ ~ AllFailed
    /\ \E warns \in {FALSE} \cup {x \in {TRUE} : "warn" \in Faults} :
          CheckCancel("report", [run EXCEPT !.warned = @ \/ AllSkipped \/ warns])
    /\ UNCHANGED <<list, handlers, stores, calls, lost, late>>

ReportSuccess ==
    /\ worker = "report"
    /\ UpdateStatus(IF run.warned THEN "succeeded_with_warnings" ELSE "succeeded")
    /\ Rest
    /\ UNCHANGED <<list, handlers, stores, calls, late>>

WithinBudget == run.tries <= MaxRetries   \* mutant: off by one
UnderBudget == run.tries < MaxRetries

ReportFailure ==
    /\ worker = "error"
    /\ IF run.transient /\ UnderBudget
       THEN worker' = "backoff" /\ UNCHANGED <<jobs, run, lost>>
       ELSE Rest /\ UpdateStatus("failed")
    /\ UNCHANGED <<list, handlers, stores, calls, late>>

\* After the backoff: the row first, then the list.
RetryPending ==
    /\ worker = "backoff"
    /\ \/ /\ jobs' = [jobs EXCEPT ![run.job].status = "pending", ![run.job].tries = @ + 1]
          /\ worker' = "push"
          /\ UNCHANGED <<run, lost>>
       \/ /\ "update" \in Faults
          /\ Rest
          /\ lost' = lost \cup {run.job}
          /\ UNCHANGED jobs
    /\ UNCHANGED <<list, handlers, stores, calls, late>>

RetryForgotten ==   \* mutant: the row is reset, nothing is pushed
    /\ worker = "push"
    /\ Rest
    /\ UNCHANGED <<jobs, list, handlers, stores, calls, lost, late>>

RetryPush ==
    /\ worker = "push"
    /\ Push(run.job)
    /\ Rest
    /\ UNCHANGED <<jobs, handlers, stores, calls, late>>

-----------------------------------------------------------------------------
\* The process is killed; a handler that was about to push dies with it.
Crash ==
    /\ "crash" \in Calls
    /\ worker # "down"
    /\ calls < MaxCalls
    /\ calls' = calls + 1
    /\ worker' = "down"
    /\ run' = NoRun
    /\ handlers' = {}
    /\ UNCHANGED <<jobs, list, stores, lost, late>>

Start ==
    /\ worker = "down"
    /\ worker' = "recover"
    /\ UNCHANGED <<jobs, list, handlers, run, stores, calls, lost, late>>

-----------------------------------------------------------------------------
WorkerStep ==
    \/ Start \/ Recover \/ Pop \/ Fetch \/ Claim
    \/ MergeCancelled \/ MergeJobError \/ MergeFailed \/ MergeSkipped
    \/ WritePages \/ MarkFileIngested \/ InsertReviews \/ FinishItem
    \/ MergeOver \/ RunFails \/ RunEnds
    \/ ReportSuccess \/ ReportFailure \/ RetryPending \/ RetryPush

GeneratorStep == TakeUp \/ \E i \in DOMAIN run.out : Generated(i)

Next ==
    \/ \E j \in Jobs : Enqueue(j) \/ ManualRetry(j) \/ RequestCancel(j) \/ HandlerPush(j)
    \/ WorkerStep \/ GeneratorStep \/ GeneratorDies
    \/ Crash

Spec == Init /\ [][Next]_vars

\* The server is started again, its tasks are scheduled, LLM calls, queries
\* and backoffs come to an end.
Fairness ==
    /\ WF_vars(WorkerStep) /\ WF_vars(GeneratorStep)
    /\ \A j \in Jobs : WF_vars(HandlerPush(j))

FairSpec == Spec /\ Fairness

-----------------------------------------------------------------------------
TypeOK ==
    /\ jobs \in [Jobs -> Job]
    /\ list \in Seq(Jobs)
    /\ handlers \subseteq Jobs
    /\ worker \in {"down", "recover", "pop", "fetch", "claim", "push"} \cup Busy
    /\ run \in Run
    /\ written \subseteq Sources /\ ingested \subseteq Sources /\ reviewed \subseteq Sources
    /\ calls \in 0..MaxCalls
    /\ lost \subseteq Jobs
    /\ late \subseteq Jobs \X Sources

\* While the worker serves the list, no unfinished job is stuck: a pending
\* one will be popped, a running one is the worker's.
NoStuckJob ==
    worker \notin {"down", "recover"} =>
        \A j \in Jobs \ lost :
            /\ jobs[j].status = "pending" =>
                  \/ j \in ToSet(list) \cup handlers
                  \/ run.job = j /\ worker \in Busy \cup {"fetch", "claim", "push"}
            /\ jobs[j].status = "running" =>
                  \/ run.job = j /\ worker \in Busy \cup {"fetch", "claim"}
                  \/ j \in ToSet(list)

\* The status of a finished job tells what became of its sources: a clean
\* success has them all, a success with warnings at least one.
OutcomeMatchesItems ==
    \A j \in Jobs :
        LET done == {s \in ToSet(PathsOf[j]) : jobs[j].items[s] = "done"} IN
        /\ jobs[j].status = "succeeded" => done = ToSet(PathsOf[j])
        /\ jobs[j].status = "succeeded_with_warnings" => done # {}

\* The deferred writes: a source is skipped for its hash only if all its pages
\* were written, also when a crash or a failed page came in between, and no
\* review item speaks of a source that will be processed again.
IngestedComplete == reviewed \subseteq ingested /\ ingested \subseteq written

\* A run resumed after a crash or a retry does not spend the LLM again on a
\* source the job already has as done.
DoneNotRedone ==
    [][Len(run'.out) > Len(run.out) =>
          jobs[run.job].items[run.targets[Len(run'.out)]] # "done"]_vars

\* After a cancel request no further source is taken up: what is merged had
\* been started before.
CancelBoundsWork ==
    [][\A x \in late \cap late' : jobs'[x[1]].items[x[2]] = jobs[x[1]].items[x[2]]]_vars

\* The automatic retries of a job are limited, whatever is in the list twice.
RetryBudget == \A j \in Jobs : jobs[j].tries <= MaxRetries

\* Every job is finished in the end, unless an ignored error lost its wakeup.
EveryJobSettles ==
    \A j \in Jobs : jobs[j].status \in Unfinished ~> (jobs[j].status \notin Unfinished \/ j \in lost)

\* Redelivery after a crash is safe: a clean success has the review items of
\* all its sources.
ReviewsKept ==
    \A j \in Jobs : jobs[j].status = "succeeded" => ToSet(PathsOf[j]) \subseteq reviewed
=============================================================================
