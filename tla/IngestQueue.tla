----------------------------- MODULE IngestQueue -----------------------------
(***************************************************************************)
(* The desktop ingest queue (src/lib/ingest-queue.ts): one in-memory queue *)
(* for the project that is open, persisted to a file of that project, a    *)
(* scheduler that starts up to `limit` runs, and the runs themselves.      *)
(*                                                                         *)
(* The code is single threaded and every function runs until its next      *)
(* await.  An action here is one such piece: a call of the module's API up *)
(* to its first await, or what follows when a registry lookup, a disk      *)
(* write or an ingest comes back.  processNext is called by most of them   *)
(* and is part of the calling action (operator Kick).                      *)
(*                                                                         *)
(* queueEpoch is only ever compared with the value a run or scheduler      *)
(* remembered, so each of those carries `fresh`: its epoch is still the    *)
(* current one.  A task object a run or scheduler refers to is named by    *)
(* its id, with `own` telling whether that object is still the queue's.    *)
(***************************************************************************)
EXTENDS Naturals, Sequences, FiniteSets, TaskQueues

CONSTANTS
    Projects, NoProject,
    Sources,
    Batches,        \* the lists of sources that are enqueued together
    TaskIds,        \* bound: ids of tasks alive anywhere at a time
    RunIds,         \* bound: runs alive at a time, numbers from 1
    SchedIds,       \* bound: suspended processNext calls, numbers from 1
    Limits,         \* values of the worker limit, within 1..5
    MaxRetries,     \* MAX_RETRIES
    MaxCalls,       \* bound: calls from the user interface and the watchers
    MaxWrites,      \* bound: calls are made while fewer disk writes wait
    Calls,          \* the API calls the environment makes
    Faults,         \* what may go wrong: see the uses
    Overlap         \* what may overlap with opening or closing a project:
                    \* "calls": API calls made meanwhile; "suspended": waiting
                    \* writes and lookups at its start

ASSUME QueueAssumption ==
    /\ NoProject \notin Projects /\ Projects # {} /\ Sources # {}
    /\ IsFiniteSet(TaskIds) /\ TaskIds # {}
    /\ RunIds \subseteq Nat \ {0} /\ IsFiniteSet(RunIds)
    /\ SchedIds \subseteq Nat \ {0}
    /\ Limits \subseteq 1..5 /\ Limits # {}
    /\ MaxRetries \in Nat \ {0}
    /\ MaxCalls \in Nat /\ MaxWrites \in Nat
    /\ Overlap \subseteq {"calls", "suspended"}
    /\ Batches \subseteq Seq(Sources)

VARIABLES
    \* module state of the code
    cur,            \* currentProjectId
    queue,          \* queue
    restored,       \* restoredPausedTaskIds
    cancelling,     \* cancelledInFlightTaskIds
    active,         \* activeRuns: the run of each task id, or NoRun
    paused,         \* paused
    limit,          \* workerLimit
    scheduling,     \* scheduling
    drainDue,       \* processedSinceDrain
    timer,          \* usageLimitResumeTimer: the project it is for
    writes,         \* pendingActiveQueueWrites, the one under way first
    \* suspended functions
    runs,           \* runTask calls, from startTask's reservation on
    scheds,         \* processNext calls inside startTask
    closing,        \* pauseQueue
    opening,        \* restoreQueue
    inactive,       \* enqueueInactiveProjectBatch
    \* outside of the process
    disk,           \* .llm-wiki/ingest-queue.json of each project: what loadQueue
                    \* makes of it, no tasks when it is cut off in the middle
    \* bookkeeping of the model
    calls,          \* calls made so far
    settled,        \* ids on disk whose task was done, discarded or cleared
    lost,           \* projects whose file was cut off, or not read by its last
                    \* loadQueue: the next write drops what it had
    overlapped      \* a project was closed while a call or the scheduler waited

mem == <<cur, queue, restored, cancelling, active, paused, limit, timer>>
sched == <<scheduling, drainDue, scheds>>
switch == <<closing, opening, overlapped>>
vars == <<mem, sched, switch, writes, runs, inactive, disk, lost, calls, settled>>

-----------------------------------------------------------------------------
(* Tasks, runs, schedulers *)

NoRun == 0

Statuses == {"pending", "processing", "failed", "cancelled"}

Task == [id: TaskIds, proj: Projects, src: Sources, st: Statuses,
         tries: Nat, auto: BOOLEAN]

\* unwanted is bookkeeping: the user cancelled the task while this run lived.
Run == [stage: {"none", "save", "prepare", "commit", "finish"},
        task: TaskIds, own: BOOLEAN, proj: Projects, fresh: BOOLEAN,
        aborted: BOOLEAN, unwanted: BOOLEAN]

Sched == [pc: {"none", "registry", "failed", "start"}, task: TaskIds,
          own: BOOLEAN, proj: Projects, fresh: BOOLEAN, run: RunIds \cup {NoRun}]

AnyTask == CHOOSE t \in TaskIds : TRUE
AnyProject == CHOOSE p \in Projects : TRUE

FreeRun == [stage |-> "none", task |-> AnyTask, own |-> FALSE,
            proj |-> AnyProject, fresh |-> FALSE, aborted |-> FALSE,
            unwanted |-> FALSE]
FreeSched == [pc |-> "none", task |-> AnyTask, own |-> FALSE,
              proj |-> AnyProject, fresh |-> FALSE, run |-> NoRun]

Live(r) == runs[r].stage # "none"

Requeue(t) == [t EXCEPT !.st = "pending", !.tries = 0]

\* task.projectId === currentProjectId
Mine == {id \in Ids(queue) : Entry(queue, id).proj = cur}

\* generateId: an id nothing refers to.
UsedIds ==
    UNION {Ids(queue), restored, cancelling, UNION {Ids(disk[p]) : p \in Projects},
           {id \in TaskIds : active[id] # NoRun},
           UNION {Ids(writes[i].tasks) : i \in DOMAIN writes},
           {runs[r].task : r \in {x \in RunIds : Live(x)}},
           {scheds[i].task : i \in {x \in SchedIds : scheds[x].pc # "none"}},
           Ids(inactive.tasks)}

NewTask(id, p, s, auto) ==
    [id |-> id, proj |-> p, src |-> s, st |-> "pending", tries |-> 0, auto |-> auto]

-----------------------------------------------------------------------------
(* Initially the application has just been started. *)

IdleClosing == [pc |-> "idle", proj |-> AnyProject, waiting |-> {}]
IdleOpening == [pc |-> "idle", proj |-> AnyProject, waits |-> FALSE]
IdleInactive == [pc |-> "idle", proj |-> AnyProject, src |-> CHOOSE s \in Sources : TRUE,
                 tasks |-> << >>]

ProcessStart ==
    /\ cur = NoProject
    /\ queue = << >>
    /\ restored = {}
    /\ cancelling = {}
    /\ active = [id \in TaskIds |-> NoRun]
    /\ paused = FALSE
    /\ scheduling = FALSE
    /\ drainDue = FALSE
    /\ timer = NoProject
    /\ writes = << >>
    /\ runs = [r \in RunIds |-> FreeRun]
    /\ scheds = [i \in SchedIds |-> FreeSched]
    /\ closing = IdleClosing
    /\ opening = IdleOpening
    /\ inactive = IdleInactive

Init ==
    /\ ProcessStart
    /\ limit \in Limits
    /\ disk = [p \in Projects |-> << >>]
    /\ calls = 0
    /\ settled = {} /\ lost = {} /\ overlapped = FALSE

-----------------------------------------------------------------------------
(* saveQueue and processNext, as parts of the functions that call them.    *)
(* They read the primed queue: the caller has changed it before.           *)

\* The snapshot is taken at the call; k is what the caller does afterwards:
\* nothing, processNext, or what its function goes on with.
WriteKinds == {<<"none">>, <<"next">>, <<"close">>}
                \cup {<<"sched", i>> : i \in SchedIds}
                \cup {<<"run", r, b>> : r \in RunIds, b \in BOOLEAN}
                \cup {<<"open", b>> : b \in BOOLEAN}

Request(p, k) == [proj |-> p, tasks |-> queue', k |-> k]
Save(p, k) == writes' = Append(writes, Request(p, k))

\* Mutants: the workers of cancelled tasks are not counted, the task's old run
\* or the restored backlog is not looked at.
ProcessingCount == Cardinality(Having(queue', "processing"))

ActiveCount == Cardinality({id \in TaskIds : active'[id] # NoRun})

RunnableTwice(p) == {i \in DOMAIN queue' : /\ queue'[i].proj = p
                                           /\ queue'[i].st = "pending"
                                           /\ queue'[i].id \notin restored'}

RunnableAtOnce(p) == {i \in DOMAIN queue' : /\ queue'[i].proj = p
                                            /\ queue'[i].st = "pending"
                                            /\ active'[queue'[i].id] = NoRun}

Runnable(p) == {i \in DOMAIN queue' : /\ queue'[i].proj = p
                                      /\ queue'[i].st = "pending"
                                      /\ active'[queue'[i].id] = NoRun
                                      /\ queue'[i].id \notin restored'}

Backlog(p) == {i \in DOMAIN queue' : /\ queue'[i].proj = p
                                     /\ queue'[i].st = "pending"
                                     /\ queue'[i].id \in restored'}

\* The loop of processNext: on to the next task's registry lookup, or out.
\* Leaving it starts the review sweep when an ingest was done since the last.
Loop(i, p, entered) ==
    IF ActiveCount < limit' /\ cur' = p /\ ~ paused' /\ Runnable(p) # {}
    THEN LET next == queue'[CHOOSE k \in Runnable(p) : \A l \in Runnable(p) : k <= l] IN
         /\ scheds' = [scheds EXCEPT ![i] =
                [pc |-> "registry", task |-> next.id, own |-> TRUE, proj |-> p,
                 fresh |-> TRUE, run |-> NoRun]]
         /\ scheduling' = entered
         /\ UNCHANGED drainDue
    ELSE /\ scheds' = [scheds EXCEPT ![i] = FreeSched]
         /\ scheduling' = FALSE
         /\ drainDue' = (drainDue /\ ~ (/\ cur' = p /\ ActiveCount = 0
                                        /\ Runnable(p) = {} /\ Backlog(p) = {}))

\* processNext(p)
Kick(p) ==
    IF scheduling \/ cur' # p \/ p = NoProject \/ paused'
    THEN UNCHANGED sched
    ELSE \E i \in SchedIds :
            /\ scheds[i].pc = "none"
            /\ \A j \in SchedIds : j < i => scheds[j].pc # "none"
            /\ Loop(i, p, TRUE)

\* A suspended processNext goes on; it does not set the flag again.
GoOn(i) == Loop(i, scheds[i].proj, scheduling)

Abort(S) == runs' = [r \in RunIds |-> IF r \in S THEN [runs[r] EXCEPT !.aborted = TRUE]
                                      ELSE runs[r]]

\* The abort of the runs in S by a user who cancels the tasks in T.
AbortUnwanted(S, T) ==
    runs' = [r \in RunIds |->
               [runs[r] EXCEPT !.aborted = @ \/ r \in S,
                               !.unwanted = @ \/ (runs[r].stage \in {"save", "prepare", "commit"}
                                                  /\ runs[r].task \in T /\ runs[r].fresh)]]

RunsOf(S) == {active[id] : id \in S} \ {NoRun}

-----------------------------------------------------------------------------
(* The environment's calls *)

Switching == closing.pc # "idle" \/ opening.pc # "idle"

Call(op) ==
    /\ op \in Calls
    /\ calls < MaxCalls
    /\ Len(writes) < MaxWrites
    /\ calls' = calls + 1
    /\ Switching => "calls" \in Overlap

\* A save of a call or the scheduler is waited for.
Suspended == writes # << >> \/ \E i \in SchedIds : scheds[i].pc # "none"

\* pauseQueue or restoreQueue is called.
SwitchCall ==
    /\ Call("switch")
    /\ Suspended => "suspended" \in Overlap

\* Find the pending or stopped task of the source and make it pending again,
\* or add one: a source being processed gets a second task.
Reusable(q, s) == {i \in DOMAIN q : /\ q[i].proj = cur /\ q[i].src = s
                                    /\ q[i].st \in {"pending", "failed", "cancelled"}}

Upsert(st, s) ==
    IF Reusable(st.q, s) # {}
    THEN LET i == CHOOSE k \in Reusable(st.q, s) : \A l \in Reusable(st.q, s) : k <= l
         IN [st EXCEPT !.q[i] = Requeue(@), !.asked = @ \cup {st.q[i].id}]
    ELSE LET id == CHOOSE x \in TaskIds \ (UsedIds \cup Ids(st.q)) : TRUE
         IN [st EXCEPT !.q = Append(@, NewTask(id, cur, s, FALSE)),
                       !.asked = @ \cup {id}]

UpsertAll(files) ==
    LET st[n \in 0..Len(files)] ==
            IF n = 0 THEN [q |-> queue, asked |-> {}] ELSE Upsert(st[n - 1], files[n])
    IN st[Len(files)]

\* enqueueIngest and enqueueBatch
Enqueue(files) ==
    LET st == UpsertAll(files) IN
    /\ Call("enqueue")
    /\ cur # NoProject
    /\ Cardinality(TaskIds \ UsedIds) >= Len(files)
    /\ queue' = st.q
    /\ restored' = restored \ st.asked
    /\ settled' = settled \ st.asked
    /\ Save(cur, <<"next">>)
    /\ UNCHANGED <<cur, cancelling, active, paused, limit, timer, sched, switch,
                   runs, inactive, disk, lost>>

\* retryTask, retryTasks, retryAllFailedTasks, retryAllStoppedTasks
Retry(S) ==
    /\ Call("retry")
    /\ S # {} /\ S \subseteq Mine
    /\ S \subseteq Having(queue, "failed") \cup Having(queue, "cancelled")
    /\ queue' = Revise(queue, S, Requeue)
    /\ restored' = restored \ S
    /\ Save(cur, <<"next">>)
    /\ UNCHANGED <<cur, cancelling, active, paused, limit, timer, sched, switch,
                   runs, inactive, disk, lost, settled>>

\* An empty queue drops the pause and its timer.
UnpauseIfIdle ==
    IF Having(queue', "pending") \cup Having(queue', "processing") = {}
    THEN paused' = FALSE /\ timer' = NoProject
    ELSE UNCHANGED <<paused, timer>>

\* A cancelled run keeps its worker slot and calls processNext when it ends.
AfterCancel(S) == IF S \cap Having(queue, "processing") = {} THEN <<"next">> ELSE <<"none">>

\* cancelTask (of one task, whatever its status) and cancelTasks
Cancel(S) ==
    /\ Call("cancel")
    /\ S # {} /\ S \subseteq Mine
    /\ \/ Cardinality(S) = 1
       \/ S \subseteq Having(queue, "pending") \cup Having(queue, "processing")
    /\ cancelling' = cancelling \cup (S \cap Having(queue, "processing"))
    /\ AbortUnwanted(RunsOf(S), S)
    /\ restored' = restored \ S
    /\ queue' = WithStatus(queue, S, "cancelled")
    /\ UnpauseIfIdle
    /\ Save(cur, AfterCancel(S))
    /\ UNCHANGED <<cur, active, limit, sched, switch, inactive, disk, lost, settled>>

CancelAll ==
    LET S == Having(queue, "pending") \cup Having(queue, "processing") IN
    /\ Call("cancelAll")
    /\ cur # NoProject
    /\ cancelling' = cancelling \cup (Mine \cap Having(queue, "processing"))
    /\ AbortUnwanted(RunsOf(TaskIds), S)
    /\ restored' = restored \ S
    /\ queue' = WithStatus(queue, S, "cancelled")
    /\ paused' = FALSE
    /\ timer' = NoProject
    /\ Save(cur, AfterCancel(S \cap Mine))
    /\ UNCHANGED <<cur, active, limit, sched, switch, inactive, disk, lost, settled>>

\* discardTasksForSources
Discard(s) ==
    LET S == {id \in Mine : Entry(queue, id).src = s} IN
    /\ Call("discard")
    /\ S # {}
    /\ cancelling' = cancelling \cup (S \cap Having(queue, "processing"))
    /\ AbortUnwanted(RunsOf(S), S)
    /\ restored' = restored \ S
    /\ queue' = Without(queue, S)
    /\ settled' = settled \cup S
    /\ UnpauseIfIdle
    /\ Save(cur, AfterCancel(S))
    /\ UNCHANGED <<cur, active, limit, sched, switch, inactive, disk, lost>>

\* clearCompletedTasks keeps pending and processing tasks only.
ClearCompleted ==
    LET S == Having(queue, "failed") \cup Having(queue, "cancelled") IN
    /\ Call("clear")
    /\ cur # NoProject
    /\ S # {}
    /\ queue' = Without(queue, S)
    /\ settled' = settled \cup S
    /\ Save(cur, <<"none">>)
    /\ UNCHANGED <<cur, restored, cancelling, active, paused, limit, timer, sched,
                   switch, runs, inactive, disk, lost>>

Waits(i) == queue[i].st = "pending" /\ queue[i].proj = cur

\* movePendingTask: swap two neighbours of the pending tasks.
MovePending(i, j) ==
    /\ Call("move")
    /\ i < j
    /\ Waits(i) /\ Waits(j)
    /\ \A k \in i + 1 .. j - 1 : ~ Waits(k)
    /\ queue' = [queue EXCEPT ![i] = queue[j], ![j] = queue[i]]
    /\ Save(cur, <<"none">>)
    /\ UNCHANGED <<cur, restored, cancelling, active, paused, limit, timer, sched,
                   switch, runs, inactive, disk, lost, settled>>

PauseProcessing ==
    LET S == Mine \cap Having(queue, "processing") IN
    /\ Call("pause")
    /\ cur # NoProject
    /\ paused' = TRUE
    /\ timer' = NoProject
    /\ queue' = WithStatus(queue, S, "pending")
    /\ Abort(RunsOf(S))
    /\ IF S # {} THEN Save(cur, <<"none">>) ELSE UNCHANGED writes
    /\ UNCHANGED <<cur, restored, cancelling, active, limit, sched, switch, inactive,
                   disk, lost, settled>>

ResumeProcessing ==
    /\ Call("resume")
    /\ cur # NoProject
    /\ paused' = FALSE
    /\ timer' = NoProject
    /\ restored' = {}
    /\ UNCHANGED <<cur, queue, cancelling, active, limit, switch, writes, runs,
                   inactive, disk, lost, settled>>
    /\ Kick(cur)

SetWorkerLimit(n) ==
    /\ Call("limit")
    /\ limit # n
    /\ limit' = n
    /\ UNCHANGED <<cur, queue, restored, cancelling, active, paused, timer, switch,
                   writes, runs, inactive, disk, lost, settled>>
    /\ Kick(cur)

-----------------------------------------------------------------------------
(* startTask, inside a suspended processNext *)

SchedulerStale(i) == cur # scheds[i].proj \/ ~ scheds[i].fresh

\* The registry lookup is back and the project was switched meanwhile.
StartStale(i) ==
    /\ scheds[i].pc = "registry"
    /\ SchedulerStale(i)
    /\ UNCHANGED <<mem, switch, writes, runs, inactive, disk, lost, calls, settled>>
    /\ GoOn(i)

\* A statement `task.status = st` on the object the scheduler holds.
SetOwn(own, id, st) == IF own THEN WithStatus(queue, {id}, st) ELSE queue

\* The project is not in the registry, or no LLM is configured.
StartImpossible(i) ==
    /\ "unusable" \in Faults
    /\ scheds[i].pc = "registry"
    /\ ~ SchedulerStale(i)
    /\ queue' = SetOwn(scheds[i].own, scheds[i].task, "failed")
    /\ scheds' = [scheds EXCEPT ![i].pc = "failed"]
    /\ Save(cur, <<"sched", i>>)
    /\ UNCHANGED <<cur, restored, cancelling, active, paused, limit, timer, scheduling,
                   drainDue, switch, runs, inactive, disk, lost, calls, settled>>

\* A run takes the task: whatever became of the task during the lookup.
StartRun(i) ==
    LET t == scheds[i].task
        r == CHOOSE x \in RunIds : ~ Live(x) IN
    /\ scheds[i].pc = "registry"
    /\ ~ SchedulerStale(i)
    /\ \E x \in RunIds : ~ Live(x)
    /\ runs' = [runs EXCEPT ![r] =
          [stage |-> "save", task |-> t, own |-> scheds[i].own, proj |-> cur,
           fresh |-> TRUE, aborted |-> FALSE, unwanted |-> FALSE]]
    /\ restored' = restored \ {t}
    /\ queue' = SetOwn(scheds[i].own, t, "processing")
    /\ active' = [active EXCEPT ![t] = r]
    /\ scheds' = [scheds EXCEPT ![i].pc = "start", ![i].run = r]
    /\ Save(cur, <<"sched", i>>)
    /\ UNCHANGED <<cur, cancelling, paused, limit, timer, scheduling, drainDue,
                   switch, inactive, disk, lost, calls, settled>>

-----------------------------------------------------------------------------
(* autoIngest, as the queue sees it: CommitPipeline has its locks and turns. *)

\* commitActive: the commits of a project are serial, and one that finds its
\* signal aborted does not begin.
BeginCommit(r) ==
    /\ runs[r].stage = "prepare"
    /\ ~ runs[r].aborted
    /\ \A x \in RunIds : runs[x].proj = runs[r].proj => runs[x].stage # "commit"
    /\ runs' = [runs EXCEPT ![r].stage = "commit"]
    /\ UNCHANGED <<mem, sched, switch, writes, inactive, disk, lost, calls, settled>>

\* How autoIngest can end: with files written, with an error of the provider's
\* usage limit, with another error (no output and "cancelled" included).
MayEnd(r, outcome) ==
    \/ outcome = "ok" /\ runs[r].stage = "commit"
    \/ /\ outcome \in {"limit", "error"}
       /\ runs[r].stage \in {"prepare", "commit"}
       /\ outcome \in Faults \/ (outcome = "error" /\ runs[r].aborted)

RunStale(r) == cur # runs[r].proj \/ ~ runs[r].fresh

\* activeRuns forgets the run unless another one has taken its place.
Forget(r) == active' = [id \in TaskIds |-> IF active[id] = r THEN NoRun ELSE active[id]]

\* pauseQueue waits for the completion of the runs that were committing.
Completed(r) == closing' = [closing EXCEPT !.waiting = @ \ {r}]

Finishing(r, limited) ==
    /\ runs' = [runs EXCEPT ![r].stage = "finish"]
    /\ Save(cur, <<"run", r, limited>>)

\* The project was switched: the result is ignored.
EndStale(r, outcome) ==
    /\ MayEnd(r, outcome)
    /\ RunStale(r)
    /\ runs' = [runs EXCEPT ![r] = FreeRun]
    /\ Forget(r)
    /\ Completed(r)
    /\ UNCHANGED <<cur, queue, restored, cancelling, paused, limit, timer, sched,
                   opening, overlapped, writes, inactive, disk, lost, calls, settled>>

UnwantedNow(t) == Status(queue, t) = "cancelled"   \* mutant: no set of cancelled runs
Unwanted(t) == t \in cancelling \/ Status(queue, t) = "cancelled"

\* The task was cancelled: neither done nor failed.
EndCancelled(r, outcome) ==
    /\ MayEnd(r, outcome)
    /\ ~ RunStale(r)
    /\ Unwanted(runs[r].task)
    /\ cancelling' = cancelling \ {runs[r].task}
    /\ UNCHANGED <<cur, queue, restored, active, paused, limit, timer, sched, switch,
                   inactive, disk, lost, calls, settled>>
    /\ Finishing(r, FALSE)

EndDone(r) ==
    /\ MayEnd(r, "ok")
    /\ ~ RunStale(r)
    /\ ~ Unwanted(runs[r].task)
    /\ queue' = Without(queue, {runs[r].task})
    /\ settled' = settled \cup {runs[r].task}
    /\ drainDue' = TRUE
    /\ Finishing(r, FALSE)
    /\ UNCHANGED <<cur, restored, cancelling, active, paused, limit, timer, scheduling,
                   scheds, switch, inactive, disk, lost, calls>>

\* An error after the task was put back to pending by a pause.
EndPaused(r, outcome) ==
    /\ outcome # "ok"
    /\ MayEnd(r, outcome)
    /\ ~ RunStale(r)
    /\ ~ Unwanted(runs[r].task)
    /\ Status(queue, runs[r].task) = "pending"
    /\ UNCHANGED <<mem, sched, switch, inactive, disk, lost, calls, settled>>
    /\ Finishing(r, FALSE)

Failing(r, outcome) ==
    /\ MayEnd(r, outcome)
    /\ ~ RunStale(r)
    /\ ~ Unwanted(runs[r].task)
    /\ Status(queue, runs[r].task) # "pending"

\* A usage limit pauses the queue: this task and its processing siblings go
\* back to pending without using up a retry, the siblings' runs are aborted.
EndLimited(r) ==
    LET siblings == {id \in Having(queue, "processing") :
                        active[id] # NoRun /\ id # runs[r].task /\ Entry(queue, id).proj = runs[r].proj} IN
    /\ Failing(r, "limit")
    /\ queue' = WithStatus(SetOwn(runs[r].own, runs[r].task, "pending"), siblings, "pending")
    /\ paused' = TRUE
    /\ runs' = [x \in RunIds |->
                  IF x = r THEN [runs[r] EXCEPT !.stage = "finish"]
                  ELSE [runs[x] EXCEPT !.aborted = @ \/ x \in RunsOf(siblings)]]
    /\ Save(cur, <<"run", r, TRUE>>)
    /\ UNCHANGED <<cur, restored, cancelling, active, limit, timer, sched, switch,
                   inactive, disk, lost, calls, settled>>

InPlace(t) == [t EXCEPT !.tries = @ + 1]   \* mutant: the status is forgotten
Failed(t) == [t EXCEPT !.tries = @ + 1,
                       !.st = IF t.tries + 1 >= MaxRetries THEN "failed" ELSE "pending"]

\* Another failure: back to pending until MAX_RETRIES, then failed.
EndFailed(r) ==
    /\ Failing(r, "error")
    /\ queue' = IF runs[r].own THEN Revise(queue, {runs[r].task}, Failed) ELSE queue
    /\ UNCHANGED <<cur, restored, cancelling, active, paused, limit, timer, sched, switch,
                   inactive, disk, lost, calls, settled>>
    /\ Finishing(r, FALSE)

-----------------------------------------------------------------------------
(* The files.  write_file is fs::write, which empties the file first.      *)

BeingWritten ==
    {p \in Projects : \/ writes # << >> /\ Head(writes).proj = p
                      \/ inactive.pc = "write" /\ inactive.proj = p}

Cut(S) ==
    /\ disk' = [p \in Projects |-> IF p \in S THEN << >> ELSE disk[p]]
    /\ lost' = lost \cup S

\* A write that fails leaves the old content, or a part of the new one.
WriteFile(p, tasks) ==
    \/ disk' = [disk EXCEPT ![p] = tasks] /\ lost' = lost \ {p}
    \/ "write" \in Faults /\ (UNCHANGED <<disk, lost>> \/ Cut({p}))

\* loadQueue: a read that fails, or comes in the middle of a write, gives [].
Loadable(p) ==
    {disk[p]} \cup (IF "read" \in Faults \/ p \in BeingWritten THEN {<< >>} ELSE {})

LoadFile(p, tasks) ==
    /\ tasks \in Loadable(p)
    /\ lost' = IF tasks = disk[p] THEN lost \ {p} ELSE lost \cup {p}

-----------------------------------------------------------------------------
(* What follows a disk write.  Writes are serialized, the caller of one    *)
(* that fails goes on.                                                     *)

Written == writes # << >> /\ WriteFile(Head(writes).proj, Head(writes).tasks)

WakesNever(k) == FALSE   \* mutant: processNext is not called after the save
Wakes(k) == k = <<"next">>

\* enqueueIngest, retryTask, cancelTask of waiting tasks: processNext follows.
SavedCall ==
    /\ Written
    /\ Head(writes).k \in {<<"next">>, <<"none">>}
    /\ writes' = Tail(writes)
    /\ UNCHANGED <<mem, switch, runs, inactive, calls, settled>>
    /\ IF Wakes(Head(writes).k) THEN Kick(cur) ELSE UNCHANGED sched

\* startTask: the task was failed at once, the loop goes on.
SavedImpossible(i) ==
    /\ Written
    /\ Head(writes).k = <<"sched", i>>
    /\ scheds[i].pc = "failed"
    /\ writes' = Tail(writes)
    /\ UNCHANGED <<mem, switch, runs, inactive, calls, settled>>
    /\ GoOn(i)

\* startTask: the run begins, unless the project was switched.
SavedStart(i) ==
    LET r == scheds[i].run
        stale == cur # scheds[i].proj \/ ~ runs[r].fresh IN
    /\ Written
    /\ Head(writes).k = <<"sched", i>>
    /\ scheds[i].pc = "start"
    /\ writes' = Tail(writes)
    /\ IF stale
       THEN /\ runs' = [runs EXCEPT ![r] = FreeRun]
            /\ active' = [active EXCEPT ![runs[r].task] = NoRun]
       ELSE /\ runs' = [runs EXCEPT ![r].stage = "prepare"]
            /\ UNCHANGED active
    /\ UNCHANGED <<cur, queue, restored, cancelling, paused, limit, timer, switch,
                   inactive, calls, settled>>
    /\ GoOn(i)

\* runTask's finally ends with processNext, unless the project was switched.
SlotFreedOnly(r) == UNCHANGED sched   \* mutant: it does not
SlotFreed(r) == IF RunStale(r) THEN UNCHANGED sched ELSE Kick(runs[r].proj)

\* scheduleUsageLimitAutoResume, when the run met a limit
ArmIdle(r, limited) ==   \* mutant: only by the last run of the pool
    timer' = IF limited /\ RunsOf(TaskIds) = {r} THEN runs[r].proj ELSE timer
Arm(r, limited) ==
    timer' = IF limited /\ timer = NoProject THEN runs[r].proj ELSE timer

\* runTask: a usage limit arms the timer; the worker slot is given back.
SavedRun(r) ==
    /\ Written
    /\ Head(writes).k \in {<<"run", r, TRUE>>, <<"run", r, FALSE>>}
    /\ writes' = Tail(writes)
    /\ Arm(r, Head(writes).k[3])
    /\ runs' = [runs EXCEPT ![r] = FreeRun]
    /\ Forget(r)
    /\ Completed(r)
    /\ UNCHANGED <<cur, queue, restored, cancelling, paused, limit, opening, overlapped,
                   inactive, calls, settled>>
    /\ SlotFreed(r)

\* The usage-limit timer, 15 minutes later.
TimerFires ==
    /\ timer # NoProject
    /\ timer' = NoProject
    /\ paused' = IF cur = timer THEN FALSE ELSE paused
    /\ UNCHANGED <<cur, queue, restored, cancelling, active, limit, switch, writes, runs,
                   inactive, disk, lost, calls, settled>>
    /\ IF cur = timer THEN Kick(cur) ELSE UNCHANGED sched

-----------------------------------------------------------------------------
(* Closing a project: pauseQueue *)

\* queueEpoch += 1
Outdated == /\ scheds' = [i \in SchedIds |-> [scheds[i] EXCEPT !.fresh = FALSE]]
            /\ scheduling' = FALSE
            /\ UNCHANGED drainDue

\* Once no commit is under way: the queue is flushed as if interrupted, to
\* the file of the project that is paused.
Flush(p) ==
    /\ active' = [id \in TaskIds |-> NoRun]
    /\ queue' = Interrupted(queue)
    /\ closing' = [pc |-> "save1", proj |-> p, waiting |-> {}]
    /\ Save(p, <<"close">>)

\* The commits pauseQueue waits for.
CommittingIgnored == {}   \* mutant: it waits for none
Committing == {r \in RunsOf(TaskIds) : runs[r].stage = "commit"}

PauseQueue ==
    /\ SwitchCall
    /\ cur # NoProject
    /\ closing.pc = "idle"
    /\ timer' = NoProject
    /\ Outdated
    /\ overlapped' = (overlapped \/ Suspended)
    /\ runs' = [r \in RunIds |-> [runs[r] EXCEPT !.fresh = FALSE,
                                     !.aborted = @ \/ r \in RunsOf(TaskIds)]]
    /\ IF Committing = {}
       THEN Flush(cur)
       ELSE /\ closing' = [pc |-> "commits", proj |-> cur, waiting |-> Committing]
            /\ UNCHANGED <<active, queue, writes>>
    /\ UNCHANGED <<cur, restored, cancelling, paused, limit, opening, inactive, disk, lost,
                   settled>>

CommitsOver ==
    /\ closing.pc = "commits"
    /\ closing.waiting = {}
    /\ Flush(closing.proj)
    /\ UNCHANGED <<cur, restored, cancelling, paused, limit, timer, sched, opening, overlapped,
                   runs, inactive, disk, lost, calls, settled>>

FlushAgain == closing.pc = "save1"

\* The first flush is followed by a second one, the second by the wipe.
SavedClose ==
    /\ Written
    /\ Head(writes).k = <<"close">>
    /\ IF FlushAgain
       THEN /\ queue' = Interrupted(queue)
            /\ writes' = Append(Tail(writes), Request(closing.proj, <<"close">>))
            /\ closing' = [closing EXCEPT !.pc = "save2"]
            /\ UNCHANGED <<cur, restored, cancelling, drainDue>>
       ELSE /\ queue' = << >>
            /\ restored' = {}
            /\ cancelling' = {}
            /\ cur' = NoProject
            /\ drainDue' = FALSE
            /\ closing' = IdleClosing
            /\ writes' = Tail(writes)
    /\ UNCHANGED <<active, paused, limit, timer, scheduling, scheds, opening, overlapped,
                   runs, inactive, calls, settled>>

-----------------------------------------------------------------------------
(* Opening a project: restoreQueue *)

InactiveIgnored == FALSE   \* mutant: restoreQueue does not await that write
InactiveBusy == inactive.pc # "idle"

RestoreQueue(p) ==
    /\ SwitchCall
    /\ opening.pc = "idle"
    /\ cur # NoProject => "calls" \in Overlap
    /\ queue' = << >>
    /\ restored' = {}
    /\ cancelling' = {}
    /\ active' = [id \in TaskIds |-> NoRun]
    /\ timer' = NoProject
    /\ paused' = FALSE
    /\ cur' = p
    /\ Outdated
    /\ runs' = [r \in RunIds |-> [runs[r] EXCEPT !.fresh = FALSE]]
    /\ opening' = [pc |-> "load", proj |-> p, waits |-> InactiveBusy]
    /\ UNCHANGED <<limit, closing, overlapped, writes, inactive, disk, lost, settled>>

\* The file is read once the inactive-project write under way at the call is
\* over.  Pending tasks wait for the user unless they were marked autoStart.
Restored(saved) ==
    LET mine == Without(saved, {id \in Ids(saved) : Entry(saved, id).proj # opening.proj}) IN
    /\ settled' = settled \ Ids(saved)
    /\ IF saved = << >>
       THEN /\ opening' = IdleOpening
            /\ UNCHANGED <<queue, restored, writes, runs, scheds>>
       ELSE /\ queue' = Interrupted(mine)
            /\ restored' = {id \in Having(queue', "pending") : ~ Entry(queue', id).auto}
            /\ runs' = [r \in RunIds |-> [runs[r] EXCEPT !.own = FALSE]]
            /\ scheds' = [i \in SchedIds |-> [scheds[i] EXCEPT !.own = FALSE]]
            /\ opening' = [opening EXCEPT !.pc = "save"]
            /\ Save(opening.proj, <<"open", Having(mine, "processing") # {}>>)

RestoreLoad ==
    /\ opening.pc = "load"
    /\ ~ opening.waits
    /\ \E saved \in Loadable(opening.proj) :
          LoadFile(opening.proj, saved) /\ Restored(saved)
    /\ UNCHANGED <<cur, cancelling, active, paused, limit, timer, scheduling, drainDue,
                   closing, overlapped, inactive, disk, calls>>

SavedOpen ==
    /\ Written
    /\ Head(writes).k \in {<<"open", TRUE>>, <<"open", FALSE>>}
    /\ writes' = Tail(writes)
    /\ opening' = IdleOpening
    /\ UNCHANGED <<mem, closing, overlapped, runs, inactive, calls, settled>>
    /\ IF Having(queue, "pending") # {} \/ Head(writes).k[2]
       THEN Kick(opening.proj)
       ELSE UNCHANGED sched

-----------------------------------------------------------------------------
(* Scheduled imports for a project that is not open:                       *)
(* enqueueInactiveProjectBatch.  It writes the file of the project itself. *)

EnqueueInactive(p, s) ==
    /\ Call("inactive")
    /\ cur # p
    /\ inactive.pc = "idle"
    /\ inactive' = [pc |-> "load", proj |-> p, src |-> s, tasks |-> << >>]
    /\ UNCHANGED <<mem, sched, switch, writes, runs, disk, lost, settled>>

\* The source's task in the file is made pending again, or one is added.
Import(saved) ==
    LET p == inactive.proj
        same == {i \in DOMAIN saved : saved[i].proj = p /\ saved[i].src = inactive.src}
        first == CHOOSE i \in same : \A j \in same : i <= j
        id == CHOOSE x \in TaskIds \ UsedIds : TRUE IN
    /\ same # {} \/ TaskIds \ UsedIds # {}
    /\ inactive' = [inactive EXCEPT !.pc = "write", !.tasks =
          IF same # {} THEN [saved EXCEPT ![first] = [Requeue(@) EXCEPT !.auto = TRUE]]
          ELSE Append(saved, NewTask(id, p, inactive.src, TRUE))]
    /\ settled' = IF same # {} THEN settled ELSE settled \ {id}

\* It gives up when the project has been opened meanwhile.
InactiveLoad ==
    /\ inactive.pc = "load"
    /\ IF cur = inactive.proj
       THEN /\ inactive' = IdleInactive
            /\ opening' = [opening EXCEPT !.waits = FALSE]
            /\ UNCHANGED <<lost, settled>>
       ELSE /\ \E saved \in Loadable(inactive.proj) :
                  LoadFile(inactive.proj, saved) /\ Import(saved)
            /\ UNCHANGED opening
    /\ UNCHANGED <<mem, sched, closing, overlapped, writes, runs, disk, calls>>

InactiveWrite ==
    /\ inactive.pc = "write"
    /\ WriteFile(inactive.proj, inactive.tasks)
    /\ inactive' = IdleInactive
    /\ opening' = [opening EXCEPT !.waits = FALSE]
    /\ UNCHANGED <<mem, sched, closing, overlapped, writes, runs, calls, settled>>

-----------------------------------------------------------------------------
\* The application is killed and started again: only the files survive, and
\* those that were being written may be cut off.
Crash ==
    /\ "crash" \in Calls
    /\ calls < MaxCalls
    /\ calls' = calls + 1
    /\ cur' = NoProject /\ queue' = << >> /\ restored' = {} /\ cancelling' = {}
    /\ active' = [id \in TaskIds |-> NoRun]
    /\ paused' = FALSE /\ timer' = NoProject /\ scheduling' = FALSE /\ drainDue' = FALSE
    /\ writes' = << >>
    /\ runs' = [r \in RunIds |-> FreeRun]
    /\ scheds' = [i \in SchedIds |-> FreeSched]
    /\ closing' = IdleClosing /\ opening' = IdleOpening /\ inactive' = IdleInactive
    /\ \E S \in SUBSET BeingWritten : Cut(S)
    /\ UNCHANGED <<limit, overlapped, settled>>

-----------------------------------------------------------------------------
UserStep ==
    \/ \E files \in Batches : Enqueue(files)
    \/ \E s \in Sources : Discard(s)
    \/ \E S \in SUBSET Ids(queue) : Retry(S) \/ Cancel(S)
    \/ CancelAll \/ ClearCompleted \/ PauseProcessing \/ ResumeProcessing
    \/ \E i, j \in DOMAIN queue : MovePending(i, j)
    \/ \E n \in Limits : SetWorkerLimit(n)
    \/ PauseQueue
    \/ \E p \in Projects : RestoreQueue(p)
    \/ \E p \in Projects, s \in Sources : EnqueueInactive(p, s)
    \/ Crash

Scheduler ==
    \E i \in SchedIds :
        StartStale(i) \/ StartImpossible(i) \/ StartRun(i)

RunStep(r) ==
    \/ \E outcome \in {"ok", "limit", "error"} :
          EndStale(r, outcome) \/ EndCancelled(r, outcome) \/ EndPaused(r, outcome)
    \/ EndDone(r) \/ EndLimited(r) \/ EndFailed(r)

DiskStep ==
    \/ SavedCall \/ SavedClose \/ SavedOpen
    \/ \E i \in SchedIds : SavedImpossible(i) \/ SavedStart(i)
    \/ \E r \in RunIds : SavedRun(r)

SwitchStep == CommitsOver \/ RestoreLoad

Next ==
    \/ UserStep
    \/ Scheduler
    \/ \E r \in RunIds : BeginCommit(r) \/ RunStep(r)
    \/ DiskStep
    \/ SwitchStep \/ InactiveLoad \/ InactiveWrite
    \/ TimerFires

Spec == Init /\ [][Next]_vars

\* Lookups, reads, writes, imports, LLM calls and the timer complete.
Fairness ==
    /\ WF_vars(DiskStep) /\ WF_vars(SwitchStep) /\ WF_vars(InactiveLoad)
    /\ WF_vars(InactiveWrite) /\ WF_vars(TimerFires)
    /\ \A i \in SchedIds : WF_vars(StartStale(i) \/ StartImpossible(i) \/ StartRun(i))
    /\ \A r \in RunIds : WF_vars(BeginCommit(r) \/ RunStep(r))

FairSpec == Spec /\ Fairness

-----------------------------------------------------------------------------
\* Every variable keeps its type; what is written to a file is a queue.
TypeOK ==
    /\ cur \in Projects \cup {NoProject}
    /\ queue \in Seq(Task)
    /\ restored \subseteq TaskIds
    /\ cancelling \subseteq TaskIds
    /\ active \in [TaskIds -> RunIds \cup {NoRun}]
    /\ paused \in BOOLEAN /\ scheduling \in BOOLEAN /\ drainDue \in BOOLEAN
    /\ limit \in Limits
    /\ timer \in Projects \cup {NoProject}
    /\ writes \in Seq([proj: Projects, tasks: Seq(Task), k: WriteKinds])
    /\ runs \in [RunIds -> Run]
    /\ scheds \in [SchedIds -> Sched]
    /\ closing \in [pc: {"idle", "commits", "save1", "save2"}, proj: Projects,
                    waiting: SUBSET RunIds]
    /\ opening \in [pc: {"idle", "load", "save"}, proj: Projects, waits: BOOLEAN]
    /\ inactive \in [pc: {"idle", "load", "write"}, proj: Projects, src: Sources,
                     tasks: Seq(Task)]
    /\ disk \in [Projects -> Seq(Task)]
    /\ calls \in 0..MaxCalls
    /\ settled \subseteq TaskIds /\ lost \subseteq Projects /\ overlapped \in BOOLEAN

Current == {r \in RunIds : Live(r) /\ ~ RunStale(r)}

\* The scheduler never runs more ingests than the worker limit allows, nor
\* one task twice at a time, though it suspends between its check of
\* activeRuns and the new entry there.
WorkerPool ==
    /\ Cardinality(Current) <= limit
    /\ \A r, x \in Current : runs[r].task = runs[x].task => r = x

\* A task shown as processing has a run that will end and decide about it.
ProcessingHasRun ==
    ~ Switching => \A id \in Having(queue, "processing") :
                      \E r \in Current : runs[r].task = id /\ active[id] = r

\* Cancelling a task discards the output of the run it was cancelled in, also
\* when the task is restarted before the run notices.
OldOutputDiscarded ==
    [][\A r \in RunIds :
          (runs[r].unwanted /\ runs[r].stage = "commit" /\ runs'[r].stage = "finish")
             => Ids(queue') = Ids(queue)]_vars

\* No wakeup is lost: when a worker is free and a task may run, something is
\* under way that will call processNext.
NoLostWakeup ==
    (/\ cur # NoProject /\ ~ paused /\ ~ Switching
     /\ writes = << >> /\ \A i \in SchedIds : scheds[i].pc = "none"
     /\ Cardinality({id \in TaskIds : active[id] # NoRun}) < limit)
       => \A i \in DOMAIN queue :
             queue[i].st = "pending" =>
                active[queue[i].id] # NoRun \/ queue[i].id \in restored

\* Tasks loaded from disk are not run before the user resumes the queue or a
\* live event asks for their source.
NoSurpriseRun ==
    [][\A id \in TaskIds :
          (active[id] = NoRun /\ active'[id] # NoRun) => id \notin restored]_vars

\* No ingest changes a project's wiki while the queue has another project or
\* none open: pauseQueue waits for the commits that are under way.
CommitsInOpenProject ==
    \A r \in RunIds : runs[r].stage = "commit" => cur = runs[r].proj

\* pauseQueue waits for the commits under way: the same, as long as no call
\* overlapped the closing of a project.
UndisturbedCommits == ~ overlapped => CommitsInOpenProject

\* Crashes, switches, lost saves and imports into a closed project remove no
\* task from a file, but for a write that is cut off and the first whole one
\* after it or after a load that failed; as long as no call overlapped a
\* closing.
UndisturbedFiles ==
    [][\A p \in Projects :
          \/ overlapped \/ p \in lost \cup lost'
          \/ Ids(disk[p]) \ settled' \subseteq Ids(disk'[p])]_vars

\* What pauseQueue writes at its end has every task, ready to be restarted,
\* also those of calls that overlapped it.
ClosedRestartable ==
    [][(cur # NoProject /\ cur' = NoProject /\ calls' = calls)
          => LET last == Head(writes).tasks IN
             /\ Ids(queue) \subseteq Ids(last)
             /\ Having(last, "processing") = {}]_vars

\* When the user leaves the queue alone, every task that may run is done,
\* failed or cancelled in the end, unless a pause comes in between.
EveryTaskSettles ==
    \A id \in TaskIds :
        (Status(queue, id) \in {"pending", "processing"} /\ id \notin restored /\ ~ paused)
            ~> (Status(queue, id) \notin {"pending", "processing"} \/ paused \/ Switching)

\* A pause for a usage limit ends, when the user does not pause: every limit
\* finds a timer or arms one, however many runs meet it.
LimitPauseEnds == paused ~> (~ paused \/ Switching \/ cur = NoProject)

\* A done ingest is followed by the review sweep once the queue is idle.
SweepFollows == drainDue ~> (~ drainDue \/ Having(queue, "pending") # {} \/ paused)
=============================================================================
