------------------------------- MODULE FileSync -------------------------------
(***************************************************************************)
(* The file watcher of the desktop app                                     *)
(* (src-tauri/src/commands/file_sync.rs) and what the front end            *)
(* (src/lib/project-file-sync.ts) is told by it.                           *)
(*                                                                         *)
(* Two files of a project, the snapshot and the change queue, are read and *)
(* written under one lock by several threads: the watcher thread, perhaps  *)
(* the one of an earlier session, and the commands of the user.  The files *)
(* of the project are read outside of the lock.  An action is a critical   *)
(* section, or a reading of files; the reading of the one file a task is   *)
(* about is part of the action that picks the task.                        *)
(*                                                                         *)
(* The content of a file is the number of the change that made it, so      *)
(* equal size and time of change mean the same number.  A file above       *)
(* MAX_HASH_BYTES has no hash: changes that keep its size look alike.      *)
(***************************************************************************)
EXTENDS Naturals, FiniteSets

CONSTANTS
    Paths, Root, NoPath,
    Large,          \* the files that are too large to be hashed
    Size,           \* of the contents of a large file
    AppPaths,       \* bound: the files the app itself writes
    Watchers,       \* bound: watcher threads, old ones included
    Commands,       \* bound: threads that run commands
    NoWatcher,
    MaxRetryCount,  \* MAX_RETRY_COUNT
    ChanSize,       \* size of the watcher's channel
    MaxChanges,     \* bound: changes of files
    MaxFaults,      \* bound: failed reads and writes
    MaxCalls,       \* bound: commands; there are no more stops and crashes
    Calls,          \* the commands the user gives, "stop" and "crash"
    Periodic        \* the platform has the periodic rescan

Threads == Watchers \cup Commands

ASSUME FileSyncAssumption ==
    /\ Paths # {} /\ Root \notin Paths /\ NoPath \notin Paths
    /\ NoWatcher \notin Watchers /\ Watchers \cap Commands = {}
    /\ MaxRetryCount \in Nat \ {0} /\ ChanSize \in Nat \ {0}
    /\ MaxChanges \in Nat /\ MaxFaults \in Nat /\ MaxCalls \in Nat
    /\ Periodic \in BOOLEAN

ASSUME SizeAssumption ==
    /\ Large \subseteq Paths /\ AppPaths \subseteq Paths
    /\ Size \in [0..MaxChanges -> Nat]

VARIABLES
    disk,       \* the content of each file
    snap,       \* the snapshot: the content that was processed last
    queue,      \* the change queue: at most one task of each path
    chan,       \* paths in the watcher's channel
    watcher,    \* the thread whose generation is the active one
    threads,    \* what each thread does
    ignored,    \* APP_WRITE_IGNORES that have not expired
    listens,    \* the front end listens for changes
    changes, faults, calls,     \* bookkeeping for the bounds
    knows,      \* bookkeeping: the content of the file when it was last told
    excused     \* bookkeeping: paths whose news were taken for the app's own,
                \* told to nobody, or no news for the snapshot: a file of the
                \* app that was deleted before the snapshot had it

files == <<snap, queue>>
counts == <<changes, faults, calls>>
news == <<knows, excused>>
vars == <<disk, files, chan, watcher, threads, ignored, listens, counts, news>>

-----------------------------------------------------------------------------
Gone == 0
Kinds == {"created", "modified", "deleted"}

Task == [st: {"none", "pending", "processing", "failed"}, kind: Kinds,
         tries: Nat, rerun: BOOLEAN]
NoTask == [st |-> "none", kind |-> "created", tries |-> 0, rerun |-> FALSE]

\* batch: the paths looked at; view: the snapshot they are compared with;
\* found: their changes; grip: whether the picked task still has the time
\* stamp of the pick, another one, or is gone; changed: what will be told.
Thread == [pc: {"idle", "own", "ownWrite", "look", "read", "upsert", "pick", "finish"},
           start: BOOLEAN, batch: SUBSET Paths, own: SUBSET Paths,
           view: [Paths -> Nat], found: SUBSET (Paths \X Kinds),
           task: Paths \cup {NoPath}, kind: Kinds, meta: Nat \cup {NoPath},
           grip: {"same", "touched", "gone"}, changed: SUBSET (Paths \X Kinds)]
Idle == [pc |-> "idle", start |-> FALSE, batch |-> {}, own |-> {},
         view |-> [p \in Paths |-> Gone], found |-> {}, task |-> NoPath,
         kind |-> "created", meta |-> Gone, grip |-> "same", changed |-> {}]

Unreadable == NoPath     \* the result of a read that failed

\* The thread looks for the next task; what it told of the last one is kept.
NextPass(th) ==
    [Idle EXCEPT !.pc = "pick", !.start = th.start, !.changed = th.changed]

Init ==
    /\ disk = [p \in Paths |-> Gone] /\ snap = [p \in Paths |-> Gone]
    /\ queue = [p \in Paths |-> NoTask]
    /\ chan = {} /\ watcher = NoWatcher
    /\ threads = [t \in Threads |-> Idle]
    /\ ignored = {} /\ listens = FALSE
    /\ changes = 0 /\ faults = 0 /\ calls = 0
    /\ knows = disk /\ excused = {}

Fault == faults < MaxFaults /\ faults' = faults + 1
NoFault == UNCHANGED faults

-----------------------------------------------------------------------------
(* The files and the operating system *)

\* The event of a change: lost when the channel is full; the root stands for
\* it after an error or an overflow.
Notify(p) ==
    IF watcher = NoWatcher \/ (Cardinality(chan) >= ChanSize /\ p \notin chan)
    THEN UNCHANGED chan
    ELSE chan' \in {chan \cup {p}, chan \cup {Root}}

Write(p) ==
    /\ changes < MaxChanges
    /\ changes' = changes + 1
    /\ disk' = [disk EXCEPT ![p] = changes']
    /\ Notify(p)
    /\ UNCHANGED <<files, watcher, threads, ignored, listens, faults, calls, news>>

Delete(p) ==
    /\ changes < MaxChanges
    /\ disk[p] # Gone
    /\ changes' = changes + 1
    /\ disk' = [disk EXCEPT ![p] = Gone]
    /\ excused' = excused \cup {q \in {p} : snap[p] = Gone /\ knows[p] # Gone}
    /\ Notify(p)
    /\ UNCHANGED <<files, watcher, threads, ignored, listens, faults, calls, knows>>

\* mark_app_write_path and the write or deletion that follows: the app knows
\* of it.
AppWrite(p) ==
    /\ p \in AppPaths
    /\ changes < MaxChanges
    /\ changes' = changes + 1
    /\ \E c \in {changes'} \cup ({Gone} \ {disk[p]}) :
          /\ disk' = [disk EXCEPT ![p] = c]
          /\ knows' = [knows EXCEPT ![p] = c]
    /\ ignored' = ignored \cup {p}
    /\ Notify(p)
    /\ UNCHANGED <<files, watcher, threads, listens, faults, calls, excused>>

\* Four seconds later.
IgnoreExpires(p) ==
    /\ p \in ignored
    /\ ignored' = ignored \ {p}
    /\ UNCHANGED <<disk, files, chan, watcher, threads, listens, counts, news>>

-----------------------------------------------------------------------------
(* What happens to a task *)

\* updated_at of the tasks in S changes: threads that have picked one of them
\* see it, unless it all happens within a millisecond.
Touched(S, ths) ==
    {[t \in Threads |->
        IF ths[t].task \in S /\ ths[t].grip = "same" THEN [ths[t] EXCEPT !.grip = g] ELSE ths[t]]
       : g \in {"same", "touched"}}

Removed(S, ths) ==
    [t \in Threads |-> IF ths[t].task \in S THEN [ths[t] EXCEPT !.grip = "gone"] ELSE ths[t]]

\* What enqueue_paths takes for no change: the hash, if there is one, and the
\* size are equal.
Alike(p, old, new) ==
    old = new \/ (p \in Large /\ Gone \notin {old, new} /\ Size[old] = Size[new])

KindOf(old, new) ==
    IF old = Gone THEN "created" ELSE IF new = Gone THEN "deleted" ELSE "modified"

MergeKind(old, new) ==
    IF {old, new} = {"created", "deleted"} THEN "modified" ELSE new

\* upsert_task: a task that failed too often stays; one in processing is
\* processed again afterwards.
Upserted(task, k) ==
    IF task.st = "none" THEN [NoTask EXCEPT !.st = "pending", !.kind = k]
    ELSE [task EXCEPT
            !.kind = MergeKind(@, k),
            !.st = IF @ = "failed" /\ task.tries < MaxRetryCount THEN "pending" ELSE @,
            !.rerun = @ \/ task.st = "processing"]

ResetNothing(task) == task   \* mutant: a restart leaves them in processing
Reset(task) ==
    IF task.st = "processing" THEN [task EXCEPT !.st = "pending", !.rerun = FALSE] ELSE task

Pending == {p \in Paths : queue[p].st = "pending"}
DiffersThere == {p \in Paths : disk[p] \notin {Gone, snap[p]}}   \* mutant: no deletions
Differs == {p \in Paths : disk[p] # snap[p]}

-----------------------------------------------------------------------------
(* The threads *)

At(t, pc) == threads[t].pc = pc
Goto(t, pc) == [threads EXCEPT ![t].pc = pc]
Stale(t) == t \in Watchers /\ t # watcher

\* A thread ends what it does; a start that failed leaves no watcher, and the
\* front end stops listening.
GivesUp(t) ==
    /\ threads' = [threads EXCEPT ![t] = Idle]
    /\ listens' = (listens /\ ~ threads[t].start)

\* handle_changed_paths: paths the app has written are the app's own, if they
\* are there or in the snapshot; the root stands for all files that are there.
Wake(w) ==
    /\ w = watcher /\ At(w, "idle") /\ chan # {}
    /\ LET there == {p \in Paths : disk[p] # Gone}
           batch == ((chan \cap Paths) \cup (IF Root \in chan THEN there ELSE {})) \ ignored
           own == {p \in chan \cap ignored : disk[p] # Gone \/ snap[p] # Gone}
       IN threads' = [threads EXCEPT ![w].batch = batch, ![w].own = own,
                        ![w].pc = IF own # {} THEN "own"
                                  ELSE IF batch # {} THEN "look" ELSE "idle"]
    /\ chan' = {}
    /\ UNCHANGED <<disk, files, watcher, ignored, listens, counts, news>>

\* sync_snapshot_paths, before and under the lock
ReadOwn(t) ==
    /\ At(t, "own")
    /\ threads' = [threads EXCEPT ![t].view = disk, ![t].pc = "ownWrite"]
    /\ UNCHANGED <<disk, files, chan, watcher, ignored, listens, counts, news>>

WriteOwn(t) ==
    /\ At(t, "ownWrite")
    /\ snap' = [p \in Paths |-> IF p \in threads[t].own THEN threads[t].view[p] ELSE snap[p]]
    /\ excused' = excused \cup {p \in threads[t].own : snap'[p] # knows[p]}
    /\ threads' = [threads EXCEPT
                     ![t] = IF @.batch = {} \/ Stale(t) THEN Idle
                            ELSE [Idle EXCEPT !.pc = "look", !.batch = threads[t].batch]]
    /\ UNCHANGED <<disk, queue, chan, watcher, ignored, listens, counts, knows>>

\* rescan_watch_roots: it compares size and time of change.  One that finds
\* nothing and has no task to process is left out.
PeriodicRescan(w) ==
    /\ Periodic
    /\ w = watcher /\ At(w, "idle")
    /\ Differs # {} \/ Pending # {}
    /\ threads' = [threads EXCEPT ![w].batch = Differs, ![w].pc = "look"]
    /\ UNCHANGED <<disk, files, chan, watcher, ignored, listens, counts, news>>

\* enqueue_paths: the snapshot under the lock, ...
Look(t) ==
    /\ At(t, "look")
    /\ threads' = [threads EXCEPT ![t].view = snap, ![t].pc = "read"]
    /\ UNCHANGED <<disk, files, chan, watcher, ignored, listens, counts, news>>

\* A batch ends with its first file, snapshot or queue that cannot be read or
\* written.
BatchFails(t) ==
    /\ threads[t].pc \in {"own", "ownWrite", "look", "read", "upsert"}
    /\ At(t, "read") => threads[t].batch # {}
    /\ Fault
    /\ GivesUp(t)
    /\ UNCHANGED <<disk, files, chan, watcher, ignored, changes, calls, news>>

\* ... the files without it, ...
Read(t) ==
    LET found == {<<p, KindOf(threads[t].view[p], disk[p])>> :
                    p \in {q \in threads[t].batch : ~ Alike(q, threads[t].view[q], disk[q])}}
    IN  /\ At(t, "read")
        /\ threads' = [threads EXCEPT
                         ![t] = [NextPass(@) EXCEPT
                                   !.found = found,
                                   !.pc = IF found # {} THEN "upsert"
                                          ELSE IF Stale(t) THEN "idle" ELSE "pick"]]
        /\ UNCHANGED <<disk, files, chan, watcher, ignored, listens, counts, news>>

\* ... and the queue under the lock.
Upsert(t) ==
    LET found == threads[t].found
        S == {f[1] : f \in found}
        Of(p) == (CHOOSE f \in found : f[1] = p)[2]
    IN  /\ At(t, "upsert")
        /\ queue' = [p \in Paths |-> IF p \in S THEN Upserted(queue[p], Of(p)) ELSE queue[p]]
        /\ threads' \in Touched(S, [threads EXCEPT ![t].found = {},
                                     ![t].pc = IF Stale(t) THEN "idle" ELSE "pick"])
        /\ UNCHANGED <<disk, snap, chan, watcher, ignored, listens, counts, news>>

Picked(th, p, m) ==
    [th EXCEPT !.pc = "finish", !.task = p, !.kind = queue[p].kind, !.meta = m, !.grip = "same"]

\* process_queue_inner: a pending task (the order of the tasks is left out)
\* is taken up and its file is read.
Pick(t) ==
    /\ At(t, "pick")
    /\ \E p \in Pending :
         /\ queue' = [queue EXCEPT ![p].st = "processing"]
         /\ \E m \in {disk[p], Unreadable} :
               /\ IF m = Unreadable THEN Fault ELSE NoFault
               /\ \E ths \in Touched({p}, threads) :
                     threads' = [ths EXCEPT ![t] = Picked(@, p, m)]
    /\ UNCHANGED <<disk, snap, chan, watcher, ignored, listens, changes, calls, news>>

Holds(t) == threads[t].grip = "same" /\ queue[threads[t].task].st = "processing"

\* The task is gone, or someone else has changed it: another pass if there
\* was a change meanwhile.
FinishOther(t) ==
    LET p == threads[t].task IN
    /\ At(t, "finish")
    /\ ~ Holds(t)
    /\ IF threads[t].grip # "gone" /\ queue[p].st = "processing" /\ queue[p].rerun
       THEN /\ queue' = [queue EXCEPT ![p].st = "pending", ![p].rerun = FALSE]
            /\ threads' \in Touched({p}, [threads EXCEPT ![t] = NextPass(@)])
       ELSE /\ UNCHANGED queue
            /\ threads' = [threads EXCEPT ![t] = NextPass(@)]
    /\ UNCHANGED <<disk, snap, chan, watcher, ignored, listens, counts, news>>

DoneStays(task) == [task EXCEPT !.st = "done"]   \* mutant: done tasks are kept
Done(task) ==
    IF task.rerun THEN [task EXCEPT !.st = "pending", !.rerun = FALSE] ELSE NoTask

Ended(th) == [NextPass(th) EXCEPT !.changed = @ \cup {<<th.task, th.kind>>}]

\* write_task_meta_to_snapshot: the snapshot gets the content read, before the
\* queue is written.
CanApply(t) == At(t, "finish") /\ Holds(t) /\ threads[t].meta # Unreadable
Applied(t) == [snap EXCEPT ![threads[t].task] = threads[t].meta]

\* Both are written; the front end will be told.
Finish(t) ==
    LET p == threads[t].task
        ok == threads[t].meta # Unreadable
        task == IF ok THEN Done(queue[p])
                ELSE [queue[p] EXCEPT !.st = "failed", !.tries = @ + 1]
        ths == [threads EXCEPT ![t] = Ended(@)]
    IN  /\ At(t, "finish")
        /\ Holds(t)
        /\ snap' = IF ok THEN Applied(t) ELSE snap
        /\ queue' = [queue EXCEPT ![p] = task]
        /\ IF task = NoTask THEN threads' = Removed({p}, ths) ELSE threads' \in Touched({p}, ths)
        /\ UNCHANGED <<disk, chan, watcher, ignored, listens, counts, news>>

\* on_changed: the front end reads the files it is told of.
Tell(changed) ==
    LET S == {c[1] : c \in changed} IN
    IF listens
    THEN /\ knows' = [p \in Paths |-> IF p \in S THEN disk[p] ELSE knows[p]]
         /\ excused' = excused \ S
    ELSE excused' = excused \cup S /\ UNCHANGED knows

TellLater(changed) == UNCHANGED news   \* mutant: not before an error is returned
TellFirst(changed) == Tell(changed)

\* The queue or the snapshot cannot be read or written: the thread tells what
\* it has and gives up, and the task it had stays in processing.
PassFails(t) ==
    LET p == threads[t].task IN
    /\ threads[t].pc \in {"pick", "finish"}
    /\ Fault
    /\ \/ TellFirst(threads[t].changed) /\ UNCHANGED snap
       \/ /\ CanApply(t) /\ snap' = Applied(t)
          /\ TellFirst(threads[t].changed \cup {<<p, threads[t].kind>>})
    /\ GivesUp(t)
    /\ UNCHANGED <<disk, queue, chan, watcher, ignored, changes, calls>>

\* No pending task is left.  A start then installs the watcher and its thread.
Ends(t) ==
    /\ At(t, "pick") /\ Pending = {}
    /\ Tell(threads[t].changed)
    /\ IF threads[t].start
       THEN \E w \in Watchers : At(w, "idle") /\ watcher' = w
       ELSE UNCHANGED watcher
    /\ threads' = [threads EXCEPT ![t] = Idle]
    /\ UNCHANGED <<disk, files, chan, ignored, listens, counts>>

-----------------------------------------------------------------------------
(* The commands *)

Call(op) ==
    /\ op \in Calls
    /\ calls < MaxCalls
    /\ calls' = calls + 1

Free(c) == c \in Commands /\ At(c, "idle")

\* start_project_file_watcher, after the front end has stopped the last one
Start(c) ==
    /\ Call("start")
    /\ Free(c) /\ watcher = NoWatcher
    /\ \A t \in Threads : ~ threads[t].start
    /\ listens' = TRUE
    /\ queue' = [p \in Paths |-> Reset(queue[p])]
    /\ threads' \in Touched({p \in Paths : queue[p].st = "processing"},
                      [threads EXCEPT ![c].start = TRUE, ![c].batch = Differs,
                                      ![c].pc = "look"])
    /\ UNCHANGED <<disk, snap, chan, watcher, ignored, changes, faults, news>>

\* stopProjectFileSync: the thread ends when it is idle again.
Stop ==
    /\ "stop" \in Calls
    /\ watcher # NoWatcher
    /\ watcher' = NoWatcher
    /\ chan' = {}
    /\ listens' = FALSE
    /\ UNCHANGED <<disk, files, threads, ignored, counts, news>>

\* rescan_project_files looks at every file that is there or was.
Rescan(c) ==
    /\ Call("rescan")
    /\ Free(c)
    /\ threads' = [threads EXCEPT ![c].pc = "look",
                     ![c].batch = {p \in Paths : disk[p] # Gone \/ snap[p] # Gone}]
    /\ UNCHANGED <<disk, files, chan, watcher, ignored, listens, changes, faults, news>>

RetryTask(c, p) ==
    /\ Call("retry")
    /\ Free(c)
    /\ queue[p].st # "none"
    /\ queue' = [queue EXCEPT ![p].st = "pending", ![p].tries = 0, ![p].rerun = FALSE]
    /\ threads' \in Touched({p}, Goto(c, "pick"))
    /\ UNCHANGED <<disk, snap, chan, watcher, ignored, listens, changes, faults, news>>

\* ignore_file_change_task forgets the task; the snapshot stays as it is.
IgnoreTask(p) ==
    /\ Call("ignore")
    /\ queue[p].st # "none"
    /\ queue' = [queue EXCEPT ![p] = NoTask]
    /\ threads' = Removed({p}, threads)
    /\ UNCHANGED <<disk, snap, chan, watcher, ignored, listens, changes, faults, news>>

Untold == UNION {{c[1] : c \in threads[t].changed} : t \in Threads}

\* What was processed and not yet told is never told; the end may come between
\* the writes of the snapshot and of the queue.
Crash ==
    /\ "crash" \in Calls
    /\ watcher # NoWatcher \/ \E t \in Threads : ~ At(t, "idle")
    /\ \/ UNCHANGED snap /\ excused' = excused \cup Untold
       \/ \E t \in Threads :
             /\ CanApply(t) /\ snap' = Applied(t)
             /\ excused' = excused \cup Untold \cup {threads[t].task}
    /\ threads' = [t \in Threads |-> Idle]
    /\ chan' = {} /\ watcher' = NoWatcher /\ ignored' = {} /\ listens' = FALSE
    /\ UNCHANGED <<disk, queue, counts, knows>>

-----------------------------------------------------------------------------
FileStep == \E p \in Paths : Write(p) \/ Delete(p) \/ AppWrite(p) \/ IgnoreExpires(p)

CommandStep ==
    \/ \E c \in Commands : Start(c) \/ Rescan(c) \/ \E p \in Paths : RetryTask(c, p)
    \/ \E p \in Paths : IgnoreTask(p)
    \/ Stop
    \/ Crash

Working(t) ==
    \/ ReadOwn(t) \/ WriteOwn(t) \/ Look(t) \/ BatchFails(t) \/ Read(t) \/ Upsert(t)
    \/ Pick(t) \/ FinishOther(t) \/ Finish(t) \/ PassFails(t) \/ Ends(t)

ThreadStep(t) == Working(t) \/ Wake(t) \/ PeriodicRescan(t)

Next == FileStep \/ CommandStep \/ \E t \in Threads : ThreadStep(t)

Spec == Init /\ [][Next]_vars

\* Threads are scheduled and their timeouts come; the ten seconds between two
\* rescans are longer than a pass, so rescans do not overtake it for ever.
FairSpec ==
    /\ Spec
    /\ \A t \in Threads : WF_vars(ThreadStep(t)) /\ SF_vars(Finish(t))

-----------------------------------------------------------------------------
\* Every variable keeps its type; a path has at most one task.
TypeOK ==
    /\ disk \in [Paths -> 0..MaxChanges] /\ snap \in [Paths -> 0..MaxChanges]
    /\ queue \in [Paths -> Task]
    /\ chan \subseteq Paths \cup {Root}
    /\ watcher \in Watchers \cup {NoWatcher}
    /\ threads \in [Threads -> Thread]
    /\ ignored \subseteq Paths /\ excused \subseteq Paths
    /\ listens \in BOOLEAN
    /\ changes \in 0..MaxChanges /\ faults \in 0..MaxFaults /\ calls \in 0..MaxCalls
    /\ knows \in [Paths -> 0..MaxChanges]

\* No change is swallowed: once the snapshot has the content of a file, the
\* front end has been told of it, or is about to be, whichever threads and
\* passes were involved.
EveryChangeTold ==
    \A p \in Paths : snap[p] = disk[p] => knows[p] = disk[p] \/ p \in Untold \cup excused

Orphan(p) == queue[p].st = "processing" /\ \A t \in Threads : threads[t].task # p

\* A task in processing has a thread that will end it, also after restarts of
\* the watcher and changes of the task under the thread's hands; only a failed
\* write leaves one behind.
NoOrphan == watcher # NoWatcher /\ faults = 0 => \A p \in Paths : ~ Orphan(p)

\* With the periodic rescan every change that hash and size can tell comes to
\* the snapshot in the end, though events are lost and reads fail: unless its
\* retries are used up, the watcher is stopped, or a failed write has left its
\* task behind.
EveryChangeSeen ==
    []<>(watcher = NoWatcher \/ \A p \in Paths :
            Alike(p, snap[p], disk[p]) \/ queue[p].st = "failed" \/ Orphan(p))
=============================================================================
