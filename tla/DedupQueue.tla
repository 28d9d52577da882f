------------------------------ MODULE DedupQueue ------------------------------
(***************************************************************************)
(* The queue of page merges of the desktop app (src/lib/dedup-queue.ts)    *)
(* and the merge it runs (executeMerge of src/lib/dedup-runner.ts).        *)
(*                                                                         *)
(* It looks like the ingest queue but has one flag, `processing`, in place *)
(* of runs with identities, and no chain of saves.  An action is a piece   *)
(* of code between two awaits.  A call of processNext that has found a     *)
(* task lives on in `procs` until it returns; the one it makes at its end  *)
(* is part of the action that ends it (Kick).                              *)
(*                                                                         *)
(* A task stands for the group of pages it merges; the wiki of a project   *)
(* is the set of merges whose rewrites it has.                             *)
(***************************************************************************)
EXTENDS Naturals, Sequences, FiniteSets, SequencesExt, TaskQueues

CONSTANTS
    Projects, NoProject,
    TaskIds,        \* bound: tasks that are ever queued
    ProcIds,        \* bound: suspended processNext calls, numbers from 1
    Tracked,        \* bound: the tasks whose rewrites are followed
    MaxRetries,     \* MAX_RETRIES
    MaxCalls,       \* bound: calls from the user interface
    Calls,          \* the calls the environment makes
    Faults,         \* what may go wrong: see the uses
    Ordered,        \* writes of the queue file end in the order of the calls;
                    \* the code starts a thread for each and orders nothing
    Overlap         \* what comes while a task is being looked up or saved:
                    \* "calls" of the user, "switch" to another project

ASSUME DedupAssumption ==
    /\ NoProject \notin Projects /\ Projects # {}
    /\ TaskIds # {} /\ Tracked \subseteq TaskIds
    /\ ProcIds \subseteq Nat \ {0}
    /\ MaxRetries \in Nat \ {0} /\ MaxCalls \in Nat
    /\ Ordered \in BOOLEAN /\ Overlap \subseteq {"calls", "switch"}

VARIABLES
    cur,            \* currentProjectId
    queue,          \* queue
    processing,     \* processing
    restored,       \* restoredPausedTaskIds
    controller,     \* currentAbortController: the call it was made for
    procs,          \* processNext calls past their first await
    saves,          \* writeFile calls of saveQueue under way
    closing,        \* pauseQueue is waiting for its save
    opening,        \* restoreQueue: the project whose file is being read
    disk,           \* .llm-wiki/dedup-queue.json of each project: what
                    \* loadQueue makes of it, no tasks when it is cut off
    wiki,           \* the merges each project's pages contain
    lost,           \* bookkeeping: projects whose file was cut off, overtaken
                    \* by a later save, or not read by the last loadQueue: the
                    \* next write drops what it had
    calls,          \* bookkeeping: calls made so far
    merged,         \* bookkeeping: tasks whose merge was made
    cancelled,      \* bookkeeping: tasks the user cancelled
    unusable        \* bookkeeping: a task was refused for want of an LLM

vars == <<cur, queue, processing, restored, controller, procs, saves, closing,
          opening, disk, lost, wiki, calls, merged, cancelled, unusable>>

-----------------------------------------------------------------------------
Task == [id: TaskIds, st: {"pending", "processing", "failed"}, tries: Nat]

\* own: the task object the call remembers is the one in the queue.
Proc == [pc: {"none", "registry", "failed", "start", "llm", "write", "end"},
         task: TaskIds, own: BOOLEAN, proj: Projects, aborted: BOOLEAN,
         view: SUBSET TaskIds]

NoProc == 0
AnyProject == CHOOSE p \in Projects : TRUE
FreeProc == [pc |-> "none", task |-> CHOOSE t \in TaskIds : TRUE, own |-> FALSE,
             proj |-> AnyProject, aborted |-> FALSE, view |-> {}]

Fresh(q, S) == Revise(q, S, LAMBDA t : [t EXCEPT !.st = "pending", !.tries = 0])

Idle == closing = NoProject /\ opening = NoProject

Init ==
    /\ cur = NoProject /\ queue = << >> /\ processing = FALSE
    /\ restored = {} /\ controller = NoProc
    /\ procs = [i \in ProcIds |-> FreeProc]
    /\ saves = << >>
    /\ closing = NoProject /\ opening = NoProject
    /\ disk = [p \in Projects |-> << >>]
    /\ wiki = [p \in Projects |-> {}]
    /\ calls = 0 /\ merged = {} /\ cancelled = {} /\ unusable = FALSE
    /\ lost = {}

-----------------------------------------------------------------------------
(* saveQueue and processNext *)

\* saveQueue: a snapshot of the queue is handed to a thread that writes it;
\* k says who waits for it.
SaveKinds == {<<"call">>, <<"close">>, <<"open">>, <<"end">>}
               \cup {<<"proc", i>> : i \in ProcIds}
SnapshotPending(q) == SelectSeq(q, LAMBDA t : t.st # "failed")   \* mutant
Snapshot(q) == q
Save(waiting, p, k) ==
    saves' = Append(waiting, [proj |-> p, tasks |-> Snapshot(queue'), k |-> k])

\* processNext up to its first await: the head of the tasks that may run is
\* looked up, unless a task is being processed.
RunnableAtOnce(q, R) == {i \in DOMAIN q : q[i].st = "pending"}   \* mutant
Runnable(q, R) == {i \in DOMAIN q : q[i].st = "pending" /\ q[i].id \notin R}

Kick(p, ps) ==
    IF processing' \/ cur' # p \/ Runnable(queue', restored') = {}
    THEN procs' = ps
    ELSE LET first == CHOOSE i \in Runnable(queue', restored') :
                         \A j \in Runnable(queue', restored') : i <= j
         IN \E i \in ProcIds :
               /\ ps[i].pc = "none"
               /\ \A j \in ProcIds : j < i => ps[j].pc # "none"
               /\ procs' = [ps EXCEPT ![i] = [FreeProc EXCEPT
                    !.pc = "registry", !.task = queue'[first].id, !.own = TRUE,
                    !.proj = p]]

-----------------------------------------------------------------------------
(* The environment's calls *)

Suspended == saves # << >> \/ \E i \in ProcIds :
                 procs[i].pc \in {"registry", "failed", "start", "end"}

\* Bound: every call of processNext that may come has a place in procs.
Room == Cardinality({i \in ProcIds : procs[i].pc # "none"})
          + Cardinality({j \in DOMAIN saves : saves[j].k = <<"call">>}) < Cardinality(ProcIds)

Call(op) ==
    /\ op \in Calls
    /\ calls < MaxCalls
    /\ calls' = calls + 1
    /\ Idle
    /\ Room
    /\ Suspended => (IF op = "switch" THEN "switch" ELSE "calls") \in Overlap

\* generateId: an id nothing refers to.
UsedIds ==
    UNION {merged, cancelled, Ids(queue),
           UNION {Ids(disk[p]) : p \in Projects},
           UNION {Ids(saves[j].tasks) : j \in DOMAIN saves},
           {procs[i].task : i \in {x \in ProcIds : procs[x].pc # "none"}}}

\* The same group again promotes its task, and revives a failed one.
EnqueueMerge(id) ==
    /\ Call("enqueue")
    /\ cur # NoProject
    /\ id \in Ids(queue) \/ id \notin UsedIds
    /\ restored' = restored \ {id}
    /\ queue' = IF id \notin Ids(queue)
                THEN Append(queue, [id |-> id, st |-> "pending", tries |-> 0])
                ELSE Fresh(queue, {id} \cap Having(queue, "failed"))
    /\ Save(saves, cur, <<"call">>)
    /\ UNCHANGED <<cur, processing, controller, procs, closing, opening, disk, lost, wiki,
                   merged, cancelled, unusable>>

RetryTask(id) ==
    /\ Call("retry")
    /\ id \in Ids(queue)
    /\ restored' = restored \ {id}
    /\ queue' = Fresh(queue, {id})
    /\ Save(saves, cur, <<"call">>)
    /\ UNCHANGED <<cur, processing, controller, procs, closing, opening, disk, lost, wiki,
                   merged, cancelled, unusable>>

ResumeProcessing ==
    /\ Call("resume")
    /\ cur # NoProject
    /\ restored' = {}
    /\ UNCHANGED <<cur, queue, processing, controller, saves, closing, opening, disk, lost,
                   wiki, merged, cancelled, unusable>>
    /\ Kick(cur, procs)

\* abort() of the current controller.
AbortCurrent(ps) ==
    IF controller \in ProcIds THEN [ps EXCEPT ![controller].aborted = TRUE] ELSE ps

CancelTask(id) ==
    /\ Call("cancel")
    /\ id \in Ids(queue)
    /\ IF Status(queue, id) = "processing"
       THEN /\ procs' = AbortCurrent(procs)
            /\ controller' = NoProc
            /\ processing' = FALSE
       ELSE UNCHANGED <<procs, controller, processing>>
    /\ restored' = restored \ {id}
    /\ queue' = Without(queue, {id})
    /\ cancelled' = cancelled \cup {id}
    /\ Save(saves, cur, <<"call">>)
    /\ UNCHANGED <<cur, closing, opening, disk, lost, wiki, merged, unusable>>

-----------------------------------------------------------------------------
(* Project switch and crash *)

PauseQueue ==
    /\ Call("switch")
    /\ cur # NoProject
    /\ procs' = AbortCurrent(procs)
    /\ controller' = NoProc
    /\ processing' = FALSE
    /\ queue' = Interrupted(queue)
    /\ closing' = cur
    /\ Save(saves, cur, <<"close">>)
    /\ UNCHANGED <<cur, restored, opening, disk, lost, wiki, merged, cancelled, unusable>>

\* A project that is opened again may still have calls of its last session.
RestoreQueue(p) ==
    /\ Call("switch")
    /\ cur = NoProject
    /\ (\E i \in ProcIds : procs[i].pc # "none" /\ procs[i].proj = p)
          => "switch" \in Overlap
    /\ queue' = << >> /\ restored' = {} /\ processing' = FALSE
    /\ controller' = NoProc
    /\ cur' = p
    /\ opening' = p
    /\ UNCHANGED <<procs, saves, closing, disk, lost, wiki, merged, cancelled, unusable>>

\* The files.  write_file is fs::write, which empties the file first.
BeingWritten == {saves[j].proj : j \in DOMAIN saves}

Cut(S) ==
    /\ disk' = [p \in Projects |-> IF p \in S THEN << >> ELSE disk[p]]
    /\ lost' = lost \cup S

\* loadQueue: a read that fails, or comes in the middle of a write, gives [].
Loadable(p) ==
    {disk[p]} \cup (IF "read" \in Faults \/ p \in BeingWritten THEN {<< >>} ELSE {})

LoadFile(p, tasks) ==
    /\ tasks \in Loadable(p)
    /\ lost' = IF tasks = disk[p] THEN lost \ {p} ELSE lost \cup {p}

\* Pending tasks are shown but wait for the user.
Restored(saved) ==
    IF saved = << >>
    THEN UNCHANGED <<queue, restored, procs, saves>>
    ELSE /\ queue' = Interrupted(saved)
         /\ restored' = Having(queue', "pending")
         /\ procs' = [i \in ProcIds |-> [procs[i] EXCEPT !.own = FALSE]]
         /\ Save(saves, opening, <<"open">>)

RestoreLoad ==
    /\ opening # NoProject
    /\ opening' = NoProject
    /\ \E saved \in Loadable(opening) : LoadFile(opening, saved) /\ Restored(saved)
    /\ UNCHANGED <<cur, processing, controller, closing, disk, wiki, calls, merged, cancelled,
                   unusable>>

\* The application ends, by itself or as the user closes it, whatever is being
\* written; a file that is may be cut off.
Crash ==
    /\ "crash" \in Calls
    /\ calls < MaxCalls
    /\ calls' = calls + 1
    /\ cur' = NoProject /\ queue' = << >> /\ processing' = FALSE
    /\ restored' = {} /\ controller' = NoProc
    /\ procs' = [i \in ProcIds |-> FreeProc]
    /\ saves' = << >>
    /\ closing' = NoProject /\ opening' = NoProject
    /\ \E S \in SUBSET BeingWritten : Cut(S)
    /\ UNCHANGED <<wiki, merged, cancelled, unusable>>

-----------------------------------------------------------------------------
(* processNext after its first await *)

Freed(i) == [procs EXCEPT ![i] = FreeProc]
Goto(i, pc) == procs' = [procs EXCEPT ![i].pc = pc]
Its(i) == IF procs[i].own THEN {procs[i].task} ELSE {}
Gone(i) == cur # procs[i].proj

\* getProjectPathById has answered: the task object found before it is used.
LookedUp(i) ==
    /\ procs[i].pc = "registry"
    /\ \/ /\ Gone(i)
          /\ procs' = Freed(i)
          /\ UNCHANGED <<queue, processing, saves>>
       \/ /\ ~ Gone(i)
          /\ "registry" \in Faults
          /\ queue' = WithStatus(queue, Its(i), "failed")
          /\ Goto(i, "failed")
          /\ Save(saves, cur, <<"proc", i>>)
          /\ UNCHANGED processing
       \/ /\ ~ Gone(i)
          /\ processing' = TRUE
          /\ queue' = WithStatus(queue, Its(i), "processing")
          /\ Goto(i, "start")
          /\ Save(saves, procs[i].proj, <<"proc", i>>)
    /\ UNCHANGED <<cur, restored, controller, closing, opening, disk, lost, wiki, calls,
                   merged, cancelled, unusable>>

\* executeMerge read all pages before it asked the LLM; an abort ends the
\* request, but is not looked at once the pages are written.
Answered(i) ==
    /\ procs[i].pc = "llm"
    /\ ~ procs[i].aborted
    /\ Goto(i, "write")
    /\ UNCHANGED <<cur, queue, processing, restored, controller, saves, closing,
                   opening, disk, lost, wiki, calls, merged, cancelled, unusable>>

\* The pages are written as they were read, with the rewrites of this merge;
\* some of them when it fails on the way.
Rewritten(i) == [wiki EXCEPT ![procs[i].proj] = procs[i].view \cup ({procs[i].task} \cap Tracked)]

Merged(i) ==
    /\ procs[i].pc = "write"
    /\ wiki' = Rewritten(i)
    /\ IF Gone(i)
       THEN /\ procs' = Freed(i)
            /\ UNCHANGED <<queue, restored, controller, saves, merged>>
       ELSE /\ controller' = NoProc
            /\ restored' = restored \ {procs[i].task}
            /\ queue' = Without(queue, {procs[i].task})
            /\ merged' = merged \cup {procs[i].task}
            /\ Goto(i, "end")
            /\ Save(saves, procs[i].proj, <<"proc", i>>)
    /\ UNCHANGED <<cur, processing, closing, opening, disk, lost, calls, cancelled,
                   unusable>>

\* A page is missing, the LLM fails or is aborted, a write fails.
Tried(t) == [t EXCEPT !.tries = @ + 1,
                      !.st = IF t.tries + 1 >= MaxRetries THEN "failed" ELSE "pending"]

MergeFails(i) ==
    /\ \/ procs[i].pc = "llm" /\ (procs[i].aborted \/ "error" \in Faults)
          /\ UNCHANGED wiki
       \/ procs[i].pc = "write" /\ "error" \in Faults
          /\ wiki' \in {wiki, Rewritten(i)}
    /\ IF Gone(i)
       THEN /\ procs' = Freed(i)
            /\ UNCHANGED <<queue, controller, saves>>
       ELSE /\ controller' = NoProc
            /\ queue' = Revise(queue, Its(i), Tried)
            /\ Goto(i, "end")
            /\ Save(saves, procs[i].proj, <<"proc", i>>)
    /\ UNCHANGED <<cur, processing, restored, closing, opening, disk, lost, calls, merged, cancelled,
                   unusable>>

-----------------------------------------------------------------------------
(* What follows a save; it goes on also when the write failed. *)

\* An older save of the same file is still under way.
Overtakes(j) == \E k \in DOMAIN saves : k < j /\ saves[k].proj = saves[j].proj

\* A write that fails leaves the old content, or a part of the new one; two
\* that are under way at a time may mix.
WriteFile(j) ==
    LET p == saves[j].proj IN
    \/ /\ disk' = [disk EXCEPT ![p] = saves[j].tasks]
       /\ lost' = IF Overtakes(j) THEN lost \cup {p} ELSE lost \ {p}
    \/ "write" \in Faults /\ UNCHANGED <<disk, lost>>
    \/ ("write" \in Faults \/ ~ Ordered) /\ Cut({p})

Written(j) ==
    /\ j \in DOMAIN saves
    /\ Ordered => j = 1
    /\ WriteFile(j)

Rest(j) == RemoveAt(saves, j)

\* enqueueMerge, retryTask and cancelTask call processNext for the project
\* that is open by then.
SavedCall(j) ==
    /\ Written(j)
    /\ saves[j].k = <<"call">>
    /\ saves' = Rest(j)
    /\ UNCHANGED <<cur, queue, processing, restored, controller, closing, opening, wiki,
                   calls, merged, cancelled, unusable>>
    /\ Kick(cur, procs)

SavedClose(j) ==
    /\ Written(j)
    /\ saves[j].k = <<"close">>
    /\ saves' = Rest(j)
    /\ queue' = << >> /\ restored' = {} /\ cur' = NoProject
    /\ closing' = NoProject
    /\ UNCHANGED <<processing, controller, procs, opening, wiki, calls, merged, cancelled,
                   unusable>>

SavedOpen(j) ==
    /\ Written(j)
    /\ saves[j].k = <<"open">>
    /\ saves' = Rest(j)
    /\ UNCHANGED <<cur, queue, processing, restored, controller, procs, closing, opening,
                   wiki, calls, merged, cancelled, unusable>>

\* A started task is saved: the merge begins, unless its project is closed
\* or no LLM is configured, and then the queue stops without another call.
SavedStart(i, j) ==
    /\ procs[i].pc = "start"
    /\ Written(j)
    /\ saves[j].k = <<"proc", i>>
    /\ \/ /\ Gone(i)
          /\ procs' = Freed(i)
          /\ saves' = Rest(j)
          /\ UNCHANGED <<queue, processing, controller, unusable>>
       \/ /\ ~ Gone(i)
          /\ "nollm" \in Faults
          /\ queue' = WithStatus(queue, Its(i), "failed")
          /\ processing' = FALSE
          /\ unusable' = TRUE
          /\ procs' = Freed(i)
          /\ Save(Rest(j), procs[i].proj, <<"end">>)
          /\ UNCHANGED controller
       \/ /\ ~ Gone(i)
          /\ controller' = i
          /\ procs' = [procs EXCEPT ![i].pc = "llm",
                                    ![i].view = wiki[procs[i].proj]]
          /\ saves' = Rest(j)
          /\ UNCHANGED <<queue, processing, unusable>>
    /\ UNCHANGED <<cur, restored, closing, opening, wiki, calls, merged, cancelled>>

SavedUnusable(j) ==
    /\ Written(j)
    /\ saves[j].k = <<"end">>
    /\ saves' = Rest(j)
    /\ UNCHANGED <<cur, queue, processing, restored, controller, procs, closing, opening,
                   wiki, calls, merged, cancelled, unusable>>

EndOnly(i) == procs' = Freed(i)   \* mutant: it does not look for the next task
GoOn(i) == Kick(procs[i].proj, Freed(i))

\* The end of processNext: the next task.
SavedEnd(i, j) ==
    /\ procs[i].pc \in {"end", "failed"}
    /\ Written(j)
    /\ saves[j].k = <<"proc", i>>
    /\ saves' = Rest(j)
    /\ processing' = IF procs[i].pc = "end" THEN FALSE ELSE processing
    /\ UNCHANGED <<cur, queue, restored, controller, closing, opening, wiki, calls,
                   merged, cancelled, unusable>>
    /\ GoOn(i)

-----------------------------------------------------------------------------
UserStep ==
    \/ \E id \in TaskIds : EnqueueMerge(id) \/ RetryTask(id) \/ CancelTask(id)
    \/ ResumeProcessing
    \/ PauseQueue
    \/ \E p \in Projects : RestoreQueue(p)
    \/ Crash

DiskStep ==
    \E j \in DOMAIN saves :
        \/ SavedCall(j) \/ SavedClose(j) \/ SavedOpen(j) \/ SavedUnusable(j)
        \/ \E i \in ProcIds : SavedStart(i, j) \/ SavedEnd(i, j)

ProcStep(i) == LookedUp(i) \/ Answered(i) \/ Merged(i) \/ MergeFails(i)

Next ==
    \/ UserStep
    \/ RestoreLoad
    \/ DiskStep
    \/ \E i \in ProcIds : ProcStep(i)

Spec == Init /\ [][Next]_vars

\* Reads, writes, lookups and LLM calls come back.
FairSpec ==
    /\ Spec
    /\ WF_vars(RestoreLoad) /\ WF_vars(DiskStep)
    /\ \A i \in ProcIds : WF_vars(ProcStep(i))

-----------------------------------------------------------------------------
\* Every variable keeps its type; what is written to a file is a queue.
TypeOK ==
    /\ cur \in Projects \cup {NoProject}
    /\ queue \in Seq(Task)
    /\ processing \in BOOLEAN /\ unusable \in BOOLEAN
    /\ restored \subseteq TaskIds /\ merged \subseteq TaskIds /\ cancelled \subseteq TaskIds
    /\ controller \in ProcIds \cup {NoProc}
    /\ procs \in [ProcIds -> Proc]
    /\ saves \in Seq([proj: Projects, tasks: Seq(Task), k: SaveKinds])
    /\ closing \in Projects \cup {NoProject} /\ opening \in Projects \cup {NoProject}
    /\ disk \in [Projects -> Seq(Task)]
    /\ wiki \in [Projects -> SUBSET TaskIds]
    /\ lost \subseteq Projects
    /\ calls \in 0..MaxCalls

\* The queue makes merges one at a time: none overwrites what another one
\* has written (dedup-queue.ts, lines 4 to 7).
NoRewriteLost == [][\A p \in Projects : wiki[p] \ cancelled \subseteq wiki'[p]]_vars

\* Whatever mixture of flags and overlapping calls of processNext there is,
\* someone goes on: a merge the user wants is made, fails or is cancelled.
EveryMergeSettles ==
    \A id \in TaskIds :
        (Status(queue, id) \in {"pending", "processing"} /\ id \notin restored)
            ~> (\/ Status(queue, id) \in {"failed", "absent"}
                \/ unusable \/ closing # NoProject)

\* Merges found in the file of a project wait for the user.
NoSurpriseMerge ==
    [][\A i \in ProcIds :
          (procs[i].pc = "registry" /\ procs'[i].pc = "start" /\ procs[i].own)
              => procs[i].task \notin restored]_vars

\* A merge leaves the file of its project only when it has been made or
\* cancelled; but for a write that is cut off, and the first whole one after
\* it, after a save that was overtaken or after a load that failed.
DiskKeepsMerges ==
    [][\A p \in Projects :
          \/ p \in lost \cup lost'
          \/ Ids(disk[p]) \ (merged' \cup cancelled') \subseteq Ids(disk'[p])]_vars
=============================================================================
