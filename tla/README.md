# Verification of LLM Wiki's ingestion

TLA+ specifications of the parts of LLM Wiki that decide *when* and *in which
order* documents become wiki pages and project files are written: the desktop app's ingest queue and
the commit pipeline its runs share, its queue of page merges, its file watcher,
the opening and leaving of projects against the debounced saves, and the server's ingest jobs. TLC
checks the modules on small instances; TLAPS proves their safety for instances of any size: each
invariant and each action property that a passing run checks is stated by a theorem.

    tlc -config MCIngestQueuePool.cfg MCIngestQueue.tla     # one run
    tlapm CommitPipelineProofs.tla                          # the proofs of a module

## 1. The system

LLM Wiki turns source documents into a wiki of Markdown pages with an LLM. It
exists twice: as a desktop application (TypeScript front end in `src/`, Rust
back end in `src-tauri/`), which keeps a project in a directory, and as a server
(`src-server/`), which keeps it in PostgreSQL, with Redis as a wakeup.

| Component (source) | State | Operations | Interacts with | Hard behaviour | What makes it correct | Module |
|---|---|---|---|---|---|---|
| Commit pipeline (`lib/ingest.ts`, `lib/ingest-commit-coordinator.ts`, `lib/project-mutex.ts`) | promise chains per source and per project, a chain of commit turns | reserve, runCommit, release, withProjectLock, autoIngest | called by the queue's runs, by Save-to-Wiki, deep research and re-ingest | three kinds of waiting, aborts at any await, runs ending out of order | no lost page update, commits in start order, no circular wait | `CommitPipeline` |
| Ingest queue (`lib/ingest-queue.ts`) | tasks, runs, pause, worker limit, epoch, a file per project | enqueue, cancel, retry, discard, clear, move, pause, resume, project switch | file watchers and imports enqueue; commit pipeline; project registry; sweep | every await is an interleaving point; saves overlap; a switch in the middle of anything; crash | pool size, no lost wakeup, no lost task, nothing committed to a closed project | `IngestQueue` |
| Server ingest jobs (`services/ingest_queue.rs`, `ingest_worker.rs`, `ingest_pipeline.rs`) | `ingest_jobs` rows, Redis list, `ingested_files`, pages, review items | enqueue, cancel, manual retry, recovery, generator and merge loop | HTTP routes, LLM, embeddings, SSE | two stores without a transaction, crashes, redelivery, a panicking task, cancel mid-run | job status matches its sources, no source skipped half written, every job ends | `ServerIngestJobs` |
| Dedup queue (`lib/dedup-queue.ts`) | merge tasks, one `processing` flag, a file | enqueue, retry, cancel, pause, restore | page merge, ingest's pages | flag tested before and set after an await; saves without order; cancel while the merge writes; switch; crash | one merge at a time, no merge forgotten or made unasked, the queue never stalls | `DedupQueue` |
| Job stream (`routes/ingest.rs`) | a broadcast receiver per client | subscribe, snapshot, deliver, lag | server jobs | snapshot against events, dropped events | a client learns the outcome | planned |
| Research jobs (`services/research/`) | `research_tasks` rows, Redis list, a semaphore of 3 | enqueue, recovery, run | web search, LLM | no claim: a duplicate runs concurrently | a task is run once at a time | planned |
| File sync (`commands/file_sync.rs`, `lib/project-file-sync.ts`) | snapshot and change queue files, watcher generation, app-write ignores | start, stop, watch, rescan, process, retry, ignore | the front end, which enqueues ingests | threads, one lock, changes while processing, lost events, failed writes, a thread of an earlier session | every change is seen and told, no task is orphaned | `FileSync` |
| Project switch, auto-save (`lib/auto-save.ts`, `lib/reset-project-state.ts`) | stores, three timers, `suspended` | subscribe, flush, reset, load, resume | the stores, the queues, `App.tsx` | debounced save against reset and load, overlapping calls, ingests that end meanwhile | no project's data in another's files, nothing wiped, every item saved, saves resume | `ProjectSwitch` |
| Ingest cache (`lib/ingest-cache.ts`) | one JSON file | load, save, remove, move | commit pipeline, source lifecycle | read-modify-write over awaits | no entry is lost | planned, with source lifecycle |
| Deep research, review sweep, scheduled import, source lifecycle, clip watcher | stores and files of the app | | all enqueue ingests | stale project after an await | | callers of `IngestQueue` |
| Agent runtime, CLI transports | sessions, child processes | chat loop, tools | LLM | streaming, cancellation | | not modelled |
| File history, rate limits, token cleanup, graph, search, page merge, MCP server, extension, parser crate, UI | | | | sequential, numeric or presentation | | not modelled |

`PROJECT.json` lists them all with the reason for what is left out, and the
hazards of the code with the properties that cover them.

## 2. The modules

### CommitPipeline, SerialCommits

One instance is one project. A *caller* is one call of `autoIngest`; the ones in
`Queued` come from the ingest queue and bring a reservation
(`IngestCommitCoordinator.reserve`), the others commit without a turn.

| Specification | Code |
|---|---|
| `pc` | how far `startTask`, `withProjectLock`, `autoIngestImpl` got |
| `turns`, `released` | the coordinator's chain `tail`, and which `release` was called |
| `sourceLock[s]`, `projectLock` | `locks` of project-mutex.ts: the promise chains, holder first |
| `aborted` | the runs' `AbortController`s |
| `wiki`, `view` | whose changes the shared pages have; what a commit read when it began |

The LLM's work is the stage `prepare`. A commit reads the pages (`BeginWrite`)
and writes them (`FinishWrite`) in two steps, so overlapping commits would
lose an update. `Abort` and `PauseQueue` may come between any two steps.

`SerialCommits` is the abstract specification: commits happen one at a time, a
queued one only when all earlier ones have ended. `ImplementsSerial` is the
refinement, with `closed` (who will not commit any more) as the mapping. It leaves
out locks, turns and stages.

### IngestQueue

JavaScript runs a function until its next `await`; an action is such a piece.

| Specification | Code |
|---|---|
| `cur`, `queue`, `restored`, `cancelling`, `active`, `paused`, `limit`, `scheduling`, `drainDue`, `timer` | the module's variables (`currentProjectId` ... `usageLimitResumeTimer`) |
| `writes`, `disk` | the chain of saves, and what `loadQueue` makes of the queue file of each project |
| `runs[r]` | a `runTask` call with its remembered task object, project and epoch |
| `scheds[i]` | a `processNext` call that waits for the registry or for a save |
| `closing`, `opening`, `inactive` | `pauseQueue`, `restoreQueue`, `enqueueInactiveProjectBatch` in progress |

`queueEpoch` is unbounded; because it is only compared, each remembered epoch
becomes the flag `fresh`. A task is named by its id, and `own` tells whether the
remembered object is still the one in the queue. `calls`, `settled`, `unwanted`, `lost`
and `overlapped` belong to the model, not to the code; the last one notes that a
project was closed while a call or the scheduler was suspended.

A file can lose its tasks without any race. `write_file` is `fs::write` (fs.rs:1239), which empties the
file before it fills it, so a crash or an error in between leaves it cut off; and `loadQueue`
returns `[]` for a file that it cannot read or parse (ingest-queue.ts:154-156), so that the
next save drops all it had. `Cut`, `Loadable` and `LoadFile` model both, also the read of
a file in the middle of its write; `lost` notes the projects this has befallen until their next whole write.

Comments of the module disagree on what becomes of interrupted tasks. Those at 648-649
("auto-resumes on app restart / project switch") say that they start again, those at 55-58 and 831-834, and the
code, that they wait for the user; `NoSurpriseRun` states the latter.
`processNext` is called without being awaited, up to its first await it is part
of its caller's action (`Kick`). The environment's calls are the exported
functions; those of `Calls` are made in a run, at most `MaxCalls` of them.

### ServerIngestJobs

| Specification | Code |
|---|---|
| `jobs` | rows of `ingest_jobs`: status, cancel flag, retry count, item states |
| `list` | the Redis list `ingest:queue` |
| `handlers` | requests that wrote a row and have yet to push |
| `worker`, `run` | where `worker_loop` / `run_ingest_job` is, and its local variables |
| `run.out` | what the generator produced, in the order of `buffered` |
| `written`, `ingested`, `reviewed` | `wiki_pages`, `ingested_files`, review items, per source |

The generator takes sources up (peeking at the cancel flag), generates several at once,
and the merge loop consumes them in order: pages, content hash, review items,
item state, each a separate write. `Crash` keeps the rows, the list and
the written data, `Start` runs `recover_pending`. `Faults` chooses what may
fail: an LLM call (`failed`), a page (`upsert`), the generator's task (`panic`),
Redis (`push`), a rate limit (`limit`), a statement (`query`, `update`), a
source without pages (`empty`), a harmless warning (`warn`), a BRPOP whose answer does not arrive (`pop`).
The recovery pushes each job with an LPUSH of its own, any of which may fail, and
a failed query for the hash of a source counts as no hash, so that it is generated again.
`lost` records the jobs whose wakeup an ignored error dropped; `late` the sources
not taken up when a cancel arrived. Both are bookkeeping.

### TaskQueues

The two queues of the app, of ingests and of merges, are arrays of task objects.
`TaskQueues` has what both do with them: find by id, change in place, filter
into a new array (`Without`), put interrupted tasks back to pending.

### DedupQueue

The queue of page merges is built like the ingest queue but with one flag in place of runs
with identities, and its saves are not chained. An action is again a piece of code
between two awaits.

| Specification | Code |
|---|---|
| `cur`, `queue`, `processing`, `restored`, `controller` | the variables of dedup-queue.ts (`currentProjectId` ... `currentAbortController`) |
| `procs[i]` | a `processNext` call past its test of the flag: the lookup, the save, and `executeMerge` with its reads, LLM request and writes |
| `saves` | `writeFile` calls of `saveQueue` under way, each with its caller |
| `closing`, `opening` | `pauseQueue`, `restoreQueue` in progress |
| `disk`, `wiki` | what `loadQueue` makes of the queue file, and the merges a project's pages contain |

The file is written and read as that of the ingest queue, with the same losses (dedup-queue.ts:82-84) and `lost` for them;
a save that ends after a later one of its file also counts, and two at a time may mix. That
restored merges wait for the user (`NoSurpriseMerge`) is what 47-50 and 272-275 say; the header reads
otherwise (9-11: the queue "resumes on next launch" and "must survive app close").

A merge reads the pages (`view`) before it asks the LLM, so one that writes later drops
what others wrote since; `wiki` follows only the merges of `Tracked`. With `Ordered` saves end in
the order of their calls, which the code does not ensure; it makes the runs small. `Overlap` says which calls come while a task is looked
up or saved. `merged`, `cancelled` and `unusable` are bookkeeping.

### FileSync

| Specification | Code |
|---|---|
| `snap`, `queue` | the snapshot and the change queue, both files under `project_lock` |
| `chan` | the bounded channel between notify's callback and the watcher thread |
| `watcher` | the thread that has the active generation |
| `threads[t]` | where a thread is in detect, upsert and process: the watcher's, an earlier session's, or a command's |
| `ignored` | `APP_WRITE_IGNORES` |
| `disk`, `knows`, `listens` | the files, what the front end was told of them, whether it listens |

A critical section under the lock is one action; reading files is an action of
its own, because it happens outside. The content of a file is the number of the change that made it.
Hash and size tell the contents apart, but a file of `Large` (above 32 MiB, file_sync.rs:25, 994-998) has
no hash: two contents of one `Size` are `Alike`, and a change between them is not seen. README.md:129 promises
without exception that changes are detected, and the default `maxFileSizeMb` is 100 (source-watch-defaults.json:69).
`Notify` may lose an event (full channel) or have the root stand for it.
Reads and writes may fail and end the whole batch, the snapshot before the queue; each file is written to a
temporary one that is renamed, so none is torn. `Stop` and `Crash`
come anywhere, a crash also between the writes of the snapshot and of the queue. The app marks the paths it writes
or deletes itself (`AppWrite`); `AppPaths` bounds them. `excused` are the paths whose news were
deliberately told to nobody: taken for the app's own write, told while nobody
listened, or lost in a crash after the snapshot had them.

### ProjectSwitch

| Specification | Code |
|---|---|
| `project`, `mem`, `active`, `streaming` | the wiki, review and chat stores |
| `suspended`, `timer` | module variables of auto-save.ts; a timer with the state and project its closure has |
| `calls[c]` | how far a call of `handleProjectOpened` / `handleSwitchProject` is: flush, reset and pause, project, settings, queue, chats, reviews |
| `queue`, `ingest` | `currentProjectId` of the ingest queue, the ingests that commit |
| `disk`, `files` | review.json and conversations.json, chats/<id>.json |

Between any two steps of a call the user begins, streams and deletes
conversations, dismisses reviews or clicks again, timers fire, and ingests end and add reviews to
whatever the store holds. The review store stands for the lint store too. A
debounced save is one step: its write ends before a later save or load of its
file begins. Runs of the queue that `pauseQueue` aborted add nothing
(ingest.ts:1412); ingests that were called directly do. `home`, `removed`,
`strays` and `odd` are bookkeeping: the project an item was made for, what
the user removed, what was put into another project's stores, and what has
overlapped a call.

## 3. What is checked

All runs set `CHECK_DEADLOCK FALSE`: each system rests when its bounded calls are made and
served, which is not a deadlock. Real circular waits are caught by the
liveness properties.

| Run | Instance | Shows |
|---|---|---|
| `commit_order` | 3 queued ingests, 2 of one source, 1 direct on that source, fairness | the inductive invariant; no lost update; commits in start order; refinement of `SerialCommits`; every call ends: no circular wait of locks and turns |
| `ingest_pool` | 1 or 2 workers, 2 tasks, 3 runs alive, 5 calls of the user | pool size, no task twice, no task stuck in processing, a cancelled run's output is discarded although its task was restarted |
| `ingest_progress` | limit 1 or 2 and changing, usage limits, fairness | no lost wakeup, every task settles, a pause for a usage limit ends, the sweep follows |
| `ingest_files` | 2 projects, switches that overlap suspended calls, pauses, crashes, failing saves and loads, torn files, imports into the closed project | restored tasks do not start by themselves, a closed project can be restarted; until the first overlap commits stay in the open project and no task leaves its file unsettled, but for the losses of `lost` |
| `server_jobs` | 2 jobs sharing a source, window 2, 4 requests or crashes | status matches items; no hash without all pages; nothing done twice; cancel bounds the work |
| `server_settles` | 1 job that names a source twice, all faults, fairness | no job forgotten, retries bounded, every job ends |
| `dedup_queue` | 2 merges in 2 projects, 5 calls between any two awaits, switches, crashes, failing loads, torn files, no LLM | the queue goes on whatever flags and calls overlap, restored merges wait for the user, no merge leaves the file before it is made or cancelled, but for the losses of `lost` |
| `file_sync` | 2 files, one of them large, a watcher thread and a command's, a channel of 1, 2 changes, 1 fault, 2 commands | what the snapshot has was told; no task in processing without a thread; every change that hash and size can tell comes to the snapshot |
| `project_switch` | 2 projects, an old and a new item, 2 calls that may overlap, an ingest | no item in another project's file; nothing wiped; saves resume; every item is saved |

Violations (a promise of the repository that the code does not keep):

| Run | Counterexample |
|---|---|
| `server_reviews` | crash between the hash of a source and its review items: the job is recovered, skips the source by its hash and ends without them. (As `succeeded`, without an error, only when it is delivered once more.) |
| `dedup_lost` | a merge is cancelled while it writes; the next one is made meanwhile, and the cancelled one's writes overwrite its pages. |
| `switch_wipes` | the user leaves a project and clicks again while the first call waits in its reset: the second call flushes the stores the first has cleared over review.json. No ingest takes part. |

The bounds. Two sources and three callers make all pairs of conflicts (same
source, other source, earlier, later) and one caller between two others.
Two workers and two tasks with three runs allow an old run, its restarted
successor and a sibling; the limit of one, with two tasks to start, is what a scheduler
that does not count would exceed. `MaxCalls` lets a call be undone and repeated (enqueue,
cancel, retry, cancel); `MaxWrites` limits only how many saves wait when a
*call* is made. Two jobs sharing a source is the smallest case in which one job
skips what the other ingested; window 2 the smallest with a source generated
ahead. `MaxRetries` is small because only its exhaustion matters. Two merges and
two calls of `processNext` are the smallest case of two that both pass the flag; the lost
rewrite needs three calls. In `FileSync` two files let one read fail for the other, the large one has
contents of one size only (`MCSize`), so that its changes are masked in every way, a
channel of one is full after one event, and `FileSyncProofs` covers more threads. In
`ProjectSwitch` the two kinds of items share only the calls and `suspended`, so
an instance has reviews or chats; two calls are enough for one to clear, set or
load under the other's hands. All actions and disjuncts fire in the passing runs.

Where two promises of the code exclude each other, or it keeps one only when
calls do not overlap a switch, the property or the run says so:

* `UndisturbedFiles` and `DiskKeepsMerges` excuse a project of `lost`: a torn file or a failed load does lose tasks, as
  section 2 says. They say that nothing else does.
* `UndisturbedCommits` and `UndisturbedFiles` hold until a project is closed while
  a call or the scheduler is suspended (`overlapped`). After it, an enqueue that
  returns from its save while `pauseQueue` waits starts a run that commits to the
  closed project. The run makes no new call between the two ends of a switch:
  one during the load of `restoreQueue` is overwritten by it.
* `ClosedRestartable` is about what is written; the code logs a failed save and goes on.
* `OldOutputDiscarded` is checked without pauses: `pauseProcessing` returns a
  committing task to pending, so cancelling and enqueuing it again does
  not mark the old run, whose end then removes the new task.
* A pause during the scheduler's lookup of the project is not noticed, as only project and epoch are compared there. Nor is a
  cancel or a discard. The task is run all the same, a cancelled one is put into processing again, although the
  comment at ingest-queue.ts:643-646 says of a pause that no pending task is handed to the LLM until
  the queue is resumed. `StartRun` does what the code does; the properties show that the pool stays sound.
* `LimitPauseEnds` is checked without pauses of the user, who may stop the timer that would end it.
* A list entry too many claims a succeeded server job again (`mark_job_running` has
  no guard); its sources are then skipped by their hashes.
* `DiskKeepsMerges` needs that no switch comes among suspended calls; saves may overtake each other, at the price
  of `lost`.
* `EveryMergeSettles` excuses a refusal for want of an LLM, after which the queue
  waits for the user, and the time during which a project is closed.
* `EveryChangeSeen` excuses contents that are `Alike`.
* `NoOrphan` and `EveryChangeSeen` exclude tasks left behind by a failed write until the
  next start; a file deleted before the first and written again before the second
  of the two reads (file_sync.rs:727, 874) is told as deleted while the snapshot gets its content.
* `OwnItems` excuses `strays`: a direct ingest's reviews, and what is added between
  the clearing of the stores and the next project, do get into the other project's files.
* `NothingWiped` and `EveryItemSaved` excuse what is added while a call is under way (reviews added
  before the side stores are loaded are replaced by them, chats begun during an opening
  are scheduled for no save), a flush during a streamed answer, and overlapping calls.

Fairness. Each await in the code is of an I/O operation, a timer, a lock or a
turn: `FairSpec` says those that are
enabled come back (weak fairness per caller, run, scheduler, `processNext` call, handler of
a project, timer, and of the writes of files); nothing obliges a user to act. On
the server, weak fairness of the worker, the
generator and the handlers: Tokio schedules them, queries and LLM calls end (they
have timeouts), and the server is started again after a crash. In `FileSync`
threads are scheduled and timeouts come; finishing a task gets strong fairness, since
the ten seconds between two rescans are longer than a pass, so that rescans do
not change a task under every pass for ever. `EveryChangeSeen` assumes the
periodic rescan (`Periodic`), which the code has on Linux. Crashes, faults and
requests are bounded and need no fairness.

## 4. What is proved

### CommitPipelineProofs

For every number of callers and sources and every assignment of sources
(assumption `CallersAssumption`: queued callers are callers, each
caller has a source):

| Theorem | States |
|---|---|
| `Invariance` | `Spec => []PipelineInv` |
| `Typing` | type correctness |
| `LostUpdateFree` | `NoLostUpdate` |
| `Ordered` | `StartOrder` |
| `NoWaitCycle` | `SourceBeforeTurn`, the reason there is no circular wait |
| `Refinement` | `Spec => Serial!SSpec` |

The safety properties are not inductive. `PipelineInv` strengthens them with
what the code relies on silently: a writer holds the project lock and has seen
the newest pages (`WriterHolds`, `ViewFresh`), so `FinishWrite` drops nothing;
a caller holds its source's lock from prepare to leave (`SourceHeld`,
`SourceLive`); whoever is past its turn has only ended predecessors
(`TurnTaken`), a turn released early belongs to an aborted caller
(`ReleasedOver`), and an aborted one never writes anew, which is why
`pauseQueue` may release turns of running ingests; saves resume in the order of
reservations (`SavesInOrder`), hence source locks are queued in that order
(`SourceBeforeTurn`); and `WrittenInOrder` carries `StartOrder`. The proof has
one lemma per action for the invariant. TLC checks `PipelineInv` in `commit_order`.

### ServerIngestJobsProofs

For any finite, nonempty set of jobs, any lists of sources, window and
faults (`JobsAssumption`):

| Theorem | States |
|---|---|
| `RunTyping`, `JobTyping` | `Spec => []Typed`, type correctness |
| `RetriesBounded` | `RetryBudget` |
| `SkippedIsComplete` | `IngestedComplete`, if no update of a row fails (`"update" \notin Faults`) |
| `CancelStopsWork` | `CancelBoundsWork` |
| `NoJobForgotten` | `NoStuckJob` |
| `NothingRedone` | `DoneNotRedone` |
| `OutcomeTold` | `OutcomeMatchesItems`, if no update of a row fails |

`RetryBudget` is strengthened with what the run
remembers of the row it claimed (`Budget`). `IngestedComplete` needs that the
run writes a hash only after all pages of that source (`Complete`).
`CancelBoundsWork` is an action property: a source of `late` is one that the
generator will refuse or has refused (`LateRefused`), and the merge loop records only
sources that brought pages (`MergesPages`). `NoStuckJob` is inductive with
`Typed`; its hardest step is the recovery, where the list of the jobs found must
cover them all (`SetToSeqs`).

Type correctness needs that the positions of a run lie within each other: the
merge loop has received no more than was produced, and no more is produced than there
are targets (`Within`). `Before` says what the targets are: each source of the job once,
unless it is done, and none after the present position done. That is a fact about `Targets`,
a recursive function over the list of sources, and proved by induction on its length. From
it follow `DoneNotRedone` and, with what the run's counters stand for
in the row (`Counted`: a done source lies behind the merge loop, and without a warning all
behind it are done), `OutcomeMatchesItems`. The assumption is needed: the
code ignores a failed update of a source's state, counts it as done all the same, and the row ends
as a success without it.

### FileSyncProofs

For any files, threads, faults and calls (`FileSyncAssumption`), and any sizes of large files (`SizeAssumption`):

| Theorem | States |
|---|---|
| `SyncInvariance`, `SyncTyping` | `SyncInv`, type correctness |
| `NoChangeSwallowed` | `EveryChangeTold` |
| `NoTaskOrphaned` | `NoOrphan` |

`SyncInv == TypeOK /\ Versions /\ EveryChangeTold`: no version that a thread, the
snapshot or the front end holds is newer than the last change, so a write is news to all
of them, and a thread that gives the snapshot the present content has the change
among the ones it will tell. `NoOrphan` follows from `TaskInv`: a thread has a
task only while it is to end it (`TaskAtFinish`), and a task in processing has
a thread that will mind it, because it finds its own time stamp there or
the mark that the task must run again (`Minded`).

### ProjectSwitchProofs

For any projects, items, overlapping calls and ingests (`SwitchAssumption`):

| Theorem | States |
|---|---|
| `SwitchTyping` | type correctness |
| `SwitchInvariance` | `Spec => []SwitchInv` |
| `NoContamination` | `OwnItems` |
| `OnlyRemovedLost` | `NothingWiped` |

`OwnItems` speaks of the files only. `SwitchInv` says the same of everything that will be
written there: the stores hold items of the open project (`StoresOwn`), a timer, a flush and a load
items of the project they name (`TimersOwn`, `CallsOwn`), but for the
strays. The step that sets the next project is the delicate one: the stores may have been
filled since they were cleared, so while some call is between the two, everything in them
is a stray. `HydrateChat` and `HydrateSide` keep it because they look at the project again after the read.

`NothingWiped` excuses overlapping calls, and its invariant (`WipeInv`) speaks of a single call. From
its flush to the load of its chats saves are suspended and no timer is set (`Quiet`), so the
cleared stores have nobody to write them. At other times a file holds nothing that the store,
the timer, a flush or a load that will write it does not, but for what the user removed
(`MemBacked`, `TimerBacked`, `CallBacked`). The review store is empty until it is
loaded, after saves have resumed: that is where the excuse for items added too early is needed.

### TaskQueueLemmas

What the operators of `TaskQueues` return: a filter keeps the types and the distinct ids, loses exactly the
tasks it leaves out, and every operator keeps the status of the tasks it does not name. `Without` is a
recursive function, its lemmas are proved by induction. The induction rules of the
library take an operator and cannot be used; `InductiveSet` states induction for a set of naturals, and
a set of lengths for which the lemma holds takes the place of the operator. It follows from the
well-foundedness of `<`. `ServerIngestJobsProofs` uses it too.

### DedupQueueProofs

For any projects, tasks, calls of `processNext`, overlaps and faults (`DedupAssumption`):

| Theorem | States |
|---|---|
| `DedupInvariance`, `DedupTyping` | `TypeInv`, type correctness |
| `DedupNoSurprise` | `NoSurpriseMerge` |
| `DedupDiskKept` | `DiskKeepsMerges`, with no switch among suspended calls; saves in any order, failing or torn |

`TypeInv` adds that only an open project has a queue (`Opened`) and that a closing has one save (`Closes`).
`NoSurpriseMerge` needs that a call of `processNext` that has yet to come back from its lookup has not
taken a waiting task (`Held`), which `restoreQueue` keeps, because it replaces the queue whose tasks
such calls know. `DiskKeepsMerges` is proved from `KeepInv`: unless the file was lost, what is on disk is in every save
under way, what is in a save is in the later ones, and what is in the last is in the queue, but
for the merges made or cancelled; and while a file is read no save of its project is under
way. The assumption, `"switch" \notin Overlap`, is that of the run; without it TLC finds a merge that is
forgotten. The run has its saves in order, the theorem does not need it.

### IngestQueueProofs, IngestQueueRuns

For any projects, sources, batches, tasks, runs, calls of `processNext` and limits (`QueueAssumption`):

| Theorem | States | Assumes |
|---|---|---|
| `IngestInvariance`, `IngestTyping` | `TypeInv`, type correctness | |
| `IngestSwitchInvariance` | `SwitchInv` | no call overlaps a switch |
| `IngestNoSurprise` | `NoSurpriseRun` | the same |
| `IngestClosedRestartable` | `ClosedRestartable` | the same |
| `IngestCalmInvariance`, `IngestOrderlyInvariance` | `CalmInv`, `OrderlyInv` | the same |
| `IngestUndisturbedCommits` | `UndisturbedCommits` | the same |
| `IngestUndisturbedFiles` | `UndisturbedFiles` | the same |
| `IngestProcessingHasRun` | `ProcessingHasRun` until the first overlap | the same |
| `IngestNoLostWakeup` | `NoLostWakeup` until the first overlap | the same |
| `IngestWorkerPool` | `WorkerPool` until the first overlap | the same; the limit is not changed |
| `IngestNothingOverlaps` | there is no overlap | `Overlap = {}` |
| `IngestOldOutputDiscarded` | `OldOutputDiscarded` | `Overlap = {}`; no pauses, no usage limits |

"No call overlaps a switch" (`Alone`) is `"calls" \notin Overlap`: the user's calls come before `pauseQueue` or
after `restoreQueue`, not between their awaits. What is suspended when a project is closed, a save of
a call or a lookup of the scheduler, may still come back at any time; it sets `overlapped`, and what
is promised until then is proved of every state before. `ingest_pool` and `ingest_progress` have `Overlap = {}`, so that there
`IngestNothingOverlaps` makes these promises hold throughout.
The limit must not change for `WorkerPool` because
`setIngestWorkerLimit` stops no run when it lowers it; pauses and usage limits are left out of
`OldOutputDiscarded` because they return a task to pending without a note for its run (a hazard of its own).

The module is large because each await may be followed by a call of `processNext`, which is part of every
action. The proofs therefore first say what a step *does* (`Effect`: an edit of the queue, a start, the end of a run,
a save, ...), once per action, and every invariant is shown to be kept by each effect:

* `TypeInv`: ids in memory, in files and in saves under way are distinct; only then do the changes by id
  change one task.
* `SwitchInv`: the phases of `pauseQueue` and `restoreQueue` with the saves they wait for (`Phases`), the
  empty queue during a load (`Loading`), and a scheduler that has not taken a restored task (`Held`).
* `CalmInv`, until the first overlap: the runs of the open project are those in `activeRuns`, the others
  are aborted and committing, and `pauseQueue` waits for these (`ActiveRuns`); there is one scheduler (`OneSched`).
* `OrderlyInv`, likewise: every task in processing has a run (`Processing`), the scheduler has left room
  for the run it starts (`Workers`), a free worker with a runnable task has somebody who
  will look (`Wakeup`), the chain of saves loses only settled tasks unless the file was lost (`Files`), and the task of a run at work is
  processing, gone, or noted as cancelled, the last if the user does not want its output any more (`Wanted`).

### Only model-checked

Liveness (`EveryCallEnds`, `EveryTaskSettles`, `LimitPauseEnds`, `SweepFollows`, `EveryJobSettles`,
`EveryMergeSettles`, `EveryChangeSeen`, `AutoSaveResumes`, `EveryItemSaved`) needs fairness and
ENABLED and is out of the prover's reach. What a theorem assumes about overlaps and calls the
runs assume too (section 3), so that there TLC shows no more than is proved. Some theorems cover what the runs leave out:
`IngestNoLostWakeup` the user's pauses, `DedupDiskKept` saves that fail or overtake each other.

## 5. Not modelled

Most of the repository is presentation, texts and prompts, numeric ranking and I/O: its lines have no
interleaving, no order and no failure to model, and what the map covers are the parts that do.

* Prompts, parsing, page formats, merging of texts, embeddings, ranking: data.
* In `CommitPipeline`, the mutex of the image captions (innermost, released
  before any other is taken), and writes that fail after some shared files were written: a
  commit that throws late counts as written.
* In `IngestQueue`, a second `pauseQueue` while one is closing, the sweep itself, task fields no decision reads, and the
  zombie scheduler of a closed project: `scheduling` is reset at a switch, so
  the `finally` of an old `processNext` may clear the flag of a new one.
  `SchedIds` with one element keeps it out of the runs. It takes an overlap, before which the
  theorems show that there is one scheduler, for any `SchedIds`.
* In `ServerIngestJobs`, progress, stages and events, documents that change while
  they are ingested, several server processes, and jobs without sources.
* In `DedupQueue`, which pages are duplicates, the rewriting of links, and ingests that commit
  between a merge's reads and its writes (a hazard without a property).
* In `FileSync`, a rescan that finds nothing, a file that stays unreadable for ever (`MaxFaults` bounds the failing reads), a crash on
  Windows between the removal of a file and the renaming of its successor, which paths are watched, the walk of directories, and of the front end everything but
  that it listens: it processes batches without waiting for each other, so the clean-up after a
  deletion may come after the next batch has enqueued the source again.
* In `ProjectSwitch`, failing reads and saves (a failed read returns an empty list, which a later
  flush writes), crashes, unordered writes of one file, chat preferences, the old chat
  format, the restore of the dedup queue, file sync and scheduled import at the same places, the web platform.
* The server's research jobs: `recover_pending` pushes tasks that may still be in the list, and the
  worker runs three at a time without a claim (worker.rs:54-77). The job
  stream: subscription, snapshot and events, and a client that lags (routes/ingest.rs:116-155). The ingest
  cache, whose read-modify-write the source lifecycle calls outside of the commit lock.
* The agent runtime, CLI transports, file history, rate limits, graph, search, MCP server, extension, parsers and UI.

## 6. Plan

Order of the further work, the most important behaviour first:

1. `ResearchJobs`: three workers over the list discipline of the ingest jobs; "each task is run by one
   worker at a time" (expected to fail).
2. `JobStream`, composed with the rows and events of `ServerIngestJobs`: a
   connected client learns the final status, unless it lags.
3. The front end of the file sync, composed with `FileSync` and the enqueue of `IngestQueue`; the ingest
   cache with the source lifecycle. A merge against an ingest that commits meanwhile: the commit
   pipeline and the dedup queue over the same pages.
4. An abstract specification of a job queue (a task is pending, run, settled)
   which `IngestQueue` and `ServerIngestJobs` implement; the refinements proved from `OrderlyInv` and
   `OutcomeInv`.

Small instances suffice for all of them: two projects, two tasks, two clients.
