--------------------------- MODULE CommitPipeline ---------------------------
(***************************************************************************)
(* How ingests of one project reach its shared wiki files.                 *)
(*                                                                         *)
(* Every ingest is a call of autoIngest.  It holds the promise-chain mutex *)
(* of its source for the whole call, prepares (LLM calls) concurrently     *)
(* with other sources, and then commits: an ingest of the queue first      *)
(* waits for its turn, the turns being handed out when tasks start, then   *)
(* every ingest takes the project mutex, re-checks its abort signal, reads *)
(* the shared files and writes them back.                                  *)
(*                                                                         *)
(* A caller stands for one call.  Callers outside Queued pass no runCommit *)
(* (Save-to-Wiki, deep research, re-ingest of one file): they take the     *)
(* project mutex only.  The mutex of the image captions is left out: it is *)
(* the innermost one, held around LLM calls only.                          *)
(***************************************************************************)
EXTENDS Naturals, Sequences

CONSTANTS
    Callers,    \* calls of autoIngest on one project
    Queued,     \* the calls made by the ingest queue's runTask
    Sources,    \* source documents
    SourceOf    \* the source each call ingests

ASSUME CallersAssumption ==
    /\ Queued \subseteq Callers
    /\ SourceOf \in [Callers -> Sources]

VARIABLES
    pc,           \* where each call is
    turns,        \* queued callers in the order of reserve()
    released,     \* queued callers whose turn promise is resolved
    aborted,      \* callers whose AbortSignal fired
    sourceLock,   \* per source: holder first, then waiters in call order
    projectLock,  \* the project mutex, likewise
    wiki,         \* callers whose changes the shared wiki files contain
    view          \* the content each commit read when it began

vars == <<pc, turns, released, aborted, sourceLock, projectLock, wiki, view>>

Stages == {"idle", "reserved", "waitSource", "prepare", "waitTurn",
           "waitProject", "write", "leave", "done"}

TypeOK ==
    /\ pc \in [Callers -> Stages]
    /\ turns \in Seq(Queued)
    /\ released \subseteq Queued
    /\ aborted \subseteq Callers
    /\ sourceLock \in [Sources -> Seq(Callers)]
    /\ projectLock \in Seq(Callers)
    /\ wiki \subseteq Callers
    /\ view \in [Callers -> SUBSET Callers]

Init ==
    /\ pc = [c \in Callers |-> "idle"]
    /\ turns = << >>
    /\ released = {}
    /\ aborted = {}
    /\ sourceLock = [s \in Sources |-> << >>]
    /\ projectLock = << >>
    /\ wiki = {}
    /\ view = [c \in Callers |-> {}]

-----------------------------------------------------------------------------
\* d reserved its turn before c.
Before(d, c) ==
    \E i, j \in 1..Len(turns) : i < j /\ turns[i] = d /\ turns[j] = c

\* Mutant: the tail chains the last turn only.
PredecessorLast(c) ==
    \A i \in 2..Len(turns) : turns[i] = c => turns[i - 1] \in released

\* The predecessor promise of c: the tail chains every earlier turn.
PredecessorDone(c) == \A d \in Queued : Before(d, c) => d \in released

\* A promise-chain mutex admits the caller at its head.
Holds(lock, c) == lock # << >> /\ Head(lock) = c

\* Mutant: the saves of two tasks may come back in either order.
SavesReorder(c) == TRUE

\* startTask saves the queue between reserve() and runTask.  The queue's disk
\* writes are serialized, so the saves resume their tasks in reserve order.
SaveResumes(c) == \A d \in Queued : Before(d, c) => pc[d] # "reserved"

Goto(c, stage) == pc' = [pc EXCEPT ![c] = stage]

-----------------------------------------------------------------------------
(* startTask *)

Reserve(c) ==
    /\ c \in Queued
    /\ pc[c] = "idle"
    /\ turns' = Append(turns, c)
    /\ Goto(c, "reserved")
    /\ UNCHANGED <<released, aborted, sourceLock, projectLock, wiki, view>>

\* The project was switched during the save: the run never starts.
AbandonStart(c) ==
    /\ pc[c] = "reserved"
    /\ SaveResumes(c)
    /\ c \in released
    /\ Goto(c, "done")
    /\ UNCHANGED <<turns, released, aborted, sourceLock, projectLock, wiki, view>>

\* autoIngest joins the source's mutex synchronously.
CallAutoIngest(c) ==
    /\ \/ c \in Queued /\ pc[c] = "reserved" /\ SaveResumes(c) /\ c \notin released
       \/ c \notin Queued /\ pc[c] = "idle"
    /\ sourceLock' = [sourceLock EXCEPT ![SourceOf[c]] = Append(@, c)]
    /\ Goto(c, "waitSource")
    /\ UNCHANGED <<turns, released, aborted, projectLock, wiki, view>>

-----------------------------------------------------------------------------
(* autoIngestImpl *)

EnterSource(c) ==
    /\ pc[c] = "waitSource"
    /\ Holds(sourceLock[SourceOf[c]], c)
    /\ Goto(c, "prepare")
    /\ UNCHANGED <<turns, released, aborted, sourceLock, projectLock, wiki, view>>

\* An LLM or read error, or the abort signal, ends the preparation.
FailPrepare(c) ==
    /\ pc[c] = "prepare"
    /\ Goto(c, "leave")
    /\ UNCHANGED <<turns, released, aborted, sourceLock, projectLock, wiki, view>>

\* runCommit: a queued ingest awaits its predecessor, the others go straight
\* to the project mutex.
RunCommit(c) ==
    /\ pc[c] = "prepare"
    /\ IF c \in Queued
       THEN Goto(c, "waitTurn") /\ UNCHANGED projectLock
       ELSE Goto(c, "waitProject") /\ projectLock' = Append(projectLock, c)
    /\ UNCHANGED <<turns, released, aborted, sourceLock, wiki, view>>

TakeTurn(c) ==
    /\ pc[c] = "waitTurn"
    /\ PredecessorDone(c)
    /\ projectLock' = Append(projectLock, c)
    /\ Goto(c, "waitProject")
    /\ UNCHANGED <<turns, released, aborted, sourceLock, wiki, view>>

\* Mutant: a call without a turn releases one.
LeaveCommitReleasing(c) ==
    /\ projectLock' = Tail(projectLock)
    /\ released' = released \cup {c}
    /\ Goto(c, "leave")

\* Leaving the commit section: the project mutex, then the turn.
LeaveCommit(c) ==
    /\ projectLock' = Tail(projectLock)
    /\ released' = released \cup ({c} \cap Queued)
    /\ Goto(c, "leave")

\* throwIfIngestAborted is the first statement of the commit section.
RefuseCommit(c) ==
    /\ pc[c] = "waitProject"
    /\ Holds(projectLock, c)
    /\ c \in aborted
    /\ LeaveCommit(c)
    /\ UNCHANGED <<turns, aborted, sourceLock, wiki, view>>

\* Mutants: the project mutex is not taken; the abort signal is not checked.
BeginWriteUnlocked(c) ==
    /\ pc[c] = "waitProject"
    /\ c \notin aborted
    /\ view' = [view EXCEPT ![c] = wiki]
    /\ Goto(c, "write")
    /\ UNCHANGED <<turns, released, aborted, sourceLock, projectLock, wiki>>

BeginWriteAborted(c) ==
    /\ pc[c] = "waitProject"
    /\ Holds(projectLock, c)
    /\ view' = [view EXCEPT ![c] = wiki]
    /\ Goto(c, "write")
    /\ UNCHANGED <<turns, released, aborted, sourceLock, projectLock, wiki>>

BeginWrite(c) ==
    /\ pc[c] = "waitProject"
    /\ Holds(projectLock, c)
    /\ c \notin aborted
    /\ view' = [view EXCEPT ![c] = wiki]
    /\ Goto(c, "write")
    /\ UNCHANGED <<turns, released, aborted, sourceLock, projectLock, wiki>>

FinishWrite(c) ==
    /\ pc[c] = "write"
    /\ wiki' = view[c] \cup {c}
    /\ LeaveCommit(c)
    /\ UNCHANGED <<turns, aborted, sourceLock, view>>

\* A commit that throws (abort seen late, a failed page write) before it
\* wrote the shared files, or that has nothing new for them (an unchanged
\* source); one that throws after is a FinishWrite here.
FailWrite(c) ==
    /\ pc[c] = "write"
    /\ LeaveCommit(c)
    /\ UNCHANGED <<turns, aborted, sourceLock, wiki, view>>

\* Mutant: a call that did not commit keeps its turn.
LeaveSourceOnly(c) ==
    /\ pc[c] = "leave"
    /\ sourceLock' = [sourceLock EXCEPT ![SourceOf[c]] = Tail(@)]
    /\ Goto(c, "done")
    /\ UNCHANGED <<turns, released, aborted, projectLock, wiki, view>>

\* The source mutex is left, and runTask's finally releases an unused turn.
LeaveSource(c) ==
    /\ pc[c] = "leave"
    /\ sourceLock' = [sourceLock EXCEPT ![SourceOf[c]] = Tail(@)]
    /\ released' = released \cup ({c} \cap Queued)
    /\ Goto(c, "done")
    /\ UNCHANGED <<turns, aborted, projectLock, wiki, view>>

-----------------------------------------------------------------------------
(* What may happen to a run at any time *)

Live(c) == pc[c] \notin {"idle", "done"}

\* cancelTask, pauseProcessing, a usage limit of a sibling.
Abort(c) ==
    /\ Live(c)
    /\ c \notin aborted
    /\ aborted' = aborted \cup {c}
    /\ UNCHANGED <<pc, turns, released, sourceLock, projectLock, wiki, view>>

\* pauseQueue aborts every run of the queue and releases its turn, the turn
\* of a run inside its commit section included.
PauseQueue ==
    LET runs == {c \in Queued : Live(c)} IN
    /\ ~ runs \subseteq (aborted \cap released)
    /\ aborted' = aborted \cup runs
    /\ released' = released \cup runs
    /\ UNCHANGED <<pc, turns, sourceLock, projectLock, wiki, view>>

-----------------------------------------------------------------------------
\* The steps a call takes by itself once it started.
Progress(c) ==
    \/ AbandonStart(c) \/ (c \in Queued /\ CallAutoIngest(c))
    \/ EnterSource(c) \/ FailPrepare(c) \/ RunCommit(c) \/ TakeTurn(c)
    \/ RefuseCommit(c) \/ BeginWrite(c) \/ FinishWrite(c) \/ FailWrite(c)
    \/ LeaveSource(c)

Next ==
    \/ \E c \in Callers :
          \/ Reserve(c) \/ AbandonStart(c) \/ CallAutoIngest(c)
          \/ EnterSource(c) \/ FailPrepare(c) \/ RunCommit(c) \/ TakeTurn(c)
          \/ RefuseCommit(c) \/ BeginWrite(c) \/ FinishWrite(c) \/ FailWrite(c)
          \/ LeaveSource(c) \/ Abort(c)
    \/ PauseQueue

Spec == Init /\ [][Next]_vars

\* Promise continuations run, LLM calls and file operations return.
FairSpec == Spec /\ \A c \in Callers : WF_vars(Progress(c))

-----------------------------------------------------------------------------
\* The read-modify-write of the shared files by one ingest never drops what
\* another one wrote (project-mutex.ts: these "must not overlap").
NoLostUpdate == [][wiki \subseteq wiki']_vars

\* Ingests of the queue change the wiki in the order their tasks started:
\* once a later one has written, an earlier one never does.
StartOrder ==
    [][\A c, d \in Queued :
          (Before(c, d) /\ d \in wiki /\ c \notin wiki) => c \notin wiki']_vars

\* What rules out a deadlock between the three waits: a queued ingest that
\* waits for a source is never behind one whose turn comes after its own.
SourceBeforeTurn ==
    \A s \in Sources : \A i, j \in 1..Len(sourceLock[s]) :
        (i < j /\ {sourceLock[s][i], sourceLock[s][j]} \subseteq Queued)
            => ~ Before(sourceLock[s][j], sourceLock[s][i])

\* Every ingest that starts leaves all its locks and turns behind, whatever
\* mixture of failures, cancellations and project switches it meets: a call
\* is made once, so all of them have ended infinitely often.
EveryCallEnds == []<>(\A c \in Callers : ~ Live(c))

-----------------------------------------------------------------------------
\* Callers that have committed or never will: an abort seen before the first
\* write is final.
Closed == {c \in Callers : \/ pc[c] \in {"leave", "done"}
                           \/ c \in aborted /\ pc[c] # "write"}

Serial == INSTANCE SerialCommits WITH closed <- Closed

\* The three kinds of waiting together implement one serial, start-ordered
\* commit per ingest.
ImplementsSerial == Serial!SSpec

-----------------------------------------------------------------------------
(* The inductive invariant behind the safety properties, part by part.     *)

\* A commit that writes holds the project mutex...
WriterHolds == \A c \in Callers : pc[c] = "write" => Holds(projectLock, c)

\* ... and what it read is still what the shared files contain.
ViewFresh == \A c \in Callers : pc[c] = "write" => view[c] = wiki

\* A call holds its source's mutex from the preparation to the end.
SourceHeld ==
    \A c \in Callers :
        pc[c] \in {"prepare", "waitTurn", "waitProject", "write", "leave"}
            => Holds(sourceLock[SourceOf[c]], c)

\* A source's mutex queues live calls on that source, each once.
SourceLive ==
    \A s \in Sources : \A i \in 1..Len(sourceLock[s]) :
        /\ pc[sourceLock[s][i]] \notin {"idle", "reserved", "done"}
        /\ SourceOf[sourceLock[s][i]] = s
        /\ \A j \in 1..Len(sourceLock[s]) :
              sourceLock[s][i] = sourceLock[s][j] => i = j

\* A turn is given up by a call that ended or was aborted.
ReleasedOver ==
    \A c \in released : pc[c] \in {"leave", "done"} \/ c \in aborted

\* Nothing is aborted before it starts.
AbortedLive == \A c \in aborted : pc[c] # "idle"

\* Past the wait for its turn, every earlier turn is over.
TurnTaken ==
    \A c \in Queued : pc[c] \in {"waitProject", "write"} => PredecessorDone(c)

\* Turns of calls whose task has not been started are not handed out.
TurnsStarted == \A i \in 1..Len(turns) : pc[turns[i]] # "idle"

\* Every queued call reserves once.
TurnsOnce == \A i, j \in 1..Len(turns) : turns[i] = turns[j] => i = j

\* Tasks leave the save after reserve() in the order of their turns.
SavesInOrder ==
    \A c, d \in Queued :
        (Before(d, c) /\ pc[d] = "reserved") => pc[c] = "reserved"

\* When a call's changes are in the wiki, all earlier turns are closed.
WrittenInOrder ==
    \A c \in wiki :
        /\ pc[c] \in {"leave", "done"}
        /\ \A d \in Queued : (c \in Queued /\ Before(d, c)) => d \in Closed

PipelineInv ==
    /\ TypeOK /\ WriterHolds /\ ViewFresh /\ SourceHeld /\ SourceLive
    /\ ReleasedOver /\ AbortedLive /\ TurnTaken /\ TurnsStarted
    /\ TurnsOnce /\ SavesInOrder
    /\ WrittenInOrder /\ SourceBeforeTurn
=============================================================================
