---------------------------- MODULE ProjectSwitch ----------------------------
(***************************************************************************)
(* Opening, closing and switching projects in the desktop app              *)
(* (handleProjectOpened and handleSwitchProject of src/App.tsx,            *)
(* src/lib/reset-project-state.ts) against the debounced saves of the      *)
(* project's stores (src/lib/auto-save.ts, src/lib/persist.ts).            *)
(*                                                                         *)
(* There is one set of stores and one flag `suspended` for all projects.   *)
(* A call of one of the two handlers goes through flush, reset, the new    *)
(* project, its settings and queue, its chats, and, after it has resumed   *)
(* the saves, its reviews; between any two of these steps the user and the *)
(* ingests change the stores.  Two calls may overlap: the welcome screen   *)
(* is there until the project is set, the project's screen from then on,   *)
(* though it is still being loaded.                                        *)
(*                                                                         *)
(* The store "review" stands for the lint items too: they are saved,       *)
(* cleared and loaded at the same places.                                  *)
(***************************************************************************)
EXTENDS Naturals

CONSTANTS
    Projects, None,
    Reviews,        \* review items
    Chats,          \* conversations, each with a message
    Starts,         \* how a session may start: for the items there may be,
                    \* whose file has it, if any, and the project that is open
    Calls,          \* bound: calls of the handlers at the same time
    MaxClicks,      \* bound: calls of the handlers
    Runs            \* bound: ingests that commit at the same time

Items == Reviews \cup Chats
Stores == {"review", "chat"}
Of(s) == IF s = "review" THEN Reviews ELSE Chats

ASSUME SwitchAssumption ==
    /\ Projects # {} /\ None \notin Projects \cup Items
    /\ Reviews \cap Chats = {}
    /\ \A start \in Starts :
           /\ start.open \in Projects \cup {None}
           /\ DOMAIN start.home \subseteq Items
           /\ start.home \in [DOMAIN start.home -> Projects \cup {None}]
    /\ MaxClicks \in Nat

VARIABLES
    project,        \* useWikiStore's project
    mem,            \* the items in the stores
    active,         \* activeConversationId
    streaming,      \* isStreaming
    suspended,      \* suspended
    timer,          \* reviewTimer and chatTimer with what they will save
    calls,          \* how far the calls of the handlers are
    queue,          \* currentProjectId of the ingest queue
    ingest,         \* ingests that commit: their project, and whether they
                    \* are runs of the queue, aborted ones included
    disk,           \* review.json and conversations.json
    files,          \* chats/<id>.json
    clicks,         \* bookkeeping: calls begun
    home,           \* bookkeeping: the project an item was made for
    removed,        \* bookkeeping: items the user removed
    strays,         \* bookkeeping: items put in the stores of another project
    odd             \* bookkeeping: what has overlapped a call

ui == <<project, mem, active, streaming, suspended, timer>>
files_ == <<disk, files>>
work == <<queue, ingest>>
notes == <<clicks, home, removed, strays, odd>>
vars == <<ui, calls, work, files_, notes>>

-----------------------------------------------------------------------------
NoTimer == [proj |-> None, items |-> {}]
Nothing == [s \in Stores |-> {}]

\* from, saves, held: the project, stores and items a flush saves; before: the
\* conversation that was active when the history was asked for; got: what was
\* loaded.
Call == [pc: {"idle", "begin", "flush", "pausing", "config", "restore", "chat",
              "hydrate", "side", "fill"},
         target: Projects \cup {None}, from: Projects \cup {None},
         saves: SUBSET Stores, held: [Stores -> SUBSET Items],
         before: Chats \cup {None}, got: SUBSET Items]
NoCall == [pc |-> "idle", target |-> None, from |-> None, saves |-> {},
           held |-> Nothing, before |-> None, got |-> {}]

NoIngest == [proj |-> None, kind |-> "none"]

\* A timer keeps the project and the items of the moment it is set.
TimerAlways(p, items) == [proj |-> p, items |-> items]       \* mutant
Timer(p, items) == IF p = None THEN NoTimer ELSE [proj |-> p, items |-> items]

Init ==
    /\ \E start \in Starts :
           /\ home = start.home /\ project = start.open
           /\ disk = [p \in Projects |-> [s \in Stores |->
                  {i \in Of(s) \cap DOMAIN home : home[i] = p}]]
           /\ mem = IF project = None THEN Nothing ELSE disk[project]
           /\ active \in IF mem["chat"] = {} THEN {None} ELSE mem["chat"]
    /\ files = [p \in Projects |-> disk[p]["chat"]]
    /\ queue = project /\ ingest = [r \in Runs |-> NoIngest]
    /\ streaming = FALSE /\ suspended = FALSE
    /\ timer = [s \in Stores |-> NoTimer]
    /\ calls = [c \in Calls |-> NoCall]
    /\ clicks = 0 /\ removed = {} /\ strays = {} /\ odd = {}

\* The subscription to store s, whose items are now `items`: it sets its
\* timer anew, unless saves are suspended or an answer is being streamed.
Subscription(s, items, stream) ==
    IF suspended \/ (s = "chat" /\ stream) THEN timer[s] ELSE Timer(project, items)

Put(s, items, stream) ==
    /\ mem' = [mem EXCEPT ![s] = items]
    /\ timer' = [timer EXCEPT ![s] = Subscription(s, items, stream)]
    /\ streaming' = stream

\* An item that is added while some call has cleared the stores and not yet
\* set its project goes to the stores of the next project.
Clearing == \E c \in Calls : calls[c].pc = "pausing"
Calling == \E c \in Calls : calls[c].pc # "idle"
Unmade(i) == i \in DOMAIN home /\ home[i] = None
Strays(items, stray) == strays' = IF stray THEN strays \cup items ELSE strays
\* Overlapping calls excuse everything: nothing else is then noted.
Note(what, happened) ==
    odd' = IF ~happened \/ "crossed" \in odd THEN odd
           ELSE IF what = "crossed" THEN {what} ELSE odd \cup {what}

-----------------------------------------------------------------------------
(* The calls *)

\* The user picks a project on the welcome screen, or leaves the one he has:
\* a call whose target is None.
Click(c, p) ==
    /\ calls[c].pc = "idle" /\ clicks < MaxClicks
    /\ c = CHOOSE d \in Calls : calls[d].pc = "idle"
    /\ (p = None) <=> (project # None)
    /\ clicks' = clicks + 1
    /\ Note("crossed", Calling)
    /\ calls' = [calls EXCEPT ![c] = [NoCall EXCEPT !.pc = "begin", !.target = p]]
    /\ UNCHANGED <<ui, work, files_, home, removed, strays>>

\* flushAndSuspendAutoSave
FlushedStores ==
    IF project = None THEN {} ELSE {s \in Stores : s = "chat" => ~streaming}
FlushTo(sus, S, c) ==
    /\ calls[c].pc = "begin"
    /\ suspended' = sus
    /\ timer' = [s \in Stores |-> NoTimer]
    /\ calls' = [calls EXCEPT ![c].pc = "flush", ![c].from = project,
                             ![c].saves = S, ![c].held = mem]
    /\ Note("stream", project # None /\ streaming)
    /\ UNCHANGED <<project, mem, active, streaming, work, files_,
                   clicks, home, removed, strays>>
FlushArmed(c) == FlushTo(suspended, FlushedStores, c)       \* mutant
FlushNothing(c) == FlushTo(TRUE, {}, c)                     \* mutant
Flush(c) == FlushTo(TRUE, FlushedStores, c)

\* saveReviewItems, saveChatHistory: the stores in S of project p are saved.
SaveTo(p, S, items) ==
    /\ disk' = [disk EXCEPT ![p] = [s \in Stores |-> IF s \in S THEN items[s] ELSE @[s]]]
    /\ files' = [files EXCEPT ![p] = IF "chat" \in S THEN @ \cup items["chat"] ELSE @]

\* Its saves have ended; resetProjectState clears the stores, and pauseQueue
\* aborts the runs of the queue.
Reset(c) ==
    /\ calls[c].pc = "flush"
    /\ IF calls[c].from = None THEN UNCHANGED files_
       ELSE SaveTo(calls[c].from, calls[c].saves, calls[c].held)
    /\ mem' = Nothing /\ active' = None /\ streaming' = FALSE
    /\ timer' = [s \in Stores |-> Subscription(s, {}, FALSE)]
    /\ calls' = [calls EXCEPT ![c] =
           [NoCall EXCEPT !.pc = "pausing", !.target = calls[c].target]]
    /\ ingest' = [r \in Runs |-> IF ingest[r].kind = "queued"
                                THEN [ingest[r] EXCEPT !.kind = "aborted"] ELSE ingest[r]]
    /\ UNCHANGED <<project, suspended, queue, notes>>

\* pauseQueue has waited for the ingests that commit; the new project is set.
SetProject(c) ==
    /\ calls[c].pc = "pausing"
    /\ queue # None => \A r \in Runs : ingest[r].kind \notin {"queued", "aborted"}
    /\ queue' = None
    /\ project' = calls[c].target
    /\ calls' = [calls EXCEPT ![c] =
           IF calls[c].target = None THEN NoCall ELSE [calls[c] EXCEPT !.pc = "config"]]
    /\ UNCHANGED <<mem, active, streaming, suspended, timer, ingest, files_, notes>>

AlwaysCurrent(c) == TRUE                                    \* mutant
IsCurrentProject(c) == project = calls[c].target

\* The settings are loaded: the rest is skipped for a project that was left.
LoadConfig(c) ==
    /\ calls[c].pc = "config"
    /\ calls' = [calls EXCEPT ![c].pc = IF IsCurrentProject(c) THEN "restore" ELSE "side"]
    /\ suspended' = (suspended /\ IsCurrentProject(c))
    /\ UNCHANGED <<project, mem, active, streaming, timer, work, files_, notes>>

\* Or that fails: onFailure, then resume.
FailConfig(c) ==
    /\ calls[c].pc = "config"
    /\ project' = None
    /\ suspended' = FALSE
    /\ calls' = [calls EXCEPT ![c] = NoCall]
    /\ UNCHANGED <<mem, active, streaming, timer, work, files_, notes>>

\* restoreQueue, and the chat preferences: the chat store changes, though not
\* its conversations.  hydrateProjectChatStore begins.
RestoreQueue(c) ==
    /\ calls[c].pc = "restore"
    /\ queue' = calls[c].target
    /\ Put("chat", mem["chat"], streaming)
    /\ calls' = [calls EXCEPT ![c].pc = "chat", ![c].before = active]
    /\ UNCHANGED <<project, active, suspended, ingest, files_, notes>>

\* loadChatHistory: an empty list is rebuilt from the message files.
LoadChatHistory(p) == IF disk[p]["chat"] # {} THEN disk[p]["chat"] ELSE files[p]
ReadChat(c) ==
    /\ calls[c].pc = "chat"
    /\ calls' = [calls EXCEPT ![c].pc = "hydrate", ![c].got = LoadChatHistory(calls[c].target)]
    /\ UNCHANGED <<ui, work, files_, notes>>

\* What was begun while the history was read is kept.  Then runWithSuspended-
\* AutoSave resumes.
Hydrated(c, sus) ==
    /\ calls[c].pc = "hydrate"
    /\ LET call == calls[c]
           changed == active # call.before
           kept == IF changed THEN mem["chat"] ELSE {}
       IN IF IsCurrentProject(c) /\ call.got # {}
          THEN /\ Put("chat", kept \cup call.got, streaming)
               /\ IF changed THEN active' = active ELSE active' \in call.got
               /\ Strays(call.got, Clearing)
          ELSE UNCHANGED <<mem, timer, streaming, active, strays>>
    /\ suspended' = sus
    /\ calls' = [calls EXCEPT ![c].pc = "side", ![c].before = None, ![c].got = {}]
    /\ UNCHANGED <<project, work, files_, clicks, home, removed, odd>>
HydrateSuspended(c) == Hydrated(c, suspended)               \* mutant
HydrateChat(c) == Hydrated(c, FALSE)

\* hydrateProjectSideStores: loaded reviews replace the ones in the store.
ReadSide(c) ==
    /\ calls[c].pc = "side"
    /\ calls' = [calls EXCEPT ![c].pc = "fill", ![c].got = disk[calls[c].target]["review"]]
    /\ UNCHANGED <<ui, work, files_, notes>>

HydrateSide(c) ==
    /\ calls[c].pc = "fill"
    /\ IF IsCurrentProject(c) /\ calls[c].got # {}
       THEN Put("review", calls[c].got, streaming) /\ Strays(calls[c].got, Clearing)
       ELSE UNCHANGED <<mem, timer, streaming, strays>>
    /\ calls' = [calls EXCEPT ![c] = NoCall]
    /\ UNCHANGED <<project, active, suspended, work, files_, clicks, home, removed, odd>>

-----------------------------------------------------------------------------
(* The user and the ingests *)

\* createConversation
CreateConversation(i) ==
    /\ project # None /\ Unmade(i)
    /\ home' = [home EXCEPT ![i] = project]
    /\ Put("chat", mem["chat"] \cup {i}, FALSE)
    /\ active' = i
    /\ Strays({i}, Clearing) /\ Note("chat", Calling)
    /\ UNCHANGED <<project, suspended, calls, work, files_, clicks, removed>>

\* setStreaming, finalizeStream
StartStream ==
    /\ project # None /\ active # None /\ ~streaming
    /\ Put("chat", mem["chat"], TRUE)
    /\ UNCHANGED <<project, active, suspended, calls, work, files_, notes>>

FinalizeStream ==
    /\ streaming
    /\ Put("chat", mem["chat"], FALSE)
    /\ UNCHANGED <<project, active, suspended, calls, work, files_, notes>>

\* deleteConversation and the deletion of its file.
DeleteConversation(i) ==
    /\ project # None /\ i \in mem["chat"]
    /\ Put("chat", mem["chat"] \ {i}, streaming)
    /\ IF active # i THEN UNCHANGED active
       ELSE IF mem["chat"] = {i} THEN active' = None
       ELSE active' \in mem["chat"] \ {i}
    /\ files' = [files EXCEPT ![project] = @ \ {i}]
    /\ removed' = removed \cup {i}
    /\ UNCHANGED <<project, suspended, calls, work, disk, clicks, home, strays, odd>>

DismissItem(i) ==
    /\ project # None /\ i \in mem["review"]
    /\ Put("review", mem["review"] \ {i}, streaming)
    /\ removed' = removed \cup {i}
    /\ UNCHANGED <<project, active, suspended, calls, work, files_, clicks, home, strays, odd>>

\* A run of the queue begins to commit, or an ingest that was called directly.
\* Bound: only while it may have a review item left to add.
BeginCommit(r, kind) ==
    /\ ingest[r] = NoIngest /\ \E i \in Reviews : Unmade(i)
    /\ IF kind = "queued" THEN queue # None /\ ~Clearing ELSE project # None
    /\ ingest' = [ingest EXCEPT ![r] =
           [proj |-> IF kind = "queued" THEN queue ELSE project, kind |-> kind]]
    /\ UNCHANGED <<ui, calls, queue, files_, notes>>

\* It ends with a review item for the store as it is now, unless it was
\* aborted, or with none.
EndCommit(r, i) ==
    /\ ingest[r].kind \in {"queued", "direct"} /\ Unmade(i)
    /\ ingest' = [ingest EXCEPT ![r] = NoIngest]
    /\ home' = [home EXCEPT ![i] = ingest[r].proj]
    /\ Put("review", mem["review"] \cup {i}, streaming)
    /\ Strays({i}, Clearing \/ project # ingest[r].proj) /\ Note("review", Calling)
    /\ UNCHANGED <<project, active, suspended, calls, queue, files_, clicks, removed>>

EndCommitPlain(r) ==
    /\ ingest[r] # NoIngest
    /\ ingest' = [ingest EXCEPT ![r] = NoIngest]
    /\ UNCHANGED <<ui, calls, queue, files_, notes>>

-----------------------------------------------------------------------------
(* Timers *)

\* A debounced save ends before any later save or load of its file begins.
FireTimer(s) ==
    /\ timer[s] # NoTimer
    /\ SaveTo(timer[s].proj, {s}, [mem EXCEPT ![s] = timer[s].items])
    /\ timer' = [timer EXCEPT ![s] = NoTimer]
    /\ UNCHANGED <<project, mem, active, streaming, suspended, calls, work, notes>>

-----------------------------------------------------------------------------
CallStep(c) ==
    \/ Flush(c) \/ Reset(c) \/ SetProject(c)
    \/ LoadConfig(c) \/ FailConfig(c) \/ RestoreQueue(c)
    \/ ReadChat(c) \/ HydrateChat(c) \/ ReadSide(c) \/ HydrateSide(c)

EndOf(r) == EndCommitPlain(r) \/ \E i \in Reviews : EndCommit(r, i)

Next ==
    \/ \E c \in Calls : CallStep(c) \/ \E p \in Projects \cup {None} : Click(c, p)
    \/ \E i \in Chats : CreateConversation(i) \/ DeleteConversation(i)
    \/ StartStream \/ FinalizeStream
    \/ \E i \in Reviews : DismissItem(i)
    \/ \E r \in Runs : EndOf(r) \/ \E kind \in {"queued", "direct"} : BeginCommit(r, kind)
    \/ \E s \in Stores : FireTimer(s)

Spec == Init /\ [][Next]_vars

\* Files are read and written, settings are loaded, a commit ends and timers
\* fire; nobody has to click, write or delete.
FairSpec ==
    /\ Spec
    /\ \A c \in Calls : WF_vars(CallStep(c))
    /\ \A r \in Runs : WF_vars(EndOf(r))
    /\ \A s \in Stores : WF_vars(FireTimer(s))

-----------------------------------------------------------------------------
(* Properties *)

StoresTyped ==
    /\ project \in Projects \cup {None} /\ queue \in Projects \cup {None}
    /\ mem \in [Stores -> SUBSET Items] /\ \A s \in Stores : mem[s] \subseteq Of(s)
    /\ active \in Chats \cup {None}
    /\ streaming \in BOOLEAN /\ suspended \in BOOLEAN
TimersTyped ==
    /\ timer \in [Stores -> [proj: Projects \cup {None}, items: SUBSET Items]]
    /\ \A s \in Stores : /\ timer[s].items \subseteq Of(s)
                         /\ timer[s].proj = None => timer[s] = NoTimer
CallTyped(call) ==
    /\ call \in Call
    /\ \A s \in Stores : call.held[s] \subseteq Of(s)
    /\ call.pc \in {"config", "restore", "chat", "hydrate", "side", "fill"}
           => call.target \in Projects
    /\ call.pc = "hydrate" => call.got \subseteq Chats
    /\ call.pc = "fill" => call.got \subseteq Reviews
CallsTyped == calls \in [Calls -> Call] /\ \A c \in Calls : CallTyped(calls[c])
IngestTyped ==
    ingest \in [Runs -> {NoIngest} \cup [proj: Projects, kind: {"queued", "direct", "aborted"}]]
FilesTyped ==
    /\ disk \in [Projects -> [Stores -> SUBSET Items]]
    /\ \A p \in Projects, s \in Stores : disk[p][s] \subseteq Of(s)
    /\ files \in [Projects -> SUBSET Chats]
NotesTyped ==
    /\ home \in [DOMAIN home -> Projects \cup {None}] /\ DOMAIN home \subseteq Items
    /\ removed \subseteq Items /\ strays \subseteq Items
    /\ odd \subseteq {"crossed", "review", "chat", "stream"}
    /\ clicks \in 0..MaxClicks

\* Every variable keeps its type: a timer that is set has a project to save
\* to, the stores and files hold items of their kind, and a call that loads a
\* project has one.
TypeOK ==
    /\ StoresTyped /\ TimersTyped /\ CallsTyped
    /\ IngestTyped /\ FilesTyped /\ NotesTyped

\* No timer, flush or late load brings an item of one project into the files
\* of another, however the calls overlap: only what was put into the stores
\* after a call cleared them, or by a direct ingest whose project is closed,
\* gets there (reset-project-state.ts: "prevent cross-project data contamination").
OwnItems ==
    \A p \in Projects, s \in Stores :
        \A i \in disk[p][s] \ strays : home[i] = p

\* As long as no two calls overlap, an item leaves its file only when the user
\* removes it: the flush and the suspended saves keep the cleared stores from
\* being written, and the chats are loaded before saves resume, also when a
\* conversation is begun meanwhile.  For reviews, which are loaded after, this
\* takes that none is added before.
NothingWiped ==
    [][\A p \in Projects, s \in Stores : \A i \in disk[p][s] \ disk'[p][s] :
           i \in removed \/ "crossed" \in odd \/ s \in odd]_vars

\* Without that proviso: a project's reviews survive every switch of projects,
\* as the comment on `suspended` in auto-save.ts has it.
ReviewsSurvive ==
    [][\A p \in Projects : \A i \in disk[p]["review"] \ disk'[p]["review"] :
           i \in removed]_vars

\* Saves are suspended only while a call is under way: a project that is open
\* is saved again in the end, whether its loading ended, failed, or was
\* overtaken by other calls.
AutoSaveResumes == []<>(~suspended \/ project = None)

\* Every item that is made for a project reaches its file, by its timer or by
\* the flush that clears that timer, unless it was added while a call was
\* under way or the flush met a streamed answer, which it does not save.
FileOf(i) == IF i \in Reviews THEN "review" ELSE "chat"
Unsaved == {i \in DOMAIN home : /\ home[i] # None
                               /\ i \notin disk[home[i]][FileOf(i)]
                               /\ i \notin removed \cup strays}
EveryItemSaved == []<>(Unsaved = {} \/ odd # {})
=============================================================================
