------------------------- MODULE ProjectSwitchProofs -------------------------
(***************************************************************************)
(* Type correctness of the project switch, that no item gets into the      *)
(* files of another project, and that none is wiped from its own, for any  *)
(* number of projects, items, calls and ingests.                           *)
(***************************************************************************)
EXTENDS ProjectSwitch, TLAPS

UserStep ==
    \/ \E i \in Chats : CreateConversation(i) \/ DeleteConversation(i)
    \/ StartStream \/ FinalizeStream
    \/ \E i \in Reviews : DismissItem(i)

\* Next, with one case per kind of step.
LEMMA NextCases ==
    ASSUME Next
    PROVE  \/ \E c \in Calls, p \in Projects \cup {None} : Click(c, p)
           \/ \E c \in Calls : CallStep(c)
           \/ UserStep
           \/ \E r \in Runs, kind \in {"queued", "direct"} : BeginCommit(r, kind)
           \/ \E r \in Runs, i \in Reviews : EndCommit(r, i)
           \/ \E r \in Runs : EndCommitPlain(r)
           \/ \E s \in Stores : FireTimer(s)
  BY DEF Next, UserStep, EndOf

-----------------------------------------------------------------------------
(* Type correctness *)

LEMMA StoresFacts ==
    /\ "chat" \in Stores /\ "review" \in Stores
    /\ Of("chat") = Chats /\ Of("review") = Reviews
    /\ Chats \subseteq Items /\ Reviews \subseteq Items
    /\ \A s \in Stores : Of(s) \subseteq Items
    /\ Nothing \in [Stores -> SUBSET Items]
    /\ \A s \in Stores : Nothing[s] = {}
  BY DEF Stores, Of, Items, Nothing

LEMMA NoCallTyped ==
    /\ CallTyped(NoCall)
    /\ \A p \in Projects \cup {None}, pc \in {"begin", "flush", "pausing"} :
           CallTyped([NoCall EXCEPT !.pc = pc, !.target = p])
  BY StoresFacts, ZenonT(60) DEF CallTyped, NoCall, Call

\* The store operations keep the types of what they change.
LEMMA PutTyped ==
    ASSUME StoresTyped, TimersTyped, NEW s \in Stores, NEW items, items \subseteq Of(s),
           NEW stream \in BOOLEAN, Put(s, items, stream)
    PROVE  /\ mem' \in [Stores -> SUBSET Items]
           /\ \A x \in Stores : mem'[x] \subseteq Of(x)
           /\ TimersTyped'
           /\ streaming' \in BOOLEAN
<1>1. /\ Subscription(s, items, stream) \in [proj: Projects \cup {None}, items: SUBSET Items]
      /\ Subscription(s, items, stream).items \subseteq Of(s)
      /\ Subscription(s, items, stream).proj = None
            => Subscription(s, items, stream) = NoTimer
  BY StoresFacts DEF Subscription, Timer, StoresTyped, TimersTyped, NoTimer
<1> QED
  BY <1>1, StoresFacts DEF Put, StoresTyped, TimersTyped

LEMMA CallSet ==
    ASSUME CallsTyped, NEW c \in Calls, NEW call, CallTyped(call),
           calls' = [calls EXCEPT ![c] = call]
    PROVE  CallsTyped'
  BY DEF CallsTyped, CallTyped

LEMMA SaveTyped ==
    ASSUME FilesTyped, NEW p \in Projects, NEW S \in SUBSET Stores, NEW items,
           items \in [Stores -> SUBSET Items], \A s \in Stores : items[s] \subseteq Of(s),
           SaveTo(p, S, items)
    PROVE  FilesTyped'
<1>1. \A q \in Projects, s \in Stores : disk'[q][s] \subseteq Of(s)
  BY DEF FilesTyped, SaveTo
<1>2. disk' \in [Projects -> [Stores -> SUBSET Items]]
  BY DEF FilesTyped, SaveTo
<1>3. files' \in [Projects -> SUBSET Chats]
  BY StoresFacts DEF FilesTyped, SaveTo
<1> QED
  BY <1>1, <1>2, <1>3 DEF FilesTyped

LEMMA FlushTyped ==
    ASSUME TypeOK, NEW c \in Calls, Flush(c)
    PROVE  TypeOK'
<1>1. UNCHANGED <<project, mem, active, streaming, queue, ingest, disk, files,
                  clicks, home, removed, strays>>
  BY DEF Flush, FlushTo, work, files_
<1>2. StoresTyped'
  BY <1>1 DEF Flush, FlushTo, TypeOK, StoresTyped
<1>3. TimersTyped'
  BY StoresFacts DEF Flush, FlushTo, TypeOK, TimersTyped, NoTimer
<1>4. CallsTyped'
  <2> DEFINE call == [calls[c] EXCEPT !.pc = "flush", !.from = project,
                                      !.saves = FlushedStores, !.held = mem]
  <2>1. calls' = [calls EXCEPT ![c] = call]
    BY DEF Flush, FlushTo, TypeOK, CallsTyped
  <2>2. CallTyped(call)
    BY ZenonT(60) DEF TypeOK, CallsTyped, CallTyped, Call, StoresTyped, FlushedStores
  <2> QED
    BY <2>1, <2>2, CallSet DEF TypeOK
<1>5. NotesTyped'
  BY <1>1 DEF Flush, FlushTo, Note, TypeOK, NotesTyped
<1> QED
  BY <1>1, <1>2, <1>3, <1>4, <1>5 DEF TypeOK, IngestTyped, FilesTyped

LEMMA ResetTyped ==
    ASSUME TypeOK, NEW c \in Calls, Reset(c)
    PROVE  TypeOK'
<1>1. UNCHANGED <<project, suspended, queue, clicks, home, removed, strays, odd>>
  BY DEF Reset, notes
<1>2. StoresTyped'
  BY <1>1, StoresFacts DEF Reset, TypeOK, StoresTyped
<1>3. TimersTyped'
  BY StoresFacts DEF Reset, Subscription, Timer, NoTimer, TypeOK, StoresTyped, TimersTyped
<1>4. CallsTyped'
  <2>1. calls[c].target \in Projects \cup {None}
    BY DEF TypeOK, CallsTyped, Call
  <2> QED
    BY <2>1, CallSet, NoCallTyped DEF Reset, TypeOK
<1>5. IngestTyped'
  BY DEF Reset, TypeOK, IngestTyped, NoIngest
<1>6. FilesTyped'
  <2>1. CASE calls[c].from = None
    BY <2>1 DEF Reset, TypeOK, files_, FilesTyped
  <2>2. CASE calls[c].from # None
    <3>1. /\ calls[c].from \in Projects /\ calls[c].saves \in SUBSET Stores
          /\ calls[c].held \in [Stores -> SUBSET Items]
          /\ \A s \in Stores : calls[c].held[s] \subseteq Of(s)
      BY <2>2 DEF TypeOK, CallsTyped, CallTyped, Call
    <3> QED
      BY <2>2, <3>1, SaveTyped DEF Reset, TypeOK
  <2> QED
    BY <2>1, <2>2
<1> QED
  BY <1>1, <1>2, <1>3, <1>4, <1>5, <1>6 DEF TypeOK, NotesTyped

LEMMA FireTyped ==
    ASSUME TypeOK, NEW s \in Stores, FireTimer(s)
    PROVE  TypeOK'
<1>1. UNCHANGED <<project, mem, active, streaming, suspended, calls, queue, ingest,
                  clicks, home, removed, strays, odd>>
  BY DEF FireTimer, work, notes
<1>2. timer[s].proj \in Projects /\ timer[s].items \subseteq Of(s) /\ timer[s].items \subseteq Items
  BY DEF FireTimer, TypeOK, TimersTyped
<1>3. TimersTyped'
  BY StoresFacts DEF FireTimer, TypeOK, TimersTyped, NoTimer
<1>4. FilesTyped'
  <2> DEFINE items == [mem EXCEPT ![s] = timer[s].items]
  <2>1. items \in [Stores -> SUBSET Items] /\ \A x \in Stores : items[x] \subseteq Of(x)
    BY <1>2 DEF TypeOK, StoresTyped
  <2> HIDE DEF items
  <2>2. SaveTo(timer[s].proj, {s}, items)
    BY DEF FireTimer, items
  <2> QED
    BY <1>2, <2>1, <2>2, SaveTyped DEF TypeOK
<1> QED
  BY <1>1, <1>3, <1>4
  DEF TypeOK, StoresTyped, CallsTyped, CallTyped, IngestTyped, NotesTyped

LEMMA SetProjectTyped ==
    ASSUME TypeOK, NEW c \in Calls, SetProject(c)
    PROVE  TypeOK'
<1>1. UNCHANGED <<mem, active, streaming, suspended, timer, ingest, disk, files,
                  clicks, home, removed, strays, odd>>
  BY DEF SetProject, files_, notes
<1>2. CallTyped(calls[c])
  BY DEF TypeOK, CallsTyped
<1>3. StoresTyped'
  BY <1>1, <1>2 DEF SetProject, TypeOK, StoresTyped, CallTyped, Call
<1>4. CallsTyped'
  <2>1. CASE calls[c].target = None
    BY <2>1, NoCallTyped, CallSet DEF SetProject, TypeOK
  <2>2. CASE calls[c].target # None
    <3> DEFINE call == [calls[c] EXCEPT !.pc = "config"]
    <3>1. CallTyped(call)
      BY <1>2, <2>2 DEF CallTyped, Call
    <3>2. calls' = [calls EXCEPT ![c] = call]
      BY <2>2 DEF SetProject, TypeOK, CallsTyped
    <3> QED
      BY <3>1, <3>2, CallSet DEF TypeOK
  <2> QED
    BY <2>1, <2>2
<1> QED
  BY <1>1, <1>3, <1>4 DEF TypeOK, TimersTyped, IngestTyped, FilesTyped, NotesTyped

LEMMA ConfigTyped ==
    ASSUME TypeOK, NEW c \in Calls, LoadConfig(c) \/ FailConfig(c)
    PROVE  TypeOK'
<1>1. UNCHANGED <<mem, active, streaming, timer, queue, ingest, disk, files,
                  clicks, home, removed, strays, odd>>
  BY DEF LoadConfig, FailConfig, work, files_, notes
<1>2. CallTyped(calls[c])
  BY DEF TypeOK, CallsTyped
<1>3. StoresTyped'
  BY <1>1 DEF LoadConfig, FailConfig, TypeOK, StoresTyped
<1>4. CallsTyped'
  <2>1. CASE LoadConfig(c)
    <3> DEFINE call == [calls[c] EXCEPT !.pc = IF IsCurrentProject(c) THEN "restore" ELSE "side"]
    <3>1. CallTyped(call)
      BY <1>2, <2>1 DEF LoadConfig, CallTyped, Call
    <3>2. calls' = [calls EXCEPT ![c] = call]
      BY <2>1 DEF LoadConfig, TypeOK, CallsTyped
    <3> QED
      BY <3>1, <3>2, CallSet DEF TypeOK
  <2>2. CASE FailConfig(c)
    BY <2>2, NoCallTyped, CallSet DEF FailConfig, TypeOK
  <2> QED
    BY <2>1, <2>2
<1> QED
  BY <1>1, <1>3, <1>4 DEF TypeOK, TimersTyped, IngestTyped, FilesTyped, NotesTyped

LEMMA RestoreTyped ==
    ASSUME TypeOK, NEW c \in Calls, RestoreQueue(c)
    PROVE  TypeOK'
<1>1. UNCHANGED <<project, active, suspended, ingest, disk, files,
                  clicks, home, removed, strays, odd>>
  BY DEF RestoreQueue, files_, notes
<1>2. CallTyped(calls[c])
  BY DEF TypeOK, CallsTyped
<1>3. StoresTyped' /\ TimersTyped'
  <2>1. /\ Put("chat", mem["chat"], streaming)
        /\ mem["chat"] \subseteq Of("chat") /\ streaming \in BOOLEAN
    BY StoresFacts DEF RestoreQueue, TypeOK, StoresTyped
  <2> HIDE DEF Put
  <2>2. /\ mem' \in [Stores -> SUBSET Items] /\ \A x \in Stores : mem'[x] \subseteq Of(x)
        /\ TimersTyped' /\ streaming' \in BOOLEAN
    BY <2>1, StoresFacts, PutTyped DEF TypeOK
  <2> QED
    BY <1>1, <1>2, <2>2 DEF RestoreQueue, TypeOK, StoresTyped, CallTyped
<1>4. CallsTyped'
  <2> DEFINE call == [calls[c] EXCEPT !.pc = "chat", !.before = active]
  <2>1. CallTyped(call)
    BY <1>2 DEF RestoreQueue, CallTyped, Call, TypeOK, StoresTyped
  <2>2. calls' = [calls EXCEPT ![c] = call]
    BY DEF RestoreQueue, TypeOK, CallsTyped
  <2> QED
    BY <2>1, <2>2, CallSet DEF TypeOK
<1> QED
  BY <1>1, <1>3, <1>4 DEF TypeOK, IngestTyped, FilesTyped, NotesTyped

LEMMA ReadTyped ==
    ASSUME TypeOK, NEW c \in Calls, ReadChat(c) \/ ReadSide(c)
    PROVE  TypeOK'
<1>1. UNCHANGED <<project, mem, active, streaming, suspended, timer, queue, ingest,
                  disk, files, clicks, home, removed, strays, odd>>
  BY DEF ReadChat, ReadSide, ui, work, files_, notes
<1>2. CallTyped(calls[c]) /\ calls[c] \in Call
  BY DEF TypeOK, CallsTyped
<1>3. CallsTyped'
  <2>1. CASE ReadChat(c)
    <3> DEFINE call == [calls[c] EXCEPT !.pc = "hydrate", !.got = LoadChatHistory(calls[c].target)]
    <3>1. calls[c].target \in Projects
      BY <1>2, <2>1 DEF ReadChat, CallTyped
    <3>2. LoadChatHistory(calls[c].target) \subseteq Chats
      BY <3>1, StoresFacts DEF LoadChatHistory, TypeOK, FilesTyped
    <3>3. CallTyped(call)
      BY <1>2, <3>1, <3>2, StoresFacts DEF CallTyped, Call
    <3>4. calls' = [calls EXCEPT ![c] = call]
      BY <2>1 DEF ReadChat, TypeOK, CallsTyped
    <3> QED
      BY <3>3, <3>4, CallSet DEF TypeOK
  <2>2. CASE ReadSide(c)
    <3> DEFINE call == [calls[c] EXCEPT !.pc = "fill", !.got = disk[calls[c].target]["review"]]
    <3>1. calls[c].target \in Projects
      BY <1>2, <2>2 DEF ReadSide, CallTyped
    <3>2. disk[calls[c].target]["review"] \subseteq Reviews
      BY <3>1, StoresFacts DEF TypeOK, FilesTyped
    <3>3. CallTyped(call)
      BY <1>2, <3>1, <3>2, StoresFacts DEF CallTyped, Call
    <3>4. calls' = [calls EXCEPT ![c] = call]
      BY <2>2 DEF ReadSide, TypeOK, CallsTyped
    <3> QED
      BY <3>3, <3>4, CallSet DEF TypeOK
  <2> QED
    BY <2>1, <2>2
<1> QED
  BY <1>1, <1>3 DEF TypeOK, StoresTyped, TimersTyped, IngestTyped, FilesTyped, NotesTyped

LEMMA HydrateChatTyped ==
    ASSUME TypeOK, NEW c \in Calls, HydrateChat(c)
    PROVE  TypeOK'
<1>1. UNCHANGED <<project, queue, ingest, disk, files, clicks, home, removed, odd>>
  BY DEF HydrateChat, Hydrated, work, files_
<1>2. CallTyped(calls[c]) /\ calls[c].got \subseteq Chats /\ calls[c].target \in Projects
  BY DEF HydrateChat, Hydrated, TypeOK, CallsTyped, CallTyped
<1> DEFINE kept == IF active # calls[c].before THEN mem["chat"] ELSE {}
           Fills == IsCurrentProject(c) /\ calls[c].got # {}
<1>3. /\ mem' \in [Stores -> SUBSET Items] /\ \A x \in Stores : mem'[x] \subseteq Of(x)
      /\ TimersTyped' /\ streaming' \in BOOLEAN
      /\ active' \in Chats \cup {None} /\ strays' \subseteq Items
  <2>1. CASE Fills
    <3>1. /\ Put("chat", kept \cup calls[c].got, streaming)
          /\ active' = active \/ active' \in calls[c].got
          /\ Strays(calls[c].got, Clearing)
      BY <2>1 DEF HydrateChat, Hydrated
    <3>2. kept \cup calls[c].got \subseteq Of("chat") /\ streaming \in BOOLEAN
      BY <1>2, StoresFacts DEF TypeOK, StoresTyped
    <3>3. /\ mem' \in [Stores -> SUBSET Items] /\ \A x \in Stores : mem'[x] \subseteq Of(x)
          /\ TimersTyped' /\ streaming' \in BOOLEAN
      BY <3>1, <3>2, StoresFacts, PutTyped DEF TypeOK
    <3>4. active' \in Chats \cup {None} /\ strays' \subseteq Items
      BY <1>2, <3>1, StoresFacts DEF Strays, TypeOK, StoresTyped, NotesTyped
    <3> QED
      BY <3>3, <3>4
  <2>2. CASE ~Fills
    <3>1. UNCHANGED <<mem, timer, streaming, active, strays>>
      BY <2>2 DEF HydrateChat, Hydrated
    <3> QED
      BY <3>1 DEF TypeOK, StoresTyped, TimersTyped, NotesTyped
  <2> QED
    BY <2>1, <2>2
<1>4. StoresTyped'
  BY <1>1, <1>3 DEF HydrateChat, Hydrated, TypeOK, StoresTyped
<1>5. CallsTyped'
  <2> DEFINE call == [calls[c] EXCEPT !.pc = "side", !.before = None, !.got = {}]
  <2>1. CallTyped(call)
    BY <1>2 DEF CallTyped, Call
  <2>2. calls' = [calls EXCEPT ![c] = call]
    BY DEF HydrateChat, Hydrated, TypeOK, CallsTyped
  <2> QED
    BY <2>1, <2>2, CallSet DEF TypeOK
<1> QED
  BY <1>1, <1>3, <1>4, <1>5 DEF TypeOK, IngestTyped, FilesTyped, NotesTyped

LEMMA HydrateSideTyped ==
    ASSUME TypeOK, NEW c \in Calls, HydrateSide(c)
    PROVE  TypeOK'
<1>1. UNCHANGED <<project, active, suspended, queue, ingest, disk, files,
                  clicks, home, removed, odd>>
  BY DEF HydrateSide, work, files_
<1>2. calls[c].got \subseteq Reviews
  BY DEF HydrateSide, TypeOK, CallsTyped, CallTyped
<1>3. /\ mem' \in [Stores -> SUBSET Items] /\ \A x \in Stores : mem'[x] \subseteq Of(x)
      /\ TimersTyped' /\ streaming' \in BOOLEAN /\ strays' \subseteq Items
  <2>1. CASE Put("review", calls[c].got, streaming) /\ Strays(calls[c].got, Clearing)
    <3>1. /\ mem' \in [Stores -> SUBSET Items] /\ \A x \in Stores : mem'[x] \subseteq Of(x)
          /\ TimersTyped' /\ streaming' \in BOOLEAN
      BY <1>2, <2>1, StoresFacts, PutTyped DEF TypeOK, StoresTyped
    <3>2. strays' \subseteq Items
      BY <1>2, <2>1, StoresFacts DEF Strays, TypeOK, NotesTyped
    <3> QED
      BY <3>1, <3>2
  <2>2. CASE UNCHANGED <<mem, timer, streaming, strays>>
    BY <2>2 DEF TypeOK, StoresTyped, TimersTyped, NotesTyped
  <2> QED
    BY <2>1, <2>2 DEF HydrateSide
<1>4. StoresTyped'
  BY <1>1, <1>3 DEF TypeOK, StoresTyped
<1>5. CallsTyped'
  BY NoCallTyped, CallSet DEF HydrateSide, TypeOK
<1> QED
  BY <1>1, <1>3, <1>4, <1>5 DEF TypeOK, IngestTyped, FilesTyped, NotesTyped

\* Every step of a call keeps the types.
LEMMA CallStepTyped ==
    ASSUME TypeOK, NEW c \in Calls, CallStep(c)
    PROVE  TypeOK'
  BY FlushTyped, ResetTyped, SetProjectTyped, ConfigTyped, RestoreTyped, ReadTyped,
     HydrateChatTyped, HydrateSideTyped
  DEF CallStep

LEMMA ClickTyped ==
    ASSUME TypeOK, SwitchAssumption, NEW c \in Calls, NEW p \in Projects \cup {None}, Click(c, p)
    PROVE  TypeOK'
<1>1. UNCHANGED <<project, mem, active, streaming, suspended, timer, queue, ingest,
                  disk, files, home, removed, strays>>
  BY DEF Click, ui, work, files_
<1>2. CallsTyped'
  BY NoCallTyped, CallSet DEF Click, TypeOK
<1>3. NotesTyped'
  BY <1>1 DEF Click, Note, TypeOK, NotesTyped, SwitchAssumption
<1> QED
  BY <1>1, <1>2, <1>3 DEF TypeOK, StoresTyped, TimersTyped, IngestTyped, FilesTyped

LEMMA UserTyped ==
    ASSUME TypeOK, UserStep
    PROVE  TypeOK'
<1>1. CASE \E i \in Chats : CreateConversation(i)
  <2>1. PICK i \in Chats : CreateConversation(i)
    BY <1>1
  <2>2. UNCHANGED <<project, suspended, calls, queue, ingest, disk, files, clicks, removed>>
    BY <2>1 DEF CreateConversation, work, files_
  <2>3. /\ mem' \in [Stores -> SUBSET Items] /\ \A x \in Stores : mem'[x] \subseteq Of(x)
        /\ TimersTyped' /\ streaming' \in BOOLEAN
    <3>1. Put("chat", mem["chat"] \cup {i}, FALSE) /\ mem["chat"] \cup {i} \subseteq Of("chat")
      BY <2>1, StoresFacts DEF CreateConversation, TypeOK, StoresTyped
    <3> QED
      BY <3>1, StoresFacts, PutTyped DEF TypeOK
  <2>4. StoresTyped'
    BY <2>1, <2>2, <2>3 DEF CreateConversation, TypeOK, StoresTyped
  <2>5. NotesTyped'
    BY <2>1, <2>2, StoresFacts
    DEF CreateConversation, Unmade, Strays, Note, TypeOK, NotesTyped, StoresTyped
  <2> QED
    BY <2>2, <2>3, <2>4, <2>5 DEF TypeOK, CallsTyped, CallTyped, IngestTyped, FilesTyped
<1>2. CASE \E i \in Chats : DeleteConversation(i)
  <2>1. PICK i \in Chats : DeleteConversation(i)
    BY <1>2
  <2>2. UNCHANGED <<project, suspended, calls, queue, ingest, disk, clicks, home, strays, odd>>
    BY <2>1 DEF DeleteConversation, work
  <2>3. /\ mem' \in [Stores -> SUBSET Items] /\ \A x \in Stores : mem'[x] \subseteq Of(x)
        /\ TimersTyped' /\ streaming' \in BOOLEAN
    <3>1. /\ Put("chat", mem["chat"] \ {i}, streaming) /\ mem["chat"] \ {i} \subseteq Of("chat")
          /\ streaming \in BOOLEAN
      BY <2>1, StoresFacts DEF DeleteConversation, TypeOK, StoresTyped
    <3> QED
      BY <3>1, StoresFacts, PutTyped DEF TypeOK
  <2>4. active' \in Chats \cup {None}
    BY <2>1, StoresFacts DEF DeleteConversation, TypeOK, StoresTyped
  <2>5. FilesTyped'
    BY <2>1 DEF DeleteConversation, TypeOK, FilesTyped, StoresTyped
  <2>6. NotesTyped'
    BY <2>1, <2>2, StoresFacts DEF DeleteConversation, TypeOK, NotesTyped
  <2> QED
    BY <2>2, <2>3, <2>4, <2>5, <2>6 DEF TypeOK, StoresTyped, CallsTyped, CallTyped, IngestTyped
<1>3. CASE StartStream \/ FinalizeStream
  <2>1. UNCHANGED <<project, active, suspended, calls, queue, ingest, disk, files,
                    clicks, home, removed, strays, odd>>
    BY <1>3 DEF StartStream, FinalizeStream, work, files_, notes
  <2>2. PICK b \in BOOLEAN : Put("chat", mem["chat"], b)
    BY <1>3 DEF StartStream, FinalizeStream
  <2>3. mem["chat"] \subseteq Of("chat")
    BY StoresFacts DEF TypeOK, StoresTyped
  <2>4. /\ mem' \in [Stores -> SUBSET Items] /\ \A x \in Stores : mem'[x] \subseteq Of(x)
        /\ TimersTyped' /\ streaming' \in BOOLEAN
    BY <2>2, <2>3, StoresFacts, PutTyped DEF TypeOK
  <2> QED
    BY <2>1, <2>4
    DEF TypeOK, StoresTyped, CallsTyped, CallTyped, IngestTyped, FilesTyped, NotesTyped
<1>4. CASE \E i \in Reviews : DismissItem(i)
  <2>1. PICK i \in Reviews : DismissItem(i)
    BY <1>4
  <2>2. UNCHANGED <<project, active, suspended, calls, queue, ingest, disk, files,
                    clicks, home, strays, odd>>
    BY <2>1 DEF DismissItem, work, files_
  <2>3. /\ mem' \in [Stores -> SUBSET Items] /\ \A x \in Stores : mem'[x] \subseteq Of(x)
        /\ TimersTyped' /\ streaming' \in BOOLEAN
    <3>1. /\ Put("review", mem["review"] \ {i}, streaming)
          /\ mem["review"] \ {i} \subseteq Of("review")
          /\ streaming \in BOOLEAN
      BY <2>1, StoresFacts DEF DismissItem, TypeOK, StoresTyped
    <3> QED
      BY <3>1, StoresFacts, PutTyped DEF TypeOK
  <2>4. NotesTyped'
    BY <2>1, <2>2, StoresFacts DEF DismissItem, TypeOK, NotesTyped
  <2> QED
    BY <2>2, <2>3, <2>4 DEF TypeOK, StoresTyped, CallsTyped, CallTyped, IngestTyped, FilesTyped
<1> QED
  BY <1>1, <1>2, <1>3, <1>4 DEF UserStep

LEMMA IngestStepTyped ==
    ASSUME TypeOK, NEW r \in Runs,
           \/ \E kind \in {"queued", "direct"} : BeginCommit(r, kind)
           \/ \E i \in Reviews : EndCommit(r, i)
           \/ EndCommitPlain(r)
    PROVE  TypeOK'
<1>1. CASE \E kind \in {"queued", "direct"} : BeginCommit(r, kind)
  <2>1. PICK kind \in {"queued", "direct"} : BeginCommit(r, kind)
    BY <1>1
  <2>2. IngestTyped'
    BY <2>1 DEF BeginCommit, TypeOK, IngestTyped, StoresTyped
  <2>3. UNCHANGED <<ui, calls, queue, files_, notes>>
    BY <2>1 DEF BeginCommit
  <2> QED
    BY <2>2, <2>3
    DEF TypeOK, StoresTyped, TimersTyped, CallsTyped, CallTyped, FilesTyped, NotesTyped,
        ui, files_, notes
<1>2. CASE \E i \in Reviews : EndCommit(r, i)
  <2>1. PICK i \in Reviews : EndCommit(r, i)
    BY <1>2
  <2>2. UNCHANGED <<project, active, suspended, calls, queue, disk, files, clicks, removed>>
    BY <2>1 DEF EndCommit, files_
  <2>3. ingest[r].proj \in Projects
    BY <2>1 DEF EndCommit, NoIngest, TypeOK, IngestTyped
  <2>4. IngestTyped'
    BY <2>1 DEF EndCommit, TypeOK, IngestTyped
  <2>5. /\ mem' \in [Stores -> SUBSET Items] /\ \A x \in Stores : mem'[x] \subseteq Of(x)
        /\ TimersTyped' /\ streaming' \in BOOLEAN
    <3>1. /\ Put("review", mem["review"] \cup {i}, streaming)
          /\ mem["review"] \cup {i} \subseteq Of("review")
          /\ streaming \in BOOLEAN
      BY <2>1, StoresFacts DEF EndCommit, TypeOK, StoresTyped
    <3> QED
      BY <3>1, StoresFacts, PutTyped DEF TypeOK
  <2>6. NotesTyped'
    BY <2>1, <2>2, <2>3, StoresFacts DEF EndCommit, Unmade, Strays, Note, TypeOK, NotesTyped
  <2> QED
    BY <2>2, <2>4, <2>5, <2>6 DEF TypeOK, StoresTyped, CallsTyped, CallTyped, FilesTyped
<1>3. CASE EndCommitPlain(r)
  <2>1. IngestTyped'
    BY <1>3 DEF EndCommitPlain, TypeOK, IngestTyped
  <2>2. UNCHANGED <<ui, calls, queue, files_, notes>>
    BY <1>3 DEF EndCommitPlain
  <2> QED
    BY <2>1, <2>2
    DEF TypeOK, StoresTyped, TimersTyped, CallsTyped, CallTyped, FilesTyped, NotesTyped,
        ui, files_, notes
<1> QED
  BY <1>1, <1>2, <1>3

LEMMA InitTyped ==
    ASSUME SwitchAssumption, Init
    PROVE  TypeOK
<1>1. /\ home \in [DOMAIN home -> Projects \cup {None}] /\ DOMAIN home \subseteq Items
      /\ project \in Projects \cup {None}
  BY DEF Init, SwitchAssumption
<1>2. FilesTyped
  BY <1>1, StoresFacts DEF Init, FilesTyped
<1>3. mem \in [Stores -> SUBSET Items] /\ \A s \in Stores : mem[s] \subseteq Of(s)
  BY <1>1, <1>2, StoresFacts DEF Init, FilesTyped
<1>4. active \in Chats \cup {None}
  BY <1>3, StoresFacts DEF Init
<1>5. TimersTyped
  BY StoresFacts DEF Init, TimersTyped, NoTimer
<1>6. CallsTyped
  BY NoCallTyped DEF Init, CallsTyped, CallTyped
<1>7. StoresTyped
  BY <1>1, <1>3, <1>4 DEF Init, StoresTyped
<1>8. IngestTyped
  BY DEF Init, IngestTyped
<1>9. NotesTyped
  <2>1. removed = {} /\ strays = {} /\ odd = {} /\ clicks = 0
    BY DEF Init
  <2> QED
    BY <1>1, <2>1 DEF NotesTyped, SwitchAssumption
<1> QED
  BY <1>2, <1>5, <1>6, <1>7, <1>8, <1>9 DEF TypeOK

LEMMA NextTyped ==
    ASSUME SwitchAssumption, TypeOK, [Next]_vars
    PROVE  TypeOK'
<1>1. CASE Next
  BY <1>1, NextCases, ClickTyped, CallStepTyped, UserTyped, IngestStepTyped, FireTyped
<1>2. CASE UNCHANGED vars
  BY <1>2
  DEF vars, ui, work, files_, notes, TypeOK, StoresTyped, TimersTyped, CallsTyped, CallTyped,
      IngestTyped, FilesTyped, NotesTyped
<1> QED
  BY <1>1, <1>2

\* Every variable keeps its type, through every interleaving of the handlers'
\* steps, the user's, the ingests' and the timers'.
THEOREM SwitchTyping == Spec => []TypeOK
<1>1. Init => TypeOK
  BY SwitchAssumption, InitTyped
<1>2. TypeOK /\ [Next]_vars => TypeOK'
  BY SwitchAssumption, NextTyped
<1> QED
  BY <1>1, <1>2, PTL DEF Spec

-----------------------------------------------------------------------------
(* Items stay in the files of their project *)

\* The items of S were made for project p, unless they are strays.
Belongs(p, S) == \A i \in S \ strays : i \in DOMAIN home /\ home[i] = p

\* The stores hold the open project's items; what is put there from the moment
\* they are cleared until the next project is set are strays.
StoresOwn ==
    /\ project # None => \A s \in Stores : Belongs(project, mem[s])
    /\ Clearing => \A s \in Stores : mem[s] \subseteq strays
\* A timer, a flush and a load carry items of the project they name.
TimersOwn ==
    \A s \in Stores : timer[s].proj # None => Belongs(timer[s].proj, timer[s].items)
CallOwn(call) ==
    /\ call.from # None => \A s \in Stores : Belongs(call.from, call.held[s])
    /\ call.pc \in {"hydrate", "fill"} => Belongs(call.target, call.got)
CallsOwn == \A c \in Calls : CallOwn(calls[c])
FilesOwn ==
    \A p \in Projects : Belongs(p, files[p]) /\ \A s \in Stores : Belongs(p, disk[p][s])

SwitchInv == TypeOK /\ StoresOwn /\ TimersOwn /\ CallsOwn /\ FilesOwn

\* No step makes an item anew or takes a stray back.
Kept ==
    /\ strays \subseteq strays'
    /\ \A i \in DOMAIN home : home[i] # None => i \in DOMAIN home' /\ home'[i] = home[i]
\* Belongs and CallOwn, of the next state.
OwnNext(p, S) == \A i \in S \ strays' : i \in DOMAIN home' /\ home'[i] = p
CallOwnNext(call) ==
    /\ call.from # None => \A s \in Stores : OwnNext(call.from, call.held[s])
    /\ call.pc \in {"hydrate", "fill"} => OwnNext(call.target, call.got)

LEMMA BelongsKept ==
    ASSUME SwitchAssumption, Kept, NEW p \in Projects, NEW S, Belongs(p, S)
    PROVE  OwnNext(p, S)
  BY DEF SwitchAssumption, Kept, Belongs, OwnNext

LEMMA StoresOwnKept ==
    ASSUME SwitchAssumption, TypeOK, StoresOwn, Kept, UNCHANGED <<project, mem>>,
           Clearing' => Clearing
    PROVE  StoresOwn'
<1>1. ASSUME project # None, NEW s \in Stores
      PROVE  OwnNext(project, mem[s])
  BY <1>1, BelongsKept DEF StoresOwn, TypeOK, StoresTyped
<1>2. ASSUME Clearing, NEW s \in Stores
      PROVE  mem[s] \subseteq strays'
  BY <1>2 DEF StoresOwn, Kept
<1> QED
  BY <1>1, <1>2 DEF StoresOwn, OwnNext, Belongs

LEMMA TimersOwnKept ==
    ASSUME SwitchAssumption, TypeOK, TimersOwn, Kept, UNCHANGED timer
    PROVE  TimersOwn'
<1>1. ASSUME NEW s \in Stores, timer[s].proj # None
      PROVE  OwnNext(timer[s].proj, timer[s].items)
  <2>1. timer[s].proj \in Projects
    BY <1>1 DEF TypeOK, TimersTyped
  <2> QED
    BY <1>1, <2>1, BelongsKept DEF TimersOwn
<1> QED
  BY <1>1 DEF TimersOwn, OwnNext, Belongs

LEMMA FilesOwnKept ==
    ASSUME SwitchAssumption, TypeOK, FilesOwn, Kept, UNCHANGED <<disk, files>>
    PROVE  FilesOwn'
<1>1. ASSUME NEW p \in Projects
      PROVE  OwnNext(p, files[p]) /\ \A s \in Stores : OwnNext(p, disk[p][s])
  BY BelongsKept DEF FilesOwn
<1> QED
  BY <1>1 DEF FilesOwn, OwnNext, Belongs

LEMMA CallKept ==
    ASSUME SwitchAssumption, Kept, NEW call, CallTyped(call), CallOwn(call)
    PROVE  CallOwnNext(call)
<1>1. ASSUME call.from # None, NEW s \in Stores
      PROVE  OwnNext(call.from, call.held[s])
  <2>1. call.from \in Projects
    BY <1>1 DEF CallTyped, Call
  <2> QED
    BY <1>1, <2>1, BelongsKept DEF CallOwn
<1>2. ASSUME call.pc \in {"hydrate", "fill"}
      PROVE  OwnNext(call.target, call.got)
  BY <1>2, BelongsKept DEF CallOwn, CallTyped
<1> QED
  BY <1>1, <1>2 DEF CallOwnNext

LEMMA CallsOwnKept ==
    ASSUME SwitchAssumption, TypeOK, CallsOwn, Kept,
           \A c \in Calls : calls'[c] = calls[c] \/ CallOwnNext(calls'[c])
    PROVE  CallsOwn'
<1>1. ASSUME NEW c \in Calls
      PROVE  CallOwnNext(calls'[c])
  BY CallKept DEF TypeOK, CallsTyped, CallsOwn
<1> QED
  BY <1>1 DEF CallsOwn, CallOwn, CallOwnNext, OwnNext, Belongs

\* What is put into a store goes into its timer.
LEMMA PutOwn ==
    ASSUME SwitchAssumption, TypeOK, StoresOwn, TimersOwn, Kept, UNCHANGED project,
           Clearing' => Clearing,
           NEW s \in Stores, NEW items, NEW stream, Put(s, items, stream),
           project # None => OwnNext(project, items),
           Clearing => items \subseteq strays'
    PROVE  StoresOwn' /\ TimersOwn'
<1>1. /\ mem \in [Stores -> SUBSET Items]
      /\ timer \in [Stores -> [proj: Projects \cup {None}, items: SUBSET Items]]
  BY DEF TypeOK, StoresTyped, TimersTyped
<1>2. ASSUME NEW x \in Stores, project # None
      PROVE  OwnNext(project, mem'[x])
  <2>1. CASE x = s
    BY <1>1, <1>2, <2>1 DEF Put
  <2>2. CASE x # s
    <3>1. mem'[x] = mem[x] /\ project \in Projects /\ Belongs(project, mem[x])
      BY <1>1, <1>2, <2>2 DEF Put, TypeOK, StoresTyped, StoresOwn
    <3> QED
      BY <3>1, BelongsKept
  <2> QED
    BY <2>1, <2>2
<1>3. ASSUME NEW x \in Stores, Clearing
      PROVE  mem'[x] \subseteq strays'
  BY <1>1, <1>3 DEF Put, StoresOwn, Kept
<1>4. ASSUME NEW x \in Stores, timer'[x].proj # None
      PROVE  OwnNext(timer'[x].proj, timer'[x].items)
  <2>1. CASE timer'[x] = timer[x]
    <3>1. timer[x].proj \in Projects /\ Belongs(timer[x].proj, timer[x].items)
      BY <1>1, <1>4, <2>1 DEF TimersOwn
    <3> QED
      BY <2>1, <3>1, BelongsKept
  <2>2. CASE timer'[x] # timer[x]
    <3>1. timer'[x] = Timer(project, items)
      BY <1>1, <2>2 DEF Put, Subscription
    <3>2. project # None /\ timer'[x] = [proj |-> project, items |-> items]
      BY <1>4, <3>1 DEF Timer, NoTimer
    <3> QED
      BY <3>2
  <2> QED
    BY <2>1, <2>2
<1>5. StoresOwn'
  BY <1>2, <1>3 DEF StoresOwn, OwnNext, Belongs
<1>6. TimersOwn'
  BY <1>4 DEF TimersOwn, OwnNext, Belongs
<1> QED
  BY <1>5, <1>6

\* Each step keeps the items in the files of their project.
LEMMA ClickOwn ==
    ASSUME SwitchAssumption, SwitchInv, NEW c \in Calls, NEW p \in Projects \cup {None}, Click(c, p)
    PROVE  StoresOwn' /\ TimersOwn' /\ CallsOwn' /\ FilesOwn'
<1>1. Kept /\ UNCHANGED <<project, mem, timer, disk, files>>
  BY DEF Click, Kept, ui, files_
<1>2. calls \in [Calls -> Call]
  BY DEF SwitchInv, TypeOK, CallsTyped
<1>3. \A d \in Calls \ {c} : calls'[d] = calls[d]
  BY <1>2 DEF Click
<1>4. calls'[c].pc = "begin" /\ calls'[c].from = None
  BY <1>2 DEF Click, NoCall
<1>5. Clearing' => Clearing
  BY <1>3, <1>4 DEF Clearing
<1>6. CallOwnNext(calls'[c])
  BY <1>4 DEF CallOwnNext
<1> QED
  BY <1>1, <1>3, <1>5, <1>6, StoresOwnKept, TimersOwnKept, FilesOwnKept, CallsOwnKept DEF SwitchInv

LEMMA FlushOwn ==
    ASSUME SwitchAssumption, SwitchInv, NEW c \in Calls, Flush(c)
    PROVE  StoresOwn' /\ TimersOwn' /\ CallsOwn' /\ FilesOwn'
<1>1. Kept /\ UNCHANGED <<project, mem, disk, files, home, strays>>
  BY DEF Flush, FlushTo, Kept, files_
<1>2. calls \in [Calls -> Call]
  BY DEF SwitchInv, TypeOK, CallsTyped
<1>3. \A d \in Calls \ {c} : calls'[d] = calls[d]
  BY <1>2 DEF Flush, FlushTo
<1>4. calls'[c].pc = "flush" /\ calls'[c].from = project /\ calls'[c].held = mem
  BY <1>2 DEF Flush, FlushTo, Call
<1>5. Clearing' => Clearing
  BY <1>3, <1>4 DEF Clearing
<1>6. CallOwnNext(calls'[c])
  BY <1>1, <1>4 DEF CallOwnNext, OwnNext, SwitchInv, StoresOwn, Belongs
<1>7. TimersOwn'
  BY DEF Flush, FlushTo, TimersOwn, NoTimer
<1> QED
  BY <1>1, <1>3, <1>5, <1>6, <1>7, StoresOwnKept, FilesOwnKept, CallsOwnKept DEF SwitchInv

LEMMA SaveOwn ==
    ASSUME TypeOK, FilesOwn, UNCHANGED <<home, strays>>,
           NEW p \in Projects, NEW S, NEW items, SaveTo(p, S, items),
           \A s \in S : Belongs(p, items[s])
    PROVE  FilesOwn'
<1>1. \A q \in Projects, s \in Stores : Belongs(q, disk'[q][s])
  BY DEF SaveTo, TypeOK, FilesTyped, FilesOwn
<1>2. \A q \in Projects : Belongs(q, files'[q])
  BY DEF SaveTo, TypeOK, FilesTyped, FilesOwn, Belongs
<1> QED
  BY <1>1, <1>2 DEF FilesOwn, Belongs

LEMMA ResetOwn ==
    ASSUME SwitchAssumption, SwitchInv, NEW c \in Calls, Reset(c)
    PROVE  StoresOwn' /\ TimersOwn' /\ CallsOwn' /\ FilesOwn'
<1>1. Kept /\ UNCHANGED <<project, home, strays>>
  BY DEF Reset, Kept, notes
<1>2. calls \in [Calls -> Call] /\ CallTyped(calls[c]) /\ CallOwn(calls[c])
  BY DEF SwitchInv, TypeOK, CallsTyped, CallsOwn
<1>3. \A d \in Calls \ {c} : calls'[d] = calls[d]
  BY <1>2 DEF Reset
<1>4. calls'[c].pc = "pausing" /\ calls'[c].from = None
  BY <1>2 DEF Reset, NoCall
<1>5. CallOwnNext(calls'[c])
  BY <1>4 DEF CallOwnNext
<1>6. CallsOwn'
  BY <1>1, <1>3, <1>5, CallsOwnKept DEF SwitchInv
<1>7. StoresOwn'
  BY StoresFacts DEF Reset, StoresOwn, Belongs
<1>8. TimersOwn'
  <2>1. ASSUME NEW s \in Stores, timer'[s].proj # None
        PROVE  Belongs(timer'[s].proj, timer'[s].items)
    <3>1. timer'[s] = Subscription(s, {}, FALSE)
      BY <2>1 DEF Reset
    <3>2. CASE suspended
      BY <2>1, <3>1, <3>2 DEF Subscription, SwitchInv, TimersOwn
    <3>3. CASE ~suspended
      BY <2>1, <3>1, <3>3 DEF Subscription, Timer, NoTimer, Belongs
    <3> QED
      BY <3>2, <3>3
  <2> QED
    BY <1>1, <2>1 DEF TimersOwn, Belongs
<1>9. FilesOwn'
  <2>1. CASE calls[c].from = None
    BY <1>1, <2>1, FilesOwnKept DEF Reset, files_, SwitchInv
  <2>2. CASE calls[c].from # None
    <3>1. /\ calls[c].from \in Projects
          /\ \A s \in calls[c].saves : Belongs(calls[c].from, calls[c].held[s])
      BY <1>2, <2>2 DEF CallOwn, CallTyped, Call
    <3> QED
      BY <1>1, <2>2, <3>1, SaveOwn DEF Reset, SwitchInv
  <2> QED
    BY <2>1, <2>2
<1> QED
  BY <1>6, <1>7, <1>8, <1>9

\* The project that is set gets the stores as they were cleared.
LEMMA SetProjectOwn ==
    ASSUME SwitchAssumption, SwitchInv, NEW c \in Calls, SetProject(c)
    PROVE  StoresOwn' /\ TimersOwn' /\ CallsOwn' /\ FilesOwn'
<1>1. Kept /\ UNCHANGED <<mem, timer, disk, files, home, strays>>
  BY DEF SetProject, Kept, notes, files_
<1>2. calls \in [Calls -> Call] /\ CallTyped(calls[c]) /\ CallOwn(calls[c])
  BY DEF SwitchInv, TypeOK, CallsTyped, CallsOwn
<1>3. \A d \in Calls \ {c} : calls'[d] = calls[d]
  BY <1>2 DEF SetProject
<1>4. /\ calls'[c].pc \in {"idle", "config"}
      /\ calls'[c].from # None => calls'[c].from = calls[c].from /\ calls'[c].held = calls[c].held
  BY <1>2 DEF SetProject, NoCall, Call
<1>5. CallOwnNext(calls'[c])
  BY <1>1, <1>2, <1>4 DEF CallOwn, CallOwnNext, OwnNext, Belongs
<1>6. Clearing /\ \A s \in Stores : mem[s] \subseteq strays
  BY DEF SetProject, Clearing, SwitchInv, StoresOwn
<1>7. StoresOwn'
  BY <1>1, <1>6 DEF StoresOwn, Belongs
<1> QED
  BY <1>1, <1>3, <1>5, <1>7, TimersOwnKept, FilesOwnKept, CallsOwnKept DEF SwitchInv

LEMMA ConfigOwn ==
    ASSUME SwitchAssumption, SwitchInv, NEW c \in Calls, LoadConfig(c) \/ FailConfig(c)
    PROVE  StoresOwn' /\ TimersOwn' /\ CallsOwn' /\ FilesOwn'
<1>1. Kept /\ UNCHANGED <<mem, timer, disk, files, home, strays>>
  BY DEF LoadConfig, FailConfig, Kept, notes, files_
<1>2. calls \in [Calls -> Call] /\ CallTyped(calls[c]) /\ CallOwn(calls[c])
  BY DEF SwitchInv, TypeOK, CallsTyped, CallsOwn
<1>3. \A d \in Calls \ {c} : calls'[d] = calls[d]
  BY <1>2 DEF LoadConfig, FailConfig
<1>4. /\ calls'[c].pc \in {"idle", "restore", "side"}
      /\ calls'[c].from # None => calls'[c].from = calls[c].from /\ calls'[c].held = calls[c].held
  BY <1>2 DEF LoadConfig, FailConfig, NoCall, Call
<1>5. CallOwnNext(calls'[c])
  BY <1>1, <1>2, <1>4 DEF CallOwn, CallOwnNext, OwnNext, Belongs
<1>6. Clearing' => Clearing
  BY <1>3, <1>4 DEF Clearing
<1>7. StoresOwn'
  BY <1>1, <1>6 DEF LoadConfig, FailConfig, SwitchInv, StoresOwn, Belongs
<1> QED
  BY <1>1, <1>3, <1>5, <1>7, TimersOwnKept, FilesOwnKept, CallsOwnKept DEF SwitchInv

LEMMA RestoreOwn ==
    ASSUME SwitchAssumption, SwitchInv, NEW c \in Calls, RestoreQueue(c)
    PROVE  StoresOwn' /\ TimersOwn' /\ CallsOwn' /\ FilesOwn'
<1>1. Kept /\ UNCHANGED <<project, disk, files, home, strays>>
  BY DEF RestoreQueue, Kept, notes, files_
<1>2. calls \in [Calls -> Call] /\ CallTyped(calls[c]) /\ CallOwn(calls[c])
  BY DEF SwitchInv, TypeOK, CallsTyped, CallsOwn
<1>3. \A d \in Calls \ {c} : calls'[d] = calls[d]
  BY <1>2 DEF RestoreQueue
<1>4. calls'[c].pc = "chat" /\ calls'[c].from = calls[c].from /\ calls'[c].held = calls[c].held
  BY <1>2 DEF RestoreQueue, Call
<1>5. CallOwnNext(calls'[c])
  BY <1>1, <1>2, <1>4 DEF CallOwn, CallOwnNext, OwnNext, Belongs
<1>6. Clearing' => Clearing
  BY <1>3, <1>4 DEF Clearing
<1>7. project # None => OwnNext(project, mem["chat"])
  BY <1>1, StoresFacts DEF SwitchInv, StoresOwn, OwnNext, Belongs
<1>8. Clearing => mem["chat"] \subseteq strays'
  BY <1>1, StoresFacts DEF SwitchInv, StoresOwn
<1>9. Put("chat", mem["chat"], streaming)
  BY DEF RestoreQueue
<1>10. StoresOwn' /\ TimersOwn'
  BY <1>1, <1>6, <1>7, <1>8, <1>9, StoresFacts, PutOwn DEF SwitchInv
<1> QED
  BY <1>1, <1>3, <1>5, <1>10, FilesOwnKept, CallsOwnKept DEF SwitchInv

LEMMA ReadOwn ==
    ASSUME SwitchAssumption, SwitchInv, NEW c \in Calls, ReadChat(c) \/ ReadSide(c)
    PROVE  StoresOwn' /\ TimersOwn' /\ CallsOwn' /\ FilesOwn'
<1>1. Kept /\ UNCHANGED <<project, mem, timer, disk, files, home, strays>>
  BY DEF ReadChat, ReadSide, Kept, ui, notes, files_
<1>2. calls \in [Calls -> Call] /\ CallTyped(calls[c]) /\ CallOwn(calls[c])
  BY DEF SwitchInv, TypeOK, CallsTyped, CallsOwn
<1>3. \A d \in Calls \ {c} : calls'[d] = calls[d]
  BY <1>2 DEF ReadChat, ReadSide
<1>4. /\ calls'[c].pc \in {"hydrate", "fill"}
      /\ calls'[c].from = calls[c].from /\ calls'[c].held = calls[c].held
      /\ calls'[c].target = calls[c].target
  BY <1>2 DEF ReadChat, ReadSide, Call
<1>5. calls[c].target \in Projects
  BY <1>2 DEF ReadChat, ReadSide, CallTyped
<1>6. Belongs(calls[c].target, calls'[c].got)
  BY <1>2, <1>5, StoresFacts DEF ReadChat, ReadSide, LoadChatHistory, Call, SwitchInv, FilesOwn
<1>7. CallOwnNext(calls'[c])
  BY <1>1, <1>2, <1>4, <1>6 DEF CallOwn, CallOwnNext, OwnNext, Belongs
<1>8. Clearing' => Clearing
  BY <1>3, <1>4 DEF Clearing
<1> QED
  BY <1>1, <1>3, <1>7, <1>8, StoresOwnKept, TimersOwnKept, FilesOwnKept, CallsOwnKept DEF SwitchInv

\* What is loaded goes into the stores only of the project it was loaded from.
LEMMA HydrateOwn ==
    ASSUME SwitchAssumption, SwitchInv, NEW c \in Calls, HydrateChat(c) \/ HydrateSide(c)
    PROVE  StoresOwn' /\ TimersOwn' /\ CallsOwn' /\ FilesOwn'
<1> DEFINE Same == UNCHANGED <<mem, timer, strays>>
           got == calls[c].got
<1>1. UNCHANGED <<project, disk, files, home>>
  BY DEF HydrateChat, Hydrated, HydrateSide, files_
<1>2. calls \in [Calls -> Call] /\ CallTyped(calls[c]) /\ CallOwn(calls[c])
  BY DEF SwitchInv, TypeOK, CallsTyped, CallsOwn
<1>3. \A d \in Calls \ {c} : calls'[d] = calls[d]
  BY <1>2 DEF HydrateChat, Hydrated, HydrateSide
<1>4. /\ calls'[c].pc \in {"idle", "side"}
      /\ calls'[c].from # None => calls'[c].from = calls[c].from /\ calls'[c].held = calls[c].held
  BY <1>2 DEF HydrateChat, Hydrated, HydrateSide, NoCall, Call
<1>5. Clearing' => Clearing
  BY <1>3, <1>4 DEF Clearing
<1>6. \/ Same
      \/ /\ project = calls[c].target /\ Strays(got, Clearing)
         /\ \E s \in Stores : \E kept : kept \subseteq mem[s] /\ Put(s, kept \cup got, streaming)
  <2>1. CASE HydrateChat(c)
    <3> DEFINE kept == IF active # calls[c].before THEN mem["chat"] ELSE {}
    <3>1. CASE IsCurrentProject(c) /\ got # {}
      <4>1. kept \subseteq mem["chat"] /\ Put("chat", kept \cup got, streaming)
            /\ Strays(got, Clearing)
        BY <2>1, <3>1 DEF HydrateChat, Hydrated
      <4> QED
        BY <3>1, <4>1, StoresFacts DEF IsCurrentProject
    <3>2. CASE ~(IsCurrentProject(c) /\ got # {})
      BY <2>1, <3>2 DEF HydrateChat, Hydrated
    <3> QED
      BY <3>1, <3>2
  <2>2. CASE HydrateSide(c)
    <3>1. CASE IsCurrentProject(c) /\ got # {}
      <4>1. Put("review", {} \cup got, streaming) /\ Strays(got, Clearing)
        BY <2>2, <3>1 DEF HydrateSide
      <4> QED
        BY <3>1, <4>1, StoresFacts DEF IsCurrentProject
    <3>2. CASE ~(IsCurrentProject(c) /\ got # {})
      BY <2>2, <3>2 DEF HydrateSide
    <3> QED
      BY <3>1, <3>2
  <2> QED
    BY <2>1, <2>2
<1>7. Kept
  BY <1>1, <1>6 DEF Kept, Strays
<1>8. StoresOwn' /\ TimersOwn'
  <2>1. CASE Same
    BY <1>1, <1>5, <1>7, <2>1, StoresOwnKept, TimersOwnKept DEF SwitchInv
  <2>2. CASE ~Same
    <3>1. PICK s \in Stores : \E kept : kept \subseteq mem[s] /\ Put(s, kept \cup got, streaming)
      BY <1>6, <2>2
    <3>0. PICK kept : kept \subseteq mem[s] /\ Put(s, kept \cup got, streaming)
      BY <3>1
    <3>2. project = calls[c].target /\ Strays(got, Clearing)
      BY <1>6, <2>2
    <3>3. Belongs(calls[c].target, got)
      BY <1>2 DEF HydrateChat, Hydrated, HydrateSide, CallOwn
    <3>4. project # None => OwnNext(project, kept \cup got)
      BY <1>1, <1>7, <3>0, <3>2, <3>3 DEF SwitchInv, StoresOwn, Belongs, OwnNext, Kept
    <3>5. Clearing => kept \cup got \subseteq strays'
      BY <3>0, <3>2 DEF SwitchInv, StoresOwn, Strays
    <3> QED
      BY <1>1, <1>5, <1>7, <3>0, <3>4, <3>5, PutOwn DEF SwitchInv
  <2> QED
    BY <2>1, <2>2
<1>9. CallOwnNext(calls'[c])
  BY <1>1, <1>2, <1>4, <1>7 DEF CallOwn, CallOwnNext, OwnNext, Belongs, Kept
<1> QED
  BY <1>1, <1>3, <1>7, <1>8, <1>9, FilesOwnKept, CallsOwnKept DEF SwitchInv

LEMMA CallStepOwn ==
    ASSUME SwitchAssumption, SwitchInv, NEW c \in Calls, CallStep(c)
    PROVE  StoresOwn' /\ TimersOwn' /\ CallsOwn' /\ FilesOwn'
  BY FlushOwn, ResetOwn, SetProjectOwn, ConfigOwn, RestoreOwn, ReadOwn, HydrateOwn DEF CallStep

\* What the user adds is the open project's.
LEMMA UserOwn ==
    ASSUME SwitchAssumption, SwitchInv, UserStep
    PROVE  StoresOwn' /\ TimersOwn' /\ CallsOwn' /\ FilesOwn'
<1>1. UNCHANGED <<project, calls, disk>> /\ (Clearing' => Clearing)
  BY DEF UserStep, CreateConversation, DeleteConversation, StartStream, FinalizeStream,
         DismissItem, work, files_, Clearing
<1>2. PICK s \in Stores, items \in SUBSET Items, stream \in BOOLEAN :
         /\ Put(s, items, stream)
         /\ \/ items \subseteq mem[s] /\ UNCHANGED <<home, strays>>
            \/ \E i \in Chats : /\ items = mem[s] \cup {i} /\ Unmade(i) /\ project # None
                                /\ home' = [home EXCEPT ![i] = project]
                                /\ Strays({i}, Clearing)
  <2>1. CASE \E i \in Chats : CreateConversation(i)
    <3>1. PICK i \in Chats : CreateConversation(i)
      BY <2>1
    <3>2. mem["chat"] \cup {i} \in SUBSET Items
      BY StoresFacts DEF SwitchInv, TypeOK, StoresTyped
    <3> QED
      BY <3>1, <3>2, StoresFacts DEF CreateConversation
  <2>2. CASE \E i \in Chats : DeleteConversation(i)
    <3>1. PICK i \in Chats : DeleteConversation(i)
      BY <2>2
    <3>2. "chat" \in Stores /\ mem["chat"] \ {i} \in SUBSET Items /\ streaming \in BOOLEAN
      BY StoresFacts DEF SwitchInv, TypeOK, StoresTyped
    <3>3. Put("chat", mem["chat"] \ {i}, streaming) /\ UNCHANGED <<home, strays>>
      BY <3>1 DEF DeleteConversation
    <3> USE <3>2
    <3> WITNESS "chat" \in Stores, mem["chat"] \ {i} \in SUBSET Items, streaming \in BOOLEAN
    <3> QED
      BY <3>3
  <2>3. CASE StartStream \/ FinalizeStream
    <3>1. mem["chat"] \in SUBSET Items
      BY StoresFacts DEF SwitchInv, TypeOK, StoresTyped
    <3> QED
      BY <2>3, <3>1, StoresFacts DEF StartStream, FinalizeStream, notes
  <2>4. CASE \E i \in Reviews : DismissItem(i)
    <3>1. PICK i \in Reviews : DismissItem(i)
      BY <2>4
    <3>2. mem["review"] \ {i} \in SUBSET Items /\ streaming \in BOOLEAN
      BY StoresFacts DEF SwitchInv, TypeOK, StoresTyped
    <3> QED
      BY <3>1, <3>2, StoresFacts DEF DismissItem
  <2> QED
    BY <2>1, <2>2, <2>3, <2>4 DEF UserStep
<1>3. Kept
  BY <1>2 DEF Kept, Strays, Unmade, SwitchInv, TypeOK, NotesTyped
<1>4. project # None => OwnNext(project, items)
  <2>1. ASSUME project # None
        PROVE  OwnNext(project, mem[s])
    BY <1>1, <1>3, <2>1, BelongsKept DEF SwitchInv, StoresOwn, TypeOK, StoresTyped
  <2>2. CASE items \subseteq mem[s]
    BY <2>1, <2>2 DEF OwnNext
  <2>3. ASSUME NEW i \in Chats, items = mem[s] \cup {i}, Unmade(i),
               home' = [home EXCEPT ![i] = project]
        PROVE  project # None => OwnNext(project, items)
    <3>1. i \in DOMAIN home' /\ home'[i] = project
      BY <2>3 DEF Unmade, SwitchInv, TypeOK, NotesTyped
    <3> QED
      BY <2>1, <2>3, <3>1 DEF OwnNext
  <2> QED
    BY <1>2, <2>2, <2>3
<1>5. Clearing => items \subseteq strays'
  BY <1>2 DEF SwitchInv, StoresOwn, Strays
<1>6. StoresOwn' /\ TimersOwn'
  BY <1>1, <1>2, <1>3, <1>4, <1>5, PutOwn DEF SwitchInv
<1>7. CallsOwn'
  BY <1>1, <1>3, CallsOwnKept DEF SwitchInv
<1>8. FilesOwn'
  <2>1. CASE UNCHANGED files
    BY <1>1, <1>3, <2>1, FilesOwnKept DEF SwitchInv
  <2>2. CASE ~UNCHANGED files
    <3>1. PICK i \in Chats : DeleteConversation(i)
      BY <2>2 DEF UserStep, CreateConversation, StartStream, FinalizeStream, DismissItem, files_
    <3>2. UNCHANGED <<disk, home, strays>> /\ \A p \in Projects : files'[p] \subseteq files[p]
      BY <3>1 DEF DeleteConversation, SwitchInv, TypeOK, FilesTyped
    <3> QED
      BY <3>2 DEF SwitchInv, FilesOwn, Belongs
  <2> QED
    BY <2>1, <2>2
<1> QED
  BY <1>6, <1>7, <1>8

\* A review that an ingest adds while another project is open is a stray.
LEMMA EndCommitOwn ==
    ASSUME SwitchAssumption, SwitchInv, NEW r \in Runs, NEW i \in Reviews, EndCommit(r, i)
    PROVE  StoresOwn' /\ TimersOwn' /\ CallsOwn' /\ FilesOwn'
<1>1. UNCHANGED <<project, calls, disk, files>> /\ (Clearing' => Clearing)
  BY DEF EndCommit, files_, Clearing
<1>2. ingest[r].proj \in Projects
  BY DEF EndCommit, NoIngest, SwitchInv, TypeOK, IngestTyped
<1>3. /\ Put("review", mem["review"] \cup {i}, streaming)
      /\ home' = [home EXCEPT ![i] = ingest[r].proj] /\ Unmade(i)
      /\ Strays({i}, Clearing \/ project # ingest[r].proj)
  BY DEF EndCommit
<1>4. Kept
  BY <1>3 DEF Kept, Strays, Unmade, SwitchInv, TypeOK, NotesTyped
<1>5. project # None => OwnNext(project, mem["review"] \cup {i})
  <2>1. ASSUME project # None
        PROVE  OwnNext(project, mem["review"]) /\ OwnNext(project, {i})
    <3>1. OwnNext(project, mem["review"])
      BY <1>4, <2>1, StoresFacts, BelongsKept DEF SwitchInv, StoresOwn, TypeOK, StoresTyped
    <3>2. OwnNext(project, {i})
      BY <1>3 DEF OwnNext, Strays, Unmade, SwitchInv, TypeOK, NotesTyped
    <3> QED
      BY <3>1, <3>2
  <2> QED
    BY <2>1 DEF OwnNext
<1>6. Clearing => mem["review"] \cup {i} \subseteq strays'
  BY <1>3, StoresFacts DEF SwitchInv, StoresOwn, Strays
<1>7. StoresOwn' /\ TimersOwn'
  BY <1>1, <1>3, <1>4, <1>5, <1>6, StoresFacts, PutOwn DEF SwitchInv
<1> QED
  BY <1>1, <1>4, <1>7, FilesOwnKept, CallsOwnKept DEF SwitchInv

LEMMA FireOwn ==
    ASSUME SwitchAssumption, SwitchInv, NEW s \in Stores, FireTimer(s)
    PROVE  StoresOwn' /\ TimersOwn' /\ CallsOwn' /\ FilesOwn'
<1>1. Kept /\ UNCHANGED <<project, mem, calls, home, strays>> /\ (Clearing' => Clearing)
  BY DEF FireTimer, Kept, notes, Clearing
<1>2. timer[s].proj # None /\ timer[s].proj \in Projects
  BY DEF FireTimer, SwitchInv, TypeOK, TimersTyped
<1>3. FilesOwn'
  <2> DEFINE items == [mem EXCEPT ![s] = timer[s].items]
  <2>1. \A x \in {s} : Belongs(timer[s].proj, items[x])
    BY <1>2 DEF SwitchInv, TypeOK, StoresTyped, TimersOwn
  <2>2. SaveTo(timer[s].proj, {s}, items)
    BY DEF FireTimer
  <2> HIDE DEF items
  <2> QED
    BY <1>1, <1>2, <2>1, <2>2, SaveOwn DEF SwitchInv
<1>4. TimersOwn'
  BY <1>1 DEF FireTimer, SwitchInv, TypeOK, TimersTyped, TimersOwn, NoTimer, Belongs
<1> QED
  BY <1>1, <1>3, <1>4, StoresOwnKept, CallsOwnKept DEF SwitchInv

LEMMA InitOwn ==
    ASSUME SwitchAssumption, Init
    PROVE  SwitchInv
<1>1. TypeOK
  BY InitTyped
<1>2. FilesOwn
  <2>1. \A p \in Projects, s \in Stores : disk[p][s] \subseteq {i \in DOMAIN home : home[i] = p}
    BY DEF Init
  <2>2. \A p \in Projects : files[p] = disk[p]["chat"]
    BY DEF Init
  <2>3. ASSUME NEW p \in Projects, NEW s \in Stores
        PROVE  Belongs(p, disk[p][s])
    BY <2>1 DEF Belongs
  <2>4. ASSUME NEW p \in Projects
        PROVE  Belongs(p, files[p])
    BY <2>2, <2>3, StoresFacts
  <2> QED
    BY <2>3, <2>4 DEF FilesOwn
<1>3. ~Clearing
  BY DEF Init, Clearing, NoCall
<1>4. project # None => \A s \in Stores : Belongs(project, mem[s])
  BY <1>1, <1>2 DEF Init, TypeOK, StoresTyped, FilesOwn
<1>5. TimersOwn
  BY DEF Init, TimersOwn, NoTimer
<1>6. CallsOwn
  BY DEF Init, CallsOwn, CallOwn, NoCall
<1> QED
  BY <1>1, <1>2, <1>3, <1>4, <1>5, <1>6 DEF SwitchInv, StoresOwn

LEMMA SwitchStep ==
    ASSUME SwitchAssumption, SwitchInv, [Next]_vars
    PROVE  SwitchInv'
<1>1. TypeOK'
  BY NextTyped DEF SwitchInv
<1>2. CASE Next
  <2>1. ASSUME NEW r \in Runs,
               EndCommitPlain(r) \/ \E kind \in {"queued", "direct"} : BeginCommit(r, kind)
        PROVE  StoresOwn' /\ TimersOwn' /\ CallsOwn' /\ FilesOwn'
    <3>1. Kept /\ UNCHANGED <<project, mem, timer, calls, disk, files>> /\ (Clearing' => Clearing)
      BY <2>1 DEF EndCommitPlain, BeginCommit, Kept, ui, files_, notes, Clearing
    <3> QED
      BY <3>1, StoresOwnKept, TimersOwnKept, FilesOwnKept, CallsOwnKept DEF SwitchInv
  <2>2. StoresOwn' /\ TimersOwn' /\ CallsOwn' /\ FilesOwn'
    BY <1>2, <2>1, NextCases, ClickOwn, CallStepOwn, UserOwn, EndCommitOwn, FireOwn
  <2> QED
    BY <1>1, <2>2 DEF SwitchInv
<1>3. CASE UNCHANGED vars
  <2>1. Kept /\ UNCHANGED <<project, mem, timer, calls, disk, files>> /\ (Clearing' => Clearing)
    BY <1>3 DEF vars, Kept, ui, files_, notes, Clearing
  <2> QED
    BY <1>1, <2>1, StoresOwnKept, TimersOwnKept, FilesOwnKept, CallsOwnKept DEF SwitchInv
<1> QED
  BY <1>2, <1>3

\* The stores, timers, flushes and loads hold the items of the project they
\* are for, but for the strays.
THEOREM SwitchInvariance == Spec => []SwitchInv
<1>1. Init => SwitchInv
  BY SwitchAssumption, InitOwn
<1>2. SwitchInv /\ [Next]_vars => SwitchInv'
  BY SwitchAssumption, SwitchStep
<1> QED
  BY <1>1, <1>2, PTL DEF Spec

\* No timer, flush or late load brings an item of one project into the files of
\* another, however many calls of the handlers overlap.
THEOREM NoContamination == Spec => []OwnItems
<1>1. SwitchInv => OwnItems
  BY DEF SwitchInv, FilesOwn, Belongs, OwnItems
<1> QED
  BY <1>1, SwitchInvariance, PTL
-----------------------------------------------------------------------------
(* Nothing is wiped from the files.  What would overwrite a file, a timer  *)
(* or a flush, has all the file holds but for what the user removed; from  *)
(* the moment a call clears a store to the moment it has loaded it again   *)
(* no timer of that store is set.                                          *)

Excused(s) == "crossed" \in odd \/ s \in odd

\* Call c has cleared store s and not yet loaded it.
Loads(c, s) ==
    \/ calls[c].pc \in {"pausing", "config", "restore", "chat", "hydrate"}
    \/ s = "review" /\ calls[c].pc \in {"side", "fill"}

Covers(items, p, s) == disk[p][s] \subseteq items \cup removed

OneCall == \A c, d \in Calls : calls[c].pc # "idle" /\ calls[d].pc # "idle" => c = d

Quiet(c) ==
    /\ calls[c].pc \in {"flush", "pausing", "config", "restore", "chat", "hydrate"}
          => suspended /\ \A s \in Stores : timer[s] = NoTimer
    /\ calls[c].pc \in {"config", "restore", "chat", "hydrate", "side", "fill"}
          => project = calls[c].target

MemBacked(s) ==
    /\ \A c \in Calls : Loads(c, s) => mem[s] = {} /\ timer[s] = NoTimer
    /\ project # None /\ (\A c \in Calls : ~Loads(c, s)) => Covers(mem[s], project, s)

TimerBacked(s) ==
    timer[s] # NoTimer =>
        /\ timer[s].proj = project /\ Covers(timer[s].items, project, s)
        /\ timer[s].items \subseteq mem[s] \cup removed

CallBacked(c, s) ==
    /\ calls[c].pc = "flush" /\ calls[c].from # None /\ s \in calls[c].saves
          => Covers(calls[c].held[s], calls[c].from, s)
    /\ calls[c].pc = (IF s = "chat" THEN "hydrate" ELSE "fill")
          => Covers(calls[c].got, calls[c].target, s)

Alone == OneCall /\ \A c \in Calls : Quiet(c)
Backed(s) == MemBacked(s) /\ TimerBacked(s) /\ \A c \in Calls : CallBacked(c, s)

WipeInv ==
    /\ "crossed" \notin odd => Alone
    /\ \A s \in Stores : ~Excused(s) => Backed(s)

\* An excuse is never taken back.
LEMMA OddKept ==
    ASSUME [Next]_vars
    PROVE  /\ "crossed" \notin odd' => "crossed" \notin odd
           /\ \A s \in Stores : ~Excused(s)' => ~Excused(s)
<1>1. UNCHANGED odd \/ \E what, happened : Note(what, happened)
  BY DEF Next, CallStep, EndOf, vars, notes, Click, Flush, FlushTo, Reset, SetProject, LoadConfig,
         FailConfig, RestoreQueue, ReadChat, HydrateChat, Hydrated, ReadSide, HydrateSide,
         CreateConversation, StartStream, FinalizeStream, DeleteConversation, DismissItem,
         BeginCommit, EndCommit, EndCommitPlain, FireTimer
<1> QED
  BY <1>1 DEF Note, Excused

\* The state as a lone call meets it.
LEMMA Lone ==
    ASSUME TypeOK, WipeInv, "crossed" \notin odd, NEW c \in Calls, CallStep(c)
    PROVE  /\ Quiet(c)
           /\ \A d \in Calls \ {c} : calls[d].pc = "idle" /\ calls'[d].pc = "idle"
<1>1. calls \in [Calls -> Call]
  BY DEF TypeOK, CallsTyped
<1>2. calls[c].pc # "idle"
  BY DEF CallStep, Flush, FlushTo, Reset, SetProject, LoadConfig, FailConfig, RestoreQueue,
         ReadChat, HydrateChat, Hydrated, ReadSide, HydrateSide
<1>3. \A d \in Calls \ {c} : calls'[d] = calls[d]
  BY <1>1 DEF CallStep, Flush, FlushTo, Reset, SetProject, LoadConfig, FailConfig, RestoreQueue,
              ReadChat, HydrateChat, Hydrated, ReadSide, HydrateSide
<1> QED
  BY <1>2, <1>3 DEF WipeInv, Alone, OneCall

\* A suspended store keeps its timer, whatever is put there.
LEMMA PutSuspended ==
    ASSUME TypeOK, suspended, NEW s \in Stores, NEW items, NEW stream, Put(s, items, stream)
    PROVE  \A x \in Stores : timer'[x] = timer[x]
  BY DEF Put, Subscription, TypeOK, TimersTyped

-----------------------------------------------------------------------------
(* Calls that do not overlap *)

LEMMA CallQuiet ==
    ASSUME TypeOK, WipeInv, "crossed" \notin odd, NEW c \in Calls, CallStep(c)
    PROVE  Quiet(c)'
<1>a. calls \in [Calls -> Call] /\ Quiet(c)
  BY Lone DEF TypeOK, CallsTyped
<1>1. CASE Flush(c)
  <2>1. calls'[c].pc = "flush" /\ suspended' /\ \A s \in Stores : timer'[s] = NoTimer
    BY <1>a, <1>1 DEF Flush, FlushTo, Call
  <2> QED
    BY <2>1 DEF Quiet
<1>2. CASE Reset(c)
  <2>1. calls[c].pc = "flush" /\ calls'[c].pc = "pausing" /\ suspended' = suspended /\ suspended
    BY <1>a, <1>2 DEF Reset, NoCall, Quiet
  <2>2. \A s \in Stores : timer'[s] = timer[s]
    BY <1>2, <2>1 DEF Reset, Subscription
  <2> QED
    BY <1>a, <2>1, <2>2 DEF Quiet
<1>3. CASE SetProject(c)
  <2>1. CASE calls[c].target = None
    <3>1. calls'[c].pc = "idle"
      BY <1>a, <1>3, <2>1 DEF SetProject, NoCall
    <3> QED
      BY <3>1 DEF Quiet
  <2>2. CASE calls[c].target # None
    <3>1. calls'[c].pc = "config" /\ calls'[c].target = calls[c].target
      BY <1>a, <1>3, <2>2 DEF SetProject, Call
    <3>2. UNCHANGED <<suspended, timer>> /\ project' = calls[c].target
          /\ calls[c].pc = "pausing"
      BY <1>3 DEF SetProject
    <3> QED
      BY <1>a, <3>1, <3>2 DEF Quiet
  <2> QED
    BY <2>1, <2>2
<1>4. CASE LoadConfig(c)
  <2>1. IsCurrentProject(c) /\ calls[c].pc = "config" /\ UNCHANGED <<timer, project>>
    BY <1>a, <1>4 DEF LoadConfig, Quiet, IsCurrentProject
  <2>2. calls'[c].pc = "restore" /\ calls'[c].target = calls[c].target /\ suspended' = suspended
    BY <1>a, <1>4, <2>1 DEF LoadConfig, Call, Quiet
  <2> QED
    BY <1>a, <2>1, <2>2 DEF Quiet
<1>5. CASE FailConfig(c) \/ HydrateSide(c)
  <2>1. calls'[c].pc = "idle"
    BY <1>a, <1>5 DEF FailConfig, HydrateSide, NoCall
  <2> QED
    BY <2>1 DEF Quiet
<1>6. CASE RestoreQueue(c)
  <2>1. suspended /\ UNCHANGED <<suspended, project>> /\ calls[c].pc = "restore"
    BY <1>a, <1>6 DEF RestoreQueue, Quiet
  <2>2. \A s \in Stores : timer'[s] = timer[s]
    BY <1>6, <2>1, StoresFacts, PutSuspended DEF RestoreQueue
  <2>3. calls'[c].pc = "chat" /\ calls'[c].target = calls[c].target
    BY <1>a, <1>6 DEF RestoreQueue, Call
  <2> QED
    BY <1>a, <2>1, <2>2, <2>3 DEF Quiet
<1>7. CASE ReadChat(c) \/ ReadSide(c)
  <2>1. UNCHANGED <<suspended, project, timer>>
    BY <1>7 DEF ReadChat, ReadSide, ui
  <2>2. /\ calls'[c].target = calls[c].target
        /\ \/ calls[c].pc = "chat" /\ calls'[c].pc = "hydrate"
           \/ calls[c].pc = "side" /\ calls'[c].pc = "fill"
    BY <1>a, <1>7 DEF ReadChat, ReadSide, Call
  <2> QED
    BY <1>a, <2>1, <2>2 DEF Quiet
<1>8. CASE HydrateChat(c)
  <2>1. /\ calls[c].pc = "hydrate" /\ UNCHANGED project
        /\ calls'[c].pc = "side" /\ calls'[c].target = calls[c].target
    BY <1>a, <1>8 DEF HydrateChat, Hydrated, Call
  <2> QED
    BY <1>a, <2>1 DEF Quiet
<1> QED
  BY <1>1, <1>2, <1>3, <1>4, <1>5, <1>6, <1>7, <1>8 DEF CallStep

LEMMA AloneNext ==
    ASSUME TypeOK, WipeInv, [Next]_vars, "crossed" \notin odd'
    PROVE  Alone'
<1>a. "crossed" \notin odd /\ Alone /\ calls \in [Calls -> Call]
  BY OddKept DEF WipeInv, TypeOK, CallsTyped
\* Steps that are none of a call.
<1>b. ASSUME UNCHANGED <<calls, project, suspended>>,
             suspended => \A s \in Stores : timer'[s] = timer[s] \/ timer'[s] = NoTimer
      PROVE  Alone'
  BY <1>a, <1>b DEF Alone, OneCall, Quiet
<1>1. ASSUME NEW c \in Calls, NEW p \in Projects \cup {None}, Click(c, p)
      PROVE  Alone'
  <2>1. ~Calling
    BY <1>1, <1>a DEF Click, Note
  <2>2. /\ calls'[c].pc = "begin"
        /\ \A d \in Calls \ {c} : calls'[d].pc = "idle"
    BY <1>1, <1>a, <2>1 DEF Click, Calling, NoCall
  <2> QED
    BY <2>2 DEF Alone, OneCall, Quiet
<1>2. ASSUME NEW c \in Calls, CallStep(c)
      PROVE  Alone'
  <2>1. Quiet(c)' /\ \A d \in Calls \ {c} : calls'[d].pc = "idle"
    BY <1>2, <1>a, CallQuiet, Lone
  <2>2. \A d \in Calls \ {c} : Quiet(d)'
    BY <2>1 DEF Quiet
  <2> QED
    BY <2>1, <2>2 DEF Alone, OneCall
<1>3. CASE UserStep
  <2>1. \E s \in Stores : \E items, stream : Put(s, items, stream)
    BY <1>3, StoresFacts DEF UserStep, CreateConversation, DeleteConversation, StartStream,
                             FinalizeStream, DismissItem
  <2>2. UNCHANGED <<calls, project, suspended>>
    BY <1>3 DEF UserStep, CreateConversation, DeleteConversation, StartStream,
                FinalizeStream, DismissItem
  <2> QED
    BY <1>b, <2>1, <2>2, PutSuspended
<1>4. ASSUME NEW r \in Runs, NEW i \in Reviews, EndCommit(r, i)
      PROVE  Alone'
  BY <1>4, <1>b, StoresFacts, PutSuspended DEF EndCommit
<1>5. ASSUME NEW r \in Runs,
             EndCommitPlain(r) \/ \E kind \in {"queued", "direct"} : BeginCommit(r, kind)
      PROVE  Alone'
  BY <1>5, <1>b DEF EndCommitPlain, BeginCommit, ui
<1>6. ASSUME NEW s \in Stores, FireTimer(s)
      PROVE  Alone'
  <2>1. \A x \in Stores : timer'[x] = timer[x] \/ timer'[x] = NoTimer
    BY <1>6 DEF FireTimer, TypeOK, TimersTyped
  <2> QED
    BY <1>6, <1>b, <2>1 DEF FireTimer
<1>7. CASE UNCHANGED vars
  BY <1>7, <1>b DEF vars, ui
<1> QED
  BY <1>1, <1>2, <1>3, <1>4, <1>5, <1>6, <1>7, NextCases
-----------------------------------------------------------------------------
(* What is saved has what the file has *)

\* A step that changes what a store holds: nothing the file has gets lost,
\* and while the store is being loaded it stays empty.
LEMMA PutBacked ==
    ASSUME TypeOK, NEW s \in Stores, Backed(s), NEW x \in Stores, NEW items, NEW stream,
           Put(x, items, stream), UNCHANGED <<project, calls, disk>>, removed \subseteq removed',
           mem[x] \subseteq items \cup removed',
           s = x => \/ \A c \in Calls : ~Loads(c, s)
                    \/ items = {} /\ suspended
    PROVE  Backed(s)'
<1>1. mem \in [Stores -> SUBSET Items]
      /\ timer \in [Stores -> [proj: Projects \cup {None}, items: SUBSET Items]]
  BY DEF TypeOK, StoresTyped, TimersTyped
<1>2. \A c \in Calls : Loads(c, s)' <=> Loads(c, s)
  BY DEF Loads
<1>3. \A c \in Calls : CallBacked(c, s)'
  BY DEF Backed, CallBacked, Covers
<1>4. CASE s # x
  <2>1. mem'[s] = mem[s] /\ timer'[s] = timer[s]
    BY <1>1, <1>4 DEF Put
  <2>2. MemBacked(s)'
    BY <1>2, <2>1 DEF Backed, MemBacked, Covers
  <2>3. TimerBacked(s)'
    BY <2>1 DEF Backed, TimerBacked, Covers
  <2> QED
    BY <1>3, <2>2, <2>3 DEF Backed
<1>5. CASE s = x /\ \A c \in Calls : ~Loads(c, s)
  <2>1. mem'[s] = items /\ mem[s] \subseteq items \cup removed'
    BY <1>1, <1>5 DEF Put
  <2>2. MemBacked(s)'
    BY <1>2, <1>5, <2>1 DEF Backed, MemBacked, Covers
  <2>3. TimerBacked(s)'
    <3>1. CASE timer'[s] = timer[s]
      BY <2>1, <3>1 DEF Backed, TimerBacked, Covers
    <3>2. CASE timer'[s] # timer[s]
      <4>1. timer'[s] = Timer(project, items)
        BY <1>1, <1>5, <3>2 DEF Put, Subscription
      <4>2. project # None =>
              /\ timer'[s] = [proj |-> project, items |-> items]
              /\ disk'[project][s] \subseteq items \cup removed'
        BY <1>5, <2>1, <4>1 DEF Timer, Backed, MemBacked, Covers
      <4>3. project = None => timer'[s] = NoTimer
        BY <4>1 DEF Timer
      <4> QED
        BY <2>1, <4>2, <4>3 DEF TimerBacked, Covers
    <3> QED
      BY <3>1, <3>2
  <2> QED
    BY <1>3, <2>2, <2>3 DEF Backed
<1>6. CASE s = x /\ items = {} /\ suspended /\ \E c \in Calls : Loads(c, s)
  <2>1. mem[s] = {} /\ timer[s] = NoTimer
    BY <1>6 DEF Backed, MemBacked
  <2>2. mem'[s] = {} /\ timer'[s] = timer[s]
    BY <1>1, <1>6 DEF Put, Subscription
  <2>3. MemBacked(s)'
    BY <1>2, <1>6, <2>1, <2>2 DEF Backed, MemBacked
  <2>4. TimerBacked(s)'
    BY <2>1, <2>2 DEF TimerBacked
  <2> QED
    BY <1>3, <2>3, <2>4 DEF Backed
<1> QED
  BY <1>4, <1>5, <1>6

\* A step that changes nothing of this.
LEMMA SameBacked ==
    ASSUME NEW s \in Stores, Backed(s), UNCHANGED <<project, mem, timer, disk, removed>>,
           \A c \in Calls : calls'[c] = calls[c]
    PROVE  Backed(s)'
<1>1. \A c \in Calls : CallBacked(c, s)' /\ (Loads(c, s)' <=> Loads(c, s))
  BY DEF Backed, CallBacked, Covers, Loads
<1> QED
  BY <1>1 DEF Backed, MemBacked, TimerBacked, Covers

\* What is to be shown for the step of a lone call.
LEMMA CallBackedBy ==
    ASSUME NEW c \in Calls, NEW s \in Stores,
           \A d \in Calls \ {c} : calls'[d].pc = "idle",
           Loads(c, s)' => mem'[s] = {} /\ timer'[s] = NoTimer,
           project' # None /\ ~Loads(c, s)' => disk'[project'][s] \subseteq mem'[s] \cup removed',
           TimerBacked(s)', CallBacked(c, s)'
    PROVE  Backed(s)'
<1>1. \A d \in Calls \ {c} : ~Loads(d, s)' /\ CallBacked(d, s)'
  BY DEF Loads, CallBacked
<1>2. MemBacked(s)'
  BY <1>1 DEF MemBacked, Covers
<1> QED
  BY <1>1, <1>2 DEF Backed

LEMMA CallStepBacked ==
    ASSUME TypeOK, WipeInv, NEW s \in Stores, ~Excused(s), NEW c \in Calls, CallStep(c)
    PROVE  Backed(s)'
<1>a. /\ calls \in [Calls -> Call] /\ CallTyped(calls[c]) /\ mem \in [Stores -> SUBSET Items]
      /\ timer \in [Stores -> [proj: Projects \cup {None}, items: SUBSET Items]]
  BY DEF TypeOK, CallsTyped, StoresTyped, TimersTyped
<1>b. "crossed" \notin odd /\ Backed(s)
  BY DEF WipeInv, Excused
<1>c. Quiet(c) /\ \A d \in Calls \ {c} : calls[d].pc = "idle" /\ calls'[d].pc = "idle"
  BY <1>b, Lone
<1>d. \A d \in Calls \ {c} : ~Loads(d, s)
  BY <1>c DEF Loads
<1>e. Loads(c, s) => mem[s] = {} /\ timer[s] = NoTimer
  BY <1>b DEF Backed, MemBacked
<1>f. ~Loads(c, s) /\ project # None => disk[project][s] \subseteq mem[s] \cup removed
  BY <1>b, <1>d DEF Backed, MemBacked, Covers
<1>1. CASE Flush(c)
  <2>1. /\ calls[c].pc = "begin" /\ UNCHANGED <<project, mem, disk, removed>>
        /\ timer'[s] = NoTimer
    BY <1>1 DEF Flush, FlushTo, files_
  <2>2. /\ calls'[c].pc = "flush" /\ calls'[c].from = project /\ calls'[c].held = mem
    BY <1>a, <1>1 DEF Flush, FlushTo, Call
  <2>3. ~Loads(c, s) /\ ~Loads(c, s)'
    BY <2>1, <2>2 DEF Loads
  <2>4. TimerBacked(s)' /\ CallBacked(c, s)'
    BY <1>f, <2>1, <2>2, <2>3 DEF TimerBacked, CallBacked, Covers
  <2> QED
    BY <1>c, <1>f, <2>1, <2>3, <2>4, CallBackedBy
<1>2. CASE Reset(c)
  <2>1. suspended /\ timer[s] = NoTimer
    BY <1>2, <1>c DEF Reset, Quiet
  <2>2. timer'[s] = NoTimer /\ mem'[s] = {}
    BY <1>2, <2>1, StoresFacts DEF Reset, Subscription
  <2>3. calls'[c].pc = "pausing"
    BY <1>a, <1>2 DEF Reset, NoCall
  <2>4. TimerBacked(s)' /\ CallBacked(c, s)' /\ Loads(c, s)'
    BY <2>2, <2>3 DEF TimerBacked, CallBacked, Loads
  <2> QED
    BY <1>c, <2>2, <2>4, CallBackedBy
<1>3. CASE SetProject(c)
  <2>1. /\ calls[c].pc = "pausing" /\ UNCHANGED <<mem, timer, disk, removed>>
        /\ project' = calls[c].target
    BY <1>3 DEF SetProject, files_, notes
  <2>2. mem[s] = {} /\ timer[s] = NoTimer
    BY <1>e, <2>1 DEF Loads
  <2>3. calls'[c].pc = IF project' = None THEN "idle" ELSE "config"
    BY <1>a, <1>3 DEF SetProject, NoCall, Call
  <2>4. TimerBacked(s)' /\ CallBacked(c, s)' /\ (project' # None => Loads(c, s)')
    BY <2>1, <2>2, <2>3 DEF TimerBacked, CallBacked, Loads
  <2> QED
    BY <1>c, <2>1, <2>2, <2>4, CallBackedBy
<1>4. CASE LoadConfig(c)
  <2>1. IsCurrentProject(c) /\ calls[c].pc = "config" /\ UNCHANGED <<mem, timer>>
    BY <1>4, <1>c DEF LoadConfig, Quiet, IsCurrentProject
  <2>2. mem[s] = {} /\ timer[s] = NoTimer
    BY <1>e, <2>1 DEF Loads
  <2>3. calls'[c].pc = "restore"
    BY <1>a, <1>4, <2>1 DEF LoadConfig, Call
  <2>4. TimerBacked(s)' /\ CallBacked(c, s)' /\ Loads(c, s)'
    BY <2>1, <2>2, <2>3 DEF TimerBacked, CallBacked, Loads
  <2> QED
    BY <1>c, <2>1, <2>2, <2>4, CallBackedBy
<1>5. CASE FailConfig(c)
  <2>1. calls[c].pc = "config" /\ UNCHANGED <<mem, timer>> /\ project' = None
    BY <1>5 DEF FailConfig
  <2>2. mem[s] = {} /\ timer[s] = NoTimer
    BY <1>e, <2>1 DEF Loads
  <2>3. calls'[c].pc = "idle"
    BY <1>a, <1>5 DEF FailConfig, NoCall
  <2>4. TimerBacked(s)' /\ CallBacked(c, s)' /\ ~Loads(c, s)'
    BY <2>1, <2>2, <2>3 DEF TimerBacked, CallBacked, Loads
  <2> QED
    BY <1>c, <2>1, <2>2, <2>4, CallBackedBy
<1>6. CASE RestoreQueue(c)
  <2>1. calls[c].pc = "restore" /\ suspended /\ Put("chat", mem["chat"], streaming)
    BY <1>6, <1>c DEF RestoreQueue, Quiet
  <2>2. mem[s] = {} /\ timer[s] = NoTimer
    BY <1>e, <2>1 DEF Loads
  <2>3. mem'[s] = mem[s] /\ timer'[s] = timer[s]
    BY <1>a, <2>1, StoresFacts, PutSuspended DEF Put
  <2>4. calls'[c].pc = "chat"
    BY <1>a, <1>6 DEF RestoreQueue, Call
  <2>5. TimerBacked(s)' /\ CallBacked(c, s)' /\ Loads(c, s)'
    BY <2>2, <2>3, <2>4 DEF TimerBacked, CallBacked, Loads
  <2> QED
    BY <1>c, <2>2, <2>3, <2>5, CallBackedBy
<1>7. CASE ReadChat(c) \/ ReadSide(c)
  <2>1. UNCHANGED <<project, mem, timer, disk, removed>>
    BY <1>7 DEF ReadChat, ReadSide, ui, files_, notes
  <2>2. TimerBacked(s)'
    BY <1>b, <2>1 DEF Backed, TimerBacked, Covers
  <2>3. CASE ReadChat(c)
    <3>1. /\ calls[c].pc = "chat" /\ calls'[c].pc = "hydrate"
          /\ calls'[c].target = calls[c].target
          /\ calls'[c].got = LoadChatHistory(calls[c].target)
      BY <1>a, <2>3 DEF ReadChat, Call
    <3>2. Loads(c, s) /\ Loads(c, s)'
      BY <3>1 DEF Loads
    <3>3. CallBacked(c, s)'
      BY <2>1, <3>1 DEF CallBacked, LoadChatHistory, Covers
    <3> QED
      BY <1>c, <1>e, <2>1, <2>2, <3>2, <3>3, CallBackedBy
  <2>4. CASE ReadSide(c)
    <3>1. /\ calls[c].pc = "side" /\ calls'[c].pc = "fill"
          /\ calls'[c].target = calls[c].target
          /\ calls'[c].got = disk[calls[c].target]["review"]
      BY <1>a, <2>4 DEF ReadSide, Call
    <3>2. Loads(c, s)' <=> Loads(c, s)
      BY <3>1 DEF Loads
    <3>3. CallBacked(c, s)'
      BY <2>1, <3>1 DEF CallBacked, Covers, Stores
    <3> QED
      BY <1>c, <1>e, <1>f, <2>1, <2>2, <3>2, <3>3, CallBackedBy
  <2> QED
    BY <1>7, <2>3, <2>4
<1>8. CASE HydrateChat(c)
  <2>1. /\ calls[c].pc = "hydrate" /\ suspended /\ project = calls[c].target
        /\ UNCHANGED <<project, disk, removed>>
    BY <1>8, <1>c DEF HydrateChat, Hydrated, Quiet, files_
  <2>2. mem[s] = {} /\ timer[s] = NoTimer
    BY <1>e, <2>1 DEF Loads
  <2>3. calls'[c].pc = "side"
    BY <1>a, <1>8 DEF HydrateChat, Hydrated, Call
  <2>4. timer'[s] = timer[s]
    BY <1>8, <2>1, StoresFacts, PutSuspended DEF HydrateChat, Hydrated
  <2>5. TimerBacked(s)' /\ CallBacked(c, s)'
    BY <2>2, <2>3, <2>4 DEF TimerBacked, CallBacked
  <2>6. CASE s = "review"
    <3>1. mem'[s] = {} /\ Loads(c, s)'
      BY <1>a, <1>8, <2>2, <2>3, <2>6 DEF HydrateChat, Hydrated, Put, Loads
    <3> QED
      BY <1>c, <2>2, <2>4, <2>5, <3>1, CallBackedBy
  <2>7. CASE s = "chat"
    <3>1. ~Loads(c, s)'
      BY <2>3, <2>7 DEF Loads
    <3>2. disk[project][s] \subseteq calls[c].got \cup removed
      BY <1>b, <2>1, <2>7 DEF Backed, CallBacked, Covers
    <3>3. calls[c].got \subseteq mem'[s]
      BY <1>a, <1>8, <2>1, <2>7 DEF HydrateChat, Hydrated, Put, IsCurrentProject
    <3> QED
      BY <1>c, <2>1, <2>5, <3>1, <3>2, <3>3, CallBackedBy
  <2> QED
    BY <2>6, <2>7 DEF Stores
<1>9. CASE HydrateSide(c)
  <2>1. /\ calls[c].pc = "fill" /\ project = calls[c].target
        /\ UNCHANGED <<project, disk, removed>>
    BY <1>9, <1>c DEF HydrateSide, Quiet, files_
  <2>2. calls'[c].pc = "idle"
    BY <1>a, <1>9 DEF HydrateSide, NoCall
  <2>3. CallBacked(c, s)' /\ ~Loads(c, s)'
    BY <2>2 DEF CallBacked, Loads
  <2>4. CASE s = "chat"
    <3>1. mem'[s] = mem[s] /\ timer'[s] = timer[s]
      BY <1>a, <1>9, <2>4 DEF HydrateSide, Put
    <3>2. TimerBacked(s)'
      BY <1>b, <2>1, <3>1 DEF Backed, TimerBacked, Covers
    <3>3. ~Loads(c, s)
      BY <2>1, <2>4 DEF Loads
    <3> QED
      BY <1>c, <1>f, <2>1, <2>3, <3>1, <3>2, <3>3, CallBackedBy
  <2>5. CASE s = "review"
    <3> DEFINE got == calls[c].got
    <3>1. mem[s] = {} /\ timer[s] = NoTimer
      BY <1>e, <2>1, <2>5 DEF Loads
    <3>2. disk[project][s] \subseteq got \cup removed
      BY <1>b, <2>1, <2>5 DEF Backed, CallBacked, Covers
    <3>3. mem'[s] = got
      BY <1>a, <1>9, <2>1, <2>5, <3>1 DEF HydrateSide, Put, IsCurrentProject
    <3>4. timer'[s] = NoTimer \/ timer'[s] = Timer(project, got)
      BY <1>a, <1>9, <2>5, <3>1 DEF HydrateSide, Put, Subscription
    <3> HIDE DEF got
    <3>5. TimerBacked(s)'
      <4>1. Timer(project, got) # NoTimer => Timer(project, got) = [proj |-> project, items |-> got]
        BY DEF Timer
      <4> QED
        BY <2>1, <3>2, <3>3, <3>4, <4>1 DEF TimerBacked, Covers
    <3> QED
      BY <1>c, <2>1, <2>3, <3>2, <3>3, <3>5, CallBackedBy
  <2> QED
    BY <2>4, <2>5 DEF Stores
<1> QED
  BY <1>1, <1>2, <1>3, <1>4, <1>5, <1>6, <1>7, <1>8, <1>9 DEF CallStep
LEMMA UserBacked ==
    ASSUME TypeOK, WipeInv, UserStep, NEW s \in Stores, ~Excused(s)', ~Excused(s)
    PROVE  Backed(s)'
<1>a. "crossed" \notin odd /\ Backed(s) /\ \A c \in Calls : Quiet(c)
  BY DEF WipeInv, Excused, Alone
<1>b. \A c \in Calls : Loads(c, s) => mem[s] = {}
  BY <1>a DEF Backed, MemBacked
<1>1. CASE \E i \in Chats : CreateConversation(i)
  <2>1. PICK i \in Chats : CreateConversation(i)
    BY <1>1
  <2>2. s = "chat" => ~Calling
    BY <2>1 DEF CreateConversation, Note, Excused
  <2>3. s = "chat" => \A c \in Calls : ~Loads(c, s)
    BY <2>2 DEF Calling, Loads
  <2> QED
    BY <1>a, <2>1, <2>3, StoresFacts, PutBacked DEF CreateConversation, files_
<1>2. CASE \E i \in Chats : DeleteConversation(i)
  <2>1. PICK i \in Chats : DeleteConversation(i)
    BY <1>2
  <2>2. s = "chat" => \A c \in Calls : ~Loads(c, s)
    BY <1>b, <2>1 DEF DeleteConversation
  <2>3. mem["chat"] \subseteq (mem["chat"] \ {i}) \cup removed' /\ removed \subseteq removed'
    BY <2>1 DEF DeleteConversation
  <2> QED
    BY <1>a, <2>1, <2>2, <2>3, StoresFacts, PutBacked DEF DeleteConversation
<1>3. CASE StartStream \/ FinalizeStream
  <2>1. PICK stream : Put("chat", mem["chat"], stream)
    BY <1>3 DEF StartStream, FinalizeStream
  <2>2. UNCHANGED <<project, calls, disk, removed>>
    BY <1>3 DEF StartStream, FinalizeStream, files_, notes
  <2>3. ASSUME NEW c \in Calls, Loads(c, "chat")
        PROVE  suspended
    BY <1>a, <2>3 DEF Loads, Quiet
  <2> QED
    BY <1>a, <1>b, <2>1, <2>2, <2>3, StoresFacts, PutBacked
<1>4. CASE \E i \in Reviews : DismissItem(i)
  <2>1. PICK i \in Reviews : DismissItem(i)
    BY <1>4
  <2>2. s = "review" => \A c \in Calls : ~Loads(c, s)
    BY <1>b, <2>1 DEF DismissItem
  <2>3. mem["review"] \subseteq (mem["review"] \ {i}) \cup removed' /\ removed \subseteq removed'
    BY <2>1 DEF DismissItem
  <2> QED
    BY <1>a, <2>1, <2>2, <2>3, StoresFacts, PutBacked DEF DismissItem, files_
<1> QED
  BY <1>1, <1>2, <1>3, <1>4 DEF UserStep

\* A review that is added while a call is under way is what excuses them.
LEMMA EndCommitBacked ==
    ASSUME TypeOK, WipeInv, NEW r \in Runs, NEW i \in Reviews, EndCommit(r, i),
           NEW s \in Stores, ~Excused(s)', ~Excused(s)
    PROVE  Backed(s)'
<1>1. Backed(s)
  BY DEF WipeInv
<1>2. s = "review" => ~Calling
  BY DEF EndCommit, Note, Excused
<1>3. s = "review" => \A c \in Calls : ~Loads(c, s)
  BY <1>2 DEF Calling, Loads
<1> QED
  BY <1>1, <1>3, StoresFacts, PutBacked DEF EndCommit, files_

LEMMA ClickBacked ==
    ASSUME TypeOK, WipeInv, NEW c \in Calls, NEW p \in Projects \cup {None}, Click(c, p),
           NEW s \in Stores, ~Excused(s)', ~Excused(s)
    PROVE  Backed(s)'
<1>1. ~Calling /\ Backed(s) /\ calls \in [Calls -> Call]
  BY DEF Click, Note, Excused, WipeInv, TypeOK, CallsTyped
<1>2. UNCHANGED <<project, mem, timer, disk, removed>>
  BY DEF Click, ui, files_
<1>3. \A d \in Calls : calls'[d].pc \in {"idle", "begin"} /\ calls[d].pc = "idle"
  BY <1>1 DEF Click, Calling, NoCall
<1>4. \A d \in Calls : CallBacked(d, s)' /\ ~Loads(d, s) /\ ~Loads(d, s)'
  BY <1>3 DEF CallBacked, Loads
<1> QED
  BY <1>1, <1>2, <1>4 DEF Backed, MemBacked, TimerBacked, Covers

\* What a timer saved is in its store, or was removed.
LEMMA FireBacked ==
    ASSUME TypeOK, WipeInv, NEW x \in Stores, FireTimer(x), NEW s \in Stores, ~Excused(s)
    PROVE  Backed(s)'
<1>a. /\ timer \in [Stores -> [proj: Projects \cup {None}, items: SUBSET Items]]
      /\ disk \in [Projects -> [Stores -> SUBSET Items]]
      /\ \A y \in Stores : timer[y].proj = None => timer[y] = NoTimer
  BY DEF TypeOK, TimersTyped, FilesTyped
<1>b. Backed(s) /\ \A c \in Calls : Quiet(c)
  BY DEF WipeInv, Excused, Alone
<1>c. UNCHANGED <<project, mem, calls, removed>>
  BY DEF FireTimer, notes
<1> DEFINE p == timer[x].proj
<1>d. timer[x] # NoTimer /\ p \in Projects
  BY <1>a DEF FireTimer
<1>e. disk' = [disk EXCEPT ![p] =
                 [y \in Stores |->
                    IF y \in {x} THEN [mem EXCEPT ![x] = timer[x].items][y] ELSE @[y]]]
  BY DEF FireTimer, SaveTo
<1>f. \A c \in Calls : Loads(c, s)' <=> Loads(c, s)
  BY <1>c DEF Loads
<1>1. CASE s # x
  <2>1. timer'[s] = timer[s]
    BY <1>a, <1>1 DEF FireTimer
  <2>2. \A q : disk'[q][s] = disk[q][s]
    <3> SUFFICES ASSUME NEW q PROVE disk'[q][s] = disk[q][s]
      OBVIOUS
    <3>1. CASE q = p
      BY <1>1, <1>a, <1>d, <1>e, <3>1
    <3>2. CASE q # p
      BY <1>a, <1>d, <1>e, <3>2
    <3> QED
      BY <3>1, <3>2
  <2>3. \A c \in Calls : CallBacked(c, s)'
    BY <1>b, <1>c, <2>2 DEF Backed, CallBacked, Covers
  <2>4. MemBacked(s)' /\ TimerBacked(s)'
    BY <1>b, <1>c, <1>f, <2>1, <2>2 DEF Backed, MemBacked, TimerBacked, Covers
  <2> QED
    BY <2>3, <2>4 DEF Backed
<1>2. CASE s = x
  <2>1. p = project /\ timer[s].items \subseteq mem[s] \cup removed
    BY <1>b, <1>d, <1>2 DEF Backed, TimerBacked
  <2>2. disk'[project][s] = timer[s].items
    <3>1. mem \in [Stores -> SUBSET Items]
      BY DEF TypeOK, StoresTyped
    <3>2. [mem EXCEPT ![x] = timer[x].items][s] = timer[s].items
      BY <1>2, <3>1
    <3>3. disk'[p][s] = timer[s].items
      BY <1>2, <1>a, <1>d, <1>e, <3>2
    <3> QED
      BY <2>1, <3>3
  <2>3. timer'[s] = NoTimer
    BY <1>a, <1>2 DEF FireTimer
  <2>4. \A c \in Calls : ~Loads(c, s)
    BY <1>b, <1>d, <1>2 DEF Backed, MemBacked
  <2>5. \A c \in Calls : CallBacked(c, s)'
    <3>1. \A c \in Calls : calls[c].pc # "flush"
      BY <1>b, <1>d DEF Quiet
    <3>2. \A c \in Calls : calls[c].pc # (IF s = "chat" THEN "hydrate" ELSE "fill")
      BY <2>4 DEF Loads, Stores
    <3> QED
      BY <1>c, <3>1, <3>2 DEF CallBacked
  <2>6. MemBacked(s)' /\ TimerBacked(s)'
    BY <1>c, <1>f, <2>1, <2>2, <2>3, <2>4 DEF MemBacked, TimerBacked, Covers
  <2> QED
    BY <2>5, <2>6 DEF Backed
<1> QED
  BY <1>1, <1>2

LEMMA WipeStep ==
    ASSUME TypeOK, WipeInv, [Next]_vars
    PROVE  WipeInv'
<1>1. "crossed" \notin odd' => Alone'
  BY AloneNext
<1>2. ASSUME NEW s \in Stores, ~Excused(s)'
      PROVE  Backed(s)'
  <2>1. ~Excused(s) /\ Backed(s)
    BY <1>2, OddKept DEF WipeInv
  <2>2. ASSUME NEW r \in Runs,
               EndCommitPlain(r) \/ \E kind \in {"queued", "direct"} : BeginCommit(r, kind)
        PROVE  Backed(s)'
    BY <2>1, <2>2, SameBacked DEF EndCommitPlain, BeginCommit, ui, files_, notes
  <2>3. CASE UNCHANGED vars
    BY <2>1, <2>3, SameBacked DEF vars, ui, files_, notes
  <2> QED
    BY <1>2, <2>1, <2>2, <2>3, NextCases, ClickBacked, CallStepBacked, UserBacked,
       EndCommitBacked, FireBacked
<1> QED
  BY <1>1, <1>2 DEF WipeInv

LEMMA WipeInit ==
    ASSUME Init
    PROVE  WipeInv
<1>1. /\ \A c \in Calls : calls[c].pc = "idle"
      /\ \A s \in Stores : timer[s] = NoTimer
      /\ project # None => mem = disk[project]
  BY DEF Init, NoCall
<1>2. Alone
  BY <1>1 DEF Alone, OneCall, Quiet
<1>3. \A s \in Stores : Backed(s)
  BY <1>1 DEF Backed, MemBacked, TimerBacked, CallBacked, Covers, Loads
<1> QED
  BY <1>2, <1>3 DEF WipeInv

\* As long as no two calls overlap, no flush, timer or load drops an item from
\* a file that the user did not remove.
THEOREM OnlyRemovedLost == Spec => NothingWiped
<1>1. ASSUME TypeOK, WipeInv, Next, NEW p \in Projects, NEW s \in Stores,
             NEW i \in disk[p][s] \ disk'[p][s], "crossed" \notin odd, s \notin odd
      PROVE  i \in removed
  <2>1. Backed(s) /\ disk \in [Projects -> [Stores -> SUBSET Items]] /\ TimersTyped
        /\ mem \in [Stores -> SUBSET Items]
    BY <1>1 DEF WipeInv, Excused, TypeOK, FilesTyped, StoresTyped
  <2>2. CASE \E c \in Calls : Reset(c)
    <3>1. PICK c \in Calls : Reset(c)
      BY <2>2
    <3>2. /\ calls[c].pc = "flush" /\ calls[c].from # None
          /\ SaveTo(calls[c].from, calls[c].saves, calls[c].held)
      BY <1>1, <3>1 DEF Reset, files_
    <3>3. p = calls[c].from /\ s \in calls[c].saves /\ disk'[p][s] = calls[c].held[s]
      BY <1>1, <2>1, <3>2 DEF SaveTo
    <3> QED
      BY <1>1, <2>1, <3>2, <3>3 DEF Backed, CallBacked, Covers
  <2>3. CASE \E x \in Stores : FireTimer(x)
    <3>1. PICK x \in Stores : FireTimer(x)
      BY <2>3
    <3>2. timer[x] # NoTimer /\ SaveTo(timer[x].proj, {x}, [mem EXCEPT ![x] = timer[x].items])
      BY <3>1 DEF FireTimer
    <3>3. p = timer[x].proj /\ s = x /\ disk'[p][s] = timer[x].items
      BY <1>1, <2>1, <3>2 DEF SaveTo
    <3> QED
      BY <1>1, <2>1, <3>2, <3>3 DEF Backed, TimerBacked, Covers
  <2>4. CASE ~(\E c \in Calls : Reset(c)) /\ ~(\E x \in Stores : FireTimer(x))
    <3>1. UNCHANGED disk
      BY <1>1, <2>4 DEF Next, CallStep, EndOf, files_, Click, Flush, FlushTo, SetProject,
             LoadConfig, FailConfig, RestoreQueue, ReadChat, HydrateChat, Hydrated, ReadSide,
             HydrateSide, CreateConversation, StartStream, FinalizeStream, DeleteConversation,
             DismissItem, BeginCommit, EndCommit, EndCommitPlain
    <3> QED
      BY <1>1, <3>1
  <2> QED
    BY <2>2, <2>3, <2>4
<1>2. TypeOK /\ WipeInv /\ [Next]_vars =>
        [\A p \in Projects, s \in Stores : \A i \in disk[p][s] \ disk'[p][s] :
             i \in removed \/ "crossed" \in odd \/ s \in odd]_vars
  BY <1>1
<1>3. Spec => []TypeOK
  BY SwitchTyping
<1>4. TypeOK /\ WipeInv /\ [Next]_vars => WipeInv'
  BY WipeStep
<1> QED
  BY <1>2, <1>3, <1>4, WipeInit, PTL DEF Spec, NothingWiped
=============================================================================
