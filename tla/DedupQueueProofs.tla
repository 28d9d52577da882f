-------------------------- MODULE DedupQueueProofs --------------------------
(***************************************************************************)
(* Theorems about the queue of page merges, for any number of projects,    *)
(* tasks and calls of processNext, and for every fault.                    *)
(***************************************************************************)
EXTENDS DedupQueue, TaskQueueLemmas

Write == [proj: Projects, tasks: Seq(Task), k: SaveKinds]

-----------------------------------------------------------------------------
(* Facts about tasks, saves and processNext *)

LEMMA KindsDiffer ==
  /\ <<"call">> # <<"close">> /\ <<"open">> # <<"close">> /\ <<"end">> # <<"close">>
  /\ \A i \in ProcIds : <<"proc", i>> # <<"close">> /\ <<"proc", i>> \in SaveKinds
  /\ {<<"call">>, <<"close">>, <<"open">>, <<"end">>} \subseteq SaveKinds
  BY DEF SaveKinds

LEMMA StampTask ==
  /\ Stamps(Task, "pending") /\ Stamps(Task, "processing") /\ Stamps(Task, "failed")
  BY DEF Stamps, Task

LEMMA FreeProcTyped == FreeProc \in Proc /\ AnyProject \in Projects
<1>1. AnyProject \in Projects /\ (CHOOSE t \in TaskIds : TRUE) \in TaskIds
  BY DedupAssumption DEF AnyProject
<1> QED BY <1>1 DEF FreeProc, Proc

LEMMA FreshFacts ==
  ASSUME NEW q \in Seq(Task), NEW S
  PROVE  Fresh(q, S) \in Seq(Task) /\ SameTasks(q, Fresh(q, S))
<1> DEFINE w == Fresh(q, S)
<1>1. w = [i \in DOMAIN q |-> w[i]]
  BY DEF Fresh, Revise
<1>2. \A i \in DOMAIN q : w[i] \in Task /\ w[i].id = q[i].id
  <2> TAKE i \in DOMAIN q
  <2>1. q[i] \in Task
    OBVIOUS
  <2> QED BY <2>1 DEF Fresh, Revise, Task
<1> HIDE DEF w
<1> QED BY <1>1, <1>2, ChangedInPlace DEF w

LEMMA TriedTask ==
  ASSUME NEW t \in Task
  PROVE  Tried(t) \in Task /\ Tried(t).id = t.id
<1>1. t.tries + 1 \in Nat /\ t.tries \in Nat
  BY DEF Task
<1> QED BY <1>1 DEF Tried, Task

LEMMA TriedFacts ==
  ASSUME NEW q \in Seq(Task), NEW S
  PROVE  Revise(q, S, Tried) \in Seq(Task) /\ SameTasks(q, Revise(q, S, Tried))
<1> DEFINE w == Revise(q, S, Tried)
<1>1. w = [i \in DOMAIN q |-> w[i]]
  BY DEF Revise
<1>2. \A i \in DOMAIN q : w[i] \in Task /\ w[i].id = q[i].id
  <2> TAKE i \in DOMAIN q
  <2>1. q[i] \in Task
    OBVIOUS
  <2>2. w[i] = IF q[i].id \in S THEN Tried(q[i]) ELSE q[i]
    BY DEF Revise
  <2> QED BY <2>1, <2>2, TriedTask
<1> HIDE DEF w
<1> QED BY <1>1, <1>2, ChangedInPlace DEF w

LEMMA MarkedFacts ==
  ASSUME NEW q \in Seq(Task), NEW S, NEW st \in {"pending", "processing", "failed"}
  PROVE  WithStatus(q, S, st) \in Seq(Task) /\ SameTasks(q, WithStatus(q, S, st))
<1>1. Stamps(Task, st)
  BY StampTask
<1> DEFINE w == WithStatus(q, S, st)
<1>2. /\ w \in Seq(Task)
      /\ SameTasks(q, w)
      /\ \A i \in DOMAIN q : w[i].st = IF q[i].id \in S THEN st ELSE q[i].st
      /\ \A i \in DOMAIN q : q[i].id \notin S => w[i] = q[i]
      /\ \A i \in DOMAIN q : q[i].id \in S => w[i] = [q[i] EXCEPT !.st = st]
  BY <1>1, WithStatusFacts
<1> QED BY <1>2

LEMMA InterruptedTyped ==
  ASSUME NEW q \in Seq(Task)
  PROVE  Interrupted(q) \in Seq(Task) /\ SameTasks(q, Interrupted(q))
  BY MarkedFacts DEF Interrupted

\* A save is put behind those under way.
Saved(waiting, p, k) ==
    /\ saves' \in Seq(Write) /\ Len(saves') = Len(waiting) + 1
    /\ DOMAIN saves' = DOMAIN waiting \cup {Len(waiting) + 1}
    /\ Len(waiting) + 1 \notin DOMAIN waiting
    /\ \A j \in DOMAIN waiting : saves'[j] = waiting[j]
    /\ saves'[Len(waiting) + 1] = [proj |-> p, tasks |-> queue', k |-> k]

LEMMA SaveFacts ==
  ASSUME NEW waiting \in Seq(Write), NEW p \in Projects, NEW k \in SaveKinds,
         queue' \in Seq(Task), Save(waiting, p, k)
  PROVE  Saved(waiting, p, k)
<1> DEFINE w == [proj |-> p, tasks |-> queue', k |-> k]
<1>1. w \in Write
  BY DEF Write
<1>2. saves' = Append(waiting, w)
  BY DEF Save, Snapshot
<1> HIDE DEF w
<1>3. saves' \in Seq(Write) /\ Len(saves') = Len(waiting) + 1
      /\ DOMAIN saves' = DOMAIN waiting \cup {Len(waiting) + 1}
      /\ Len(waiting) + 1 \notin DOMAIN waiting
      /\ (\A j \in DOMAIN waiting : saves'[j] = waiting[j])
      /\ saves'[Len(waiting) + 1] = w
  BY <1>1, <1>2, AppendFacts
<1> QED BY <1>3 DEF Saved, w

\* The pause of a project has one save.
IsClose(w) == w.k = <<"close">>
OneClose(s) == \A i, j \in DOMAIN s : IsClose(s[i]) /\ IsClose(s[j]) => i = j
NoClose(s) == \A i \in DOMAIN s : ~ IsClose(s[i])

LEMMA SavedCloses ==
  ASSUME NEW waiting \in Seq(Write), NEW p, NEW k, Saved(waiting, p, k)
  PROVE  /\ OneClose(waiting) /\ k # <<"close">> => OneClose(saves')
         /\ NoClose(waiting) /\ k # <<"close">> => NoClose(saves')
         /\ NoClose(waiting) => OneClose(saves')
<1> DEFINE n == Len(waiting) + 1
<1>1. /\ DOMAIN saves' = DOMAIN waiting \cup {n}
      /\ \A j \in DOMAIN waiting : IsClose(saves'[j]) <=> IsClose(waiting[j])
      /\ IsClose(saves'[n]) <=> k = <<"close">>
  BY DEF Saved, IsClose
<1> HIDE DEF n
<1> QED BY <1>1 DEF OneClose, NoClose

LEMMA RestFacts ==
  ASSUME saves \in Seq(Write), NEW j \in DOMAIN saves
  PROVE  LET w == Rest(j) IN
         /\ w \in Seq(Write) /\ Len(w) = Len(saves) - 1
         /\ \A i \in DOMAIN w : (i < j => i \in DOMAIN saves /\ w[i] = saves[i])
                             /\ (i >= j => i + 1 \in DOMAIN saves /\ w[i] = saves[i + 1])
         /\ OneClose(saves) => OneClose(w)
         /\ NoClose(saves) => NoClose(w)
         /\ OneClose(saves) /\ IsClose(saves[j]) => NoClose(w)
<1> DEFINE w == Rest(j)
<1>1. /\ w \in Seq(Write) /\ Len(w) = Len(saves) - 1
      /\ \A i \in DOMAIN w : (i < j => i \in DOMAIN saves /\ w[i] = saves[i])
                          /\ (i >= j => i + 1 \in DOMAIN saves /\ w[i] = saves[i + 1])
  BY RemoveAtFacts DEF Rest
<1> HIDE DEF w
<1>2. DOMAIN w = 1..Len(w) /\ j \in Nat /\ DOMAIN w \subseteq Nat
  BY <1>1
<1>3. OneClose(saves) => OneClose(w)
  BY <1>1, <1>2 DEF OneClose
<1>4. NoClose(saves) => NoClose(w)
  BY <1>1, <1>2 DEF NoClose
<1>5. OneClose(saves) /\ IsClose(saves[j]) => NoClose(w)
  BY <1>1, <1>2 DEF OneClose, NoClose
<1> QED BY <1>1, <1>3, <1>4, <1>5 DEF w

\* What a call of processNext may do to the suspended calls: nothing, or
\* one more of them looks up a task that waits and is not held back.
Kicked(p, ps) ==
    /\ procs' \in [ProcIds -> Proc]
    /\ \A i \in ProcIds :
          \/ procs'[i] = ps[i]
          \/ /\ ps[i].pc = "none" /\ procs'[i].pc = "registry"
             /\ cur' = p /\ procs'[i].proj = p
             /\ procs'[i].task \notin restored'

LEMMA KickFacts ==
  ASSUME NEW ps \in [ProcIds -> Proc], NEW p \in Projects \cup {NoProject},
         queue' \in Seq(Task), p = NoProject => queue' = << >>,
         Kick(p, ps)
  PROVE  Kicked(p, ps)
<1>1. CASE procs' = ps
  BY <1>1 DEF Kicked
<1>2. CASE ~ (processing' \/ cur' # p \/ Runnable(queue', restored') = {})
  <2> DEFINE R == Runnable(queue', restored')
             first == CHOOSE i \in R : \A j \in R : i <= j
  <2>1. R \subseteq DOMAIN queue' /\ DOMAIN queue' \subseteq Nat /\ R # {}
    BY <1>2 DEF Runnable
  <2>2. first \in R
    BY <2>1, FirstExists
  <2>3. queue'[first] \in Task /\ queue'[first].id \notin restored'
    BY <2>1, <2>2 DEF Runnable
  <2>4. PICK i \in ProcIds :
           /\ ps[i].pc = "none"
           /\ procs' = [ps EXCEPT ![i] = [FreeProc EXCEPT
                !.pc = "registry", !.task = queue'[first].id, !.own = TRUE, !.proj = p]]
    BY <1>2 DEF Kick
  <2> HIDE DEF first, R
  <2>5. p \in Projects
    BY <2>1, <2>2
  <2> DEFINE new == [FreeProc EXCEPT
                !.pc = "registry", !.task = queue'[first].id, !.own = TRUE, !.proj = p]
  <2>6. new \in Proc /\ new.pc = "registry" /\ new.proj = p /\ new.task = queue'[first].id
    BY <2>3, <2>5, FreeProcTyped DEF Proc, Task, FreeProc
  <2> HIDE DEF new
  <2> QED BY <2>3, <2>4, <2>6, <1>2 DEF Kicked, new
<1> QED BY <1>1, <1>2 DEF Kick

-----------------------------------------------------------------------------
(* Typing *)

QueueTyped ==
    /\ cur \in Projects \cup {NoProject}
    /\ queue \in Seq(Task)
    /\ processing \in BOOLEAN
    /\ restored \subseteq TaskIds

ProcsTyped == procs \in [ProcIds -> Proc] /\ controller \in ProcIds \cup {NoProc}

FilesTyped ==
    /\ saves \in Seq(Write)
    /\ disk \in [Projects -> Seq(Task)] /\ lost \subseteq Projects
    /\ wiki \in [Projects -> SUBSET TaskIds]

BookTyped ==
    /\ closing \in Projects \cup {NoProject} /\ opening \in Projects \cup {NoProject}
    /\ calls \in 0..MaxCalls
    /\ merged \subseteq TaskIds /\ cancelled \subseteq TaskIds
    /\ unusable \in BOOLEAN

\* Only the open project has a queue; it is the one that is opened or closed.
Opened ==
    /\ cur = NoProject => queue = << >>
    /\ opening # NoProject => cur = opening /\ closing = NoProject
    /\ closing # NoProject => cur = closing

Closes == OneClose(saves) /\ (closing = NoProject => NoClose(saves))

TypeInv == QueueTyped /\ ProcsTyped /\ FilesTyped /\ BookTyped /\ Opened /\ Closes

LEMMA TypeInvGives == TypeInv => TypeOK
  BY DEF TypeInv, TypeOK, QueueTyped, ProcsTyped, FilesTyped, BookTyped, Write

LEMMA TypeInvInit == Init => TypeInv
<1> SUFFICES ASSUME Init PROVE TypeInv
  OBVIOUS
<1>1. << >> \in Seq(Task) /\ << >> \in Seq(Write)
  OBVIOUS
<1>2. QueueTyped /\ Opened
  BY <1>1 DEF Init, QueueTyped, Opened
<1>3. ProcsTyped
  BY FreeProcTyped DEF Init, ProcsTyped
<1>4. FilesTyped
  BY <1>1 DEF Init, FilesTyped
<1>5. BookTyped
  <2>1. 0 \in 0..MaxCalls
    BY DedupAssumption
  <2> QED BY <2>1 DEF Init, BookTyped
<1>6. Closes
  BY DEF Init, Closes, OneClose, NoClose
<1> QED BY <1>2, <1>3, <1>4, <1>5, <1>6 DEF TypeInv

LEMMA CallCounts ==
  ASSUME TypeInv, NEW op, Call(op)
  PROVE  calls' \in 0..MaxCalls /\ closing = NoProject /\ opening = NoProject
  BY DedupAssumption DEF TypeInv, BookTyped, Call, Idle

\* A save that is not a pause's keeps the account of the pauses.
LEMMA SaveCloses ==
  ASSUME NEW waiting \in Seq(Write), NEW p, NEW k, k # <<"close">>,
         Saved(waiting, p, k), closing' = closing,
         OneClose(waiting), closing = NoProject => NoClose(waiting)
  PROVE  Closes'
  BY SavedCloses DEF Closes

LEMMA EnqueueTypes == ASSUME TypeInv, NEW id \in TaskIds, EnqueueMerge(id) PROVE TypeInv'
<1> DEFINE new == [id |-> id, st |-> "pending", tries |-> 0]
<1>1. /\ cur # NoProject /\ restored' = restored \ {id}
      /\ queue' = IF id \notin Ids(queue) THEN Append(queue, new)
                  ELSE Fresh(queue, {id} \cap Having(queue, "failed"))
      /\ Save(saves, cur, <<"call">>)
      /\ UNCHANGED <<cur, processing, controller, procs, closing, opening, disk, lost, wiki,
                     merged, cancelled, unusable>>
  BY DEF EnqueueMerge
<1>2. new \in Task
  BY DEF Task
<1> HIDE DEF new
<1>3. queue' \in Seq(Task)
  BY <1>1, <1>2, FreshFacts, AppendFacts DEF TypeInv, QueueTyped
<1>4. Saved(saves, cur, <<"call">>)
  BY <1>1, <1>3, SaveFacts, KindsDiffer DEF TypeInv, QueueTyped, FilesTyped
<1>5. QueueTyped' /\ ProcsTyped' /\ Opened'
  BY <1>1, <1>3 DEF TypeInv, QueueTyped, ProcsTyped, Opened
<1>6. FilesTyped' /\ BookTyped'
  BY <1>1, <1>4, CallCounts DEF EnqueueMerge, TypeInv, FilesTyped, BookTyped, Saved
<1>7. Closes'
  BY <1>1, <1>4, SaveCloses, KindsDiffer DEF TypeInv, FilesTyped, Closes
<1> QED BY <1>5, <1>6, <1>7 DEF TypeInv

LEMMA RetryTypes == ASSUME TypeInv, NEW id \in TaskIds, RetryTask(id) PROVE TypeInv'
<1>1. /\ id \in Ids(queue) /\ restored' = restored \ {id} /\ queue' = Fresh(queue, {id})
      /\ Save(saves, cur, <<"call">>)
      /\ UNCHANGED <<cur, processing, controller, procs, closing, opening, disk, lost, wiki,
                     merged, cancelled, unusable>>
  BY DEF RetryTask
<1>2. queue # << >> /\ cur \in Projects
  BY <1>1 DEF Ids, TypeInv, QueueTyped, Opened
<1>3. queue' \in Seq(Task)
  BY <1>1, FreshFacts DEF TypeInv, QueueTyped
<1>4. Saved(saves, cur, <<"call">>)
  BY <1>1, <1>2, <1>3, SaveFacts, KindsDiffer DEF TypeInv, FilesTyped
<1>5. QueueTyped' /\ ProcsTyped' /\ Opened'
  BY <1>1, <1>2, <1>3, DedupAssumption DEF TypeInv, QueueTyped, ProcsTyped, Opened
<1>6. FilesTyped' /\ BookTyped'
  BY <1>1, <1>4, CallCounts DEF RetryTask, TypeInv, FilesTyped, BookTyped, Saved
<1>7. Closes'
  BY <1>1, <1>4, SaveCloses, KindsDiffer DEF TypeInv, FilesTyped, Closes
<1> QED BY <1>5, <1>6, <1>7 DEF TypeInv

LEMMA ResumeTypes == ASSUME TypeInv, ResumeProcessing PROVE TypeInv'
<1>1. /\ cur # NoProject /\ restored' = {} /\ Kick(cur, procs)
      /\ UNCHANGED <<cur, queue, processing, controller, saves, closing, opening, disk,
                     lost, wiki, merged, cancelled, unusable>>
  BY DEF ResumeProcessing
<1>2. Kicked(cur, procs)
  BY <1>1, KickFacts DEF TypeInv, QueueTyped, ProcsTyped
<1>3. QueueTyped' /\ ProcsTyped' /\ Opened' /\ FilesTyped' /\ Closes'
  BY <1>1, <1>2
     DEF TypeInv, QueueTyped, ProcsTyped, Opened, FilesTyped, Closes, Kicked
<1>4. BookTyped'
  BY <1>1, CallCounts DEF ResumeProcessing, TypeInv, BookTyped
<1> QED BY <1>3, <1>4 DEF TypeInv

LEMMA AbortTyped ==
  ASSUME NEW ps \in [ProcIds -> Proc]
  PROVE  AbortCurrent(ps) \in [ProcIds -> Proc]
  BY DEF AbortCurrent, Proc

LEMMA CancelTypes == ASSUME TypeInv, NEW id \in TaskIds, CancelTask(id) PROVE TypeInv'
<1>1. /\ id \in Ids(queue) /\ restored' = restored \ {id} /\ queue' = Without(queue, {id})
      /\ cancelled' = cancelled \cup {id} /\ Save(saves, cur, <<"call">>)
      /\ UNCHANGED <<cur, closing, opening, disk, lost, wiki, merged, unusable>>
      /\ \/ procs' = AbortCurrent(procs) /\ controller' = NoProc /\ processing' = FALSE
         \/ UNCHANGED <<procs, controller, processing>>
  BY DEF CancelTask
<1>2. queue # << >> /\ cur \in Projects
  BY <1>1 DEF Ids, TypeInv, QueueTyped, Opened
<1>3. queue' \in Seq(Task)
  BY <1>1, WithoutTyped DEF TypeInv, QueueTyped
<1>4. Saved(saves, cur, <<"call">>)
  BY <1>1, <1>2, <1>3, SaveFacts, KindsDiffer DEF TypeInv, FilesTyped
<1>5. QueueTyped' /\ ProcsTyped' /\ Opened'
  BY <1>1, <1>2, <1>3, AbortTyped, DedupAssumption
     DEF TypeInv, QueueTyped, ProcsTyped, Opened
<1>6. FilesTyped' /\ BookTyped'
  BY <1>1, <1>4, CallCounts DEF CancelTask, TypeInv, FilesTyped, BookTyped, Saved
<1>7. Closes'
  BY <1>1, <1>4, SaveCloses, KindsDiffer DEF TypeInv, FilesTyped, Closes
<1> QED BY <1>5, <1>6, <1>7 DEF TypeInv

LEMMA PauseTypes == ASSUME TypeInv, PauseQueue PROVE TypeInv'
<1>1. /\ cur # NoProject /\ procs' = AbortCurrent(procs) /\ controller' = NoProc
      /\ processing' = FALSE /\ queue' = Interrupted(queue) /\ closing' = cur
      /\ Save(saves, cur, <<"close">>)
      /\ UNCHANGED <<cur, restored, opening, disk, lost, wiki, merged, cancelled, unusable>>
  BY DEF PauseQueue
<1>2. queue' \in Seq(Task)
  BY <1>1, InterruptedTyped DEF TypeInv, QueueTyped
<1>3. Saved(saves, cur, <<"close">>)
  BY <1>1, <1>2, SaveFacts, KindsDiffer, <<"close">> \in SaveKinds
     DEF TypeInv, QueueTyped, FilesTyped
<1>4. calls' \in 0..MaxCalls /\ closing = NoProject /\ opening = NoProject
  BY CallCounts DEF PauseQueue
<1>5. QueueTyped' /\ ProcsTyped' /\ Opened'
  BY <1>1, <1>2, <1>4, AbortTyped DEF TypeInv, QueueTyped, ProcsTyped, Opened
<1>6. FilesTyped' /\ BookTyped'
  BY <1>1, <1>3, <1>4 DEF TypeInv, QueueTyped, FilesTyped, BookTyped, Saved
<1>7. Closes'
  BY <1>1, <1>3, <1>4, SavedCloses DEF TypeInv, QueueTyped, FilesTyped, Closes
<1> QED BY <1>5, <1>6, <1>7 DEF TypeInv

LEMMA RestoreTypes == ASSUME TypeInv, NEW p \in Projects, RestoreQueue(p) PROVE TypeInv'
<1>1. /\ queue' = << >> /\ restored' = {} /\ processing' = FALSE /\ controller' = NoProc
      /\ cur' = p /\ opening' = p
      /\ UNCHANGED <<procs, saves, closing, disk, lost, wiki, merged, cancelled, unusable>>
  BY DEF RestoreQueue
<1>2. calls' \in 0..MaxCalls /\ closing = NoProject /\ opening = NoProject
  BY CallCounts DEF RestoreQueue
<1>3. QueueTyped' /\ ProcsTyped' /\ Opened'
  <2>1. queue' \in Seq(Task)
    BY <1>1
  <2> QED BY <1>1, <1>2, <2>1 DEF TypeInv, QueueTyped, ProcsTyped, Opened
<1>4. FilesTyped' /\ BookTyped' /\ Closes'
  BY <1>1, <1>2 DEF TypeInv, FilesTyped, BookTyped, Closes
<1> QED BY <1>3, <1>4 DEF TypeInv

LEMMA DisownTyped ==
  ASSUME NEW ps \in [ProcIds -> Proc]
  PROVE  [i \in ProcIds |-> [ps[i] EXCEPT !.own = FALSE]] \in [ProcIds -> Proc]
  BY DEF Proc

LEMMA HavingIds ==
  ASSUME NEW q \in Seq(Task), NEW st
  PROVE  Having(q, st) \subseteq TaskIds
<1>1. \A i \in DOMAIN q : q[i] \in Task
  OBVIOUS
<1>2. Having(q, st) \subseteq Ids(q)
  BY DEF Having
<1> QED BY <1>1, <1>2 DEF Ids, Task

\* The tasks of the file are loaded, or none are and that is remembered.
Loads(saved) ==
    /\ saved = disk[opening] \/ saved = << >>
    /\ lost' = IF saved = disk[opening] THEN lost \ {opening} ELSE lost \cup {opening}
    /\ Restored(saved)

LEMMA LoadTypes == ASSUME TypeInv, RestoreLoad PROVE TypeInv'
<1>1. /\ opening # NoProject /\ opening' = NoProject
      /\ UNCHANGED <<cur, processing, controller, closing, disk, wiki, calls, merged,
                     cancelled, unusable>>
  BY DEF RestoreLoad
<1>2. cur = opening /\ closing = NoProject /\ opening \in Projects
  BY <1>1 DEF TypeInv, Opened, BookTyped
<1>5. PICK saved : Loads(saved)
  BY DEF RestoreLoad, LoadFile, Loadable, Loads
<1>6. lost' \subseteq Projects /\ (saved # << >> => saved = disk[opening])
  BY <1>2, <1>5 DEF Loads, TypeInv, FilesTyped
<1>3. CASE UNCHANGED <<queue, restored, procs, saves>>
  BY <1>1, <1>2, <1>3, <1>6
     DEF TypeInv, QueueTyped, ProcsTyped, FilesTyped, BookTyped, Opened, Closes
<1>4. CASE /\ queue' = Interrupted(disk[opening])
           /\ restored' = Having(queue', "pending")
           /\ procs' = [i \in ProcIds |-> [procs[i] EXCEPT !.own = FALSE]]
           /\ Save(saves, opening, <<"open">>)
  <2>1. queue' \in Seq(Task)
    BY <1>2, <1>4, InterruptedTyped DEF TypeInv, FilesTyped
  <2>2. Saved(saves, opening, <<"open">>)
    BY <1>2, <1>4, <2>1, SaveFacts, KindsDiffer DEF TypeInv, FilesTyped
  <2>3. QueueTyped' /\ ProcsTyped' /\ Opened'
    BY <1>1, <1>2, <1>4, <2>1, HavingIds, DisownTyped, DedupAssumption
       DEF TypeInv, QueueTyped, ProcsTyped, Opened
  <2>4. FilesTyped' /\ BookTyped'
    BY <1>1, <1>6, <2>2 DEF TypeInv, FilesTyped, BookTyped, Saved
  <2>5. Closes'
    BY <1>1, <2>2, SaveCloses, KindsDiffer DEF TypeInv, FilesTyped, Closes
  <2> QED BY <2>3, <2>4, <2>5 DEF TypeInv
<1> QED BY <1>3, <1>4, <1>5, <1>6 DEF Loads, Restored

LEMMA SavesTyped ==
  ASSUME TypeInv
  PROVE  /\ \A j \in DOMAIN saves : /\ j \in Nat /\ saves[j] \in Write
                                     /\ saves[j].proj \in Projects
                                     /\ saves[j].tasks \in Seq(Task)
         /\ BeingWritten \subseteq Projects
<1>1. saves \in Seq(Write)
  BY DEF TypeInv, FilesTyped
<1>2. \A j \in DOMAIN saves : j \in Nat /\ saves[j] \in Write
  BY <1>1
<1>3. \A j \in DOMAIN saves : saves[j].proj \in Projects /\ saves[j].tasks \in Seq(Task)
  BY <1>2 DEF Write
<1> QED BY <1>2, <1>3 DEF BeingWritten

LEMMA CutTyped ==
  ASSUME TypeInv, NEW S \in SUBSET Projects, Cut(S)
  PROVE  /\ disk' \in [Projects -> Seq(Task)] /\ lost' \subseteq Projects
         /\ \A p \in Projects : disk'[p] = disk[p] \/ (disk'[p] = << >> /\ p \in lost')
         /\ \A p \in Projects : p \notin lost' => p \notin lost /\ disk'[p] = disk[p]
<1>1. disk \in [Projects -> Seq(Task)] /\ lost \subseteq Projects /\ << >> \in Seq(Task)
  BY DEF TypeInv, FilesTyped
<1>2. lost' \subseteq Projects
  BY <1>1 DEF Cut
<1>3. disk' \in [Projects -> Seq(Task)]
  BY <1>1 DEF Cut
<1> QED BY <1>1, <1>2, <1>3 DEF Cut

LEMMA CrashTypes == ASSUME TypeInv, Crash PROVE TypeInv'
<1>1. /\ calls' = calls + 1 /\ calls < MaxCalls
      /\ cur' = NoProject /\ queue' = << >> /\ processing' = FALSE
      /\ restored' = {} /\ controller' = NoProc /\ procs' = [i \in ProcIds |-> FreeProc]
      /\ saves' = << >> /\ closing' = NoProject /\ opening' = NoProject
      /\ UNCHANGED <<wiki, merged, cancelled, unusable>>
  BY DEF Crash
<1>7. PICK S \in SUBSET BeingWritten : Cut(S)
  BY DEF Crash
<1>8. S \in SUBSET Projects
  BY <1>7, SavesTyped
<1>9. disk' \in [Projects -> Seq(Task)] /\ lost' \subseteq Projects
  BY <1>7, <1>8, CutTyped
<1>2. calls' \in 0..MaxCalls
  BY <1>1, DedupAssumption DEF TypeInv, BookTyped
<1>3. << >> \in Seq(Task) /\ << >> \in Seq(Write)
  OBVIOUS
<1>4. QueueTyped' /\ ProcsTyped' /\ Opened'
  BY <1>1, <1>3, FreeProcTyped DEF QueueTyped, ProcsTyped, Opened
<1>5. FilesTyped' /\ BookTyped'
  BY <1>1, <1>2, <1>3, <1>9 DEF TypeInv, FilesTyped, BookTyped
<1>6. Closes'
  BY <1>1 DEF Closes, OneClose, NoClose
<1> QED BY <1>4, <1>5, <1>6 DEF TypeInv

LEMMA FreedTyped ==
  ASSUME TypeInv, NEW i \in ProcIds
  PROVE  Freed(i) \in [ProcIds -> Proc] /\ procs[i].proj \in Projects
         /\ procs[i].task \in TaskIds /\ procs[i].view \subseteq TaskIds
  BY FreeProcTyped DEF TypeInv, ProcsTyped, Freed, Proc

LEMMA GotoTyped ==
  ASSUME TypeInv, NEW i \in ProcIds,
         NEW pc \in {"none", "registry", "failed", "start", "llm", "write", "end"}, Goto(i, pc)
  PROVE  procs' \in [ProcIds -> Proc]
  BY DEF TypeInv, ProcsTyped, Goto, Proc

\* A step of a call of processNext that saves, or changes no queue.
LEMMA ProcTypes ==
  ASSUME TypeInv, NEW i \in ProcIds, procs' \in [ProcIds -> Proc],
         controller' \in ProcIds \cup {NoProc}, processing' \in BOOLEAN,
         restored' \subseteq restored, merged' \subseteq TaskIds,
         wiki' \in [Projects -> SUBSET TaskIds], unusable' \in BOOLEAN,
         UNCHANGED <<cur, closing, opening, disk, lost, calls, cancelled>>,
         \/ UNCHANGED <<queue, saves>>
         \/ ~ Gone(i) /\ queue' \in Seq(Task) /\ Save(saves, procs[i].proj, <<"proc", i>>)
  PROVE  TypeInv'
<1>1. BookTyped' /\ ProcsTyped'
  BY DEF TypeInv, BookTyped, ProcsTyped
<1>2. CASE UNCHANGED <<queue, saves>>
  BY <1>1, <1>2 DEF TypeInv, QueueTyped, FilesTyped, Opened, Closes
<1>3. CASE ~ Gone(i) /\ queue' \in Seq(Task) /\ Save(saves, procs[i].proj, <<"proc", i>>)
  <2>1. procs[i].proj \in Projects /\ cur # NoProject
    BY <1>3, FreedTyped, DedupAssumption DEF Gone
  <2>2. Saved(saves, procs[i].proj, <<"proc", i>>)
    BY <1>3, <2>1, SaveFacts, KindsDiffer DEF TypeInv, FilesTyped
  <2>3. QueueTyped' /\ Opened'
    BY <1>3, <2>1 DEF TypeInv, QueueTyped, Opened
  <2>4. FilesTyped'
    BY <2>2 DEF TypeInv, FilesTyped, Saved
  <2>5. Closes'
    BY <2>2, SaveCloses, KindsDiffer DEF TypeInv, FilesTyped, Closes
  <2> QED BY <1>1, <2>3, <2>4, <2>5 DEF TypeInv
<1> QED BY <1>2, <1>3

LEMMA LookedUpTypes == ASSUME TypeInv, NEW i \in ProcIds, LookedUp(i) PROVE TypeInv'
<1>1. UNCHANGED <<cur, restored, controller, closing, opening, disk, lost, wiki, calls,
                  merged, cancelled, unusable>>
  BY DEF LookedUp
<1>2. controller' \in ProcIds \cup {NoProc} /\ restored' \subseteq restored
      /\ merged' \subseteq TaskIds /\ wiki' \in [Projects -> SUBSET TaskIds]
      /\ unusable' \in BOOLEAN
  BY <1>1 DEF TypeInv, ProcsTyped, BookTyped, FilesTyped
<1>3. CASE procs' = Freed(i) /\ UNCHANGED <<queue, processing, saves>>
  BY <1>1, <1>2, <1>3, FreedTyped, ProcTypes DEF TypeInv, QueueTyped
<1>4. ASSUME NEW st \in {"failed", "processing"}, NEW pc \in {"failed", "start"},
             ~ Gone(i), queue' = WithStatus(queue, Its(i), st), Goto(i, pc),
             Save(saves, procs[i].proj, <<"proc", i>>), processing' \in BOOLEAN
      PROVE  TypeInv'
  <2>1. queue' \in Seq(Task)
    BY <1>4, MarkedFacts DEF TypeInv, QueueTyped
  <2>2. procs' \in [ProcIds -> Proc]
    BY <1>4, GotoTyped
  <2> QED BY <1>1, <1>2, <1>4, <2>1, <2>2, ProcTypes
<1>5. CASE ~ Gone(i) /\ queue' = WithStatus(queue, Its(i), "failed") /\ Goto(i, "failed")
           /\ Save(saves, cur, <<"proc", i>>) /\ UNCHANGED processing
  BY <1>4, <1>5 DEF TypeInv, QueueTyped, Gone
<1>6. CASE ~ Gone(i) /\ processing' = TRUE /\ queue' = WithStatus(queue, Its(i), "processing")
           /\ Goto(i, "start") /\ Save(saves, procs[i].proj, <<"proc", i>>)
  BY <1>4, <1>6
<1> QED BY <1>3, <1>5, <1>6 DEF LookedUp

LEMMA AnsweredTypes == ASSUME TypeInv, NEW i \in ProcIds, Answered(i) PROVE TypeInv'
<1>1. /\ Goto(i, "write")
      /\ UNCHANGED <<cur, queue, processing, restored, controller, saves, closing,
                     opening, disk, lost, wiki, calls, merged, cancelled, unusable>>
  BY DEF Answered
<1>2. procs' \in [ProcIds -> Proc]
  BY <1>1, GotoTyped
<1> QED BY <1>1, <1>2, ProcTypes DEF TypeInv, QueueTyped, ProcsTyped, FilesTyped, BookTyped

LEMMA RewrittenTyped ==
  ASSUME TypeInv, NEW i \in ProcIds
  PROVE  Rewritten(i) \in [Projects -> SUBSET TaskIds]
  BY FreedTyped DEF Rewritten, TypeInv, FilesTyped

LEMMA MergedTypes == ASSUME TypeInv, NEW i \in ProcIds, Merged(i) PROVE TypeInv'
<1>1. /\ wiki' = Rewritten(i)
      /\ UNCHANGED <<cur, processing, closing, opening, disk, lost, calls, cancelled, unusable>>
  BY DEF Merged
<1>2. wiki' \in [Projects -> SUBSET TaskIds] /\ processing' \in BOOLEAN
      /\ unusable' \in BOOLEAN
  BY <1>1, RewrittenTyped DEF TypeInv, QueueTyped, BookTyped
<1>3. CASE procs' = Freed(i) /\ UNCHANGED <<queue, restored, controller, saves, merged>>
  BY <1>1, <1>2, <1>3, FreedTyped, ProcTypes DEF TypeInv, ProcsTyped, BookTyped
<1>4. CASE /\ ~ Gone(i) /\ controller' = NoProc /\ restored' = restored \ {procs[i].task}
           /\ queue' = Without(queue, {procs[i].task})
           /\ merged' = merged \cup {procs[i].task} /\ Goto(i, "end")
           /\ Save(saves, procs[i].proj, <<"proc", i>>)
  <2>1. queue' \in Seq(Task)
    BY <1>4, WithoutTyped DEF TypeInv, QueueTyped
  <2>2. procs' \in [ProcIds -> Proc]
    BY <1>4, GotoTyped
  <2>3. merged' \subseteq TaskIds /\ restored' \subseteq restored
    BY <1>4, FreedTyped DEF TypeInv, BookTyped
  <2> QED BY <1>1, <1>2, <1>4, <2>1, <2>2, <2>3, ProcTypes
<1> QED BY <1>3, <1>4 DEF Merged

LEMMA FailsTypes == ASSUME TypeInv, NEW i \in ProcIds, MergeFails(i) PROVE TypeInv'
<1>1. /\ wiki' \in {wiki, Rewritten(i)}
      /\ UNCHANGED <<cur, processing, restored, closing, opening, disk, lost, calls, merged,
                     cancelled, unusable>>
  BY DEF MergeFails
<1>2. wiki' \in [Projects -> SUBSET TaskIds] /\ processing' \in BOOLEAN
      /\ unusable' \in BOOLEAN /\ restored' \subseteq restored /\ merged' \subseteq TaskIds
  BY <1>1, RewrittenTyped DEF TypeInv, QueueTyped, BookTyped, FilesTyped
<1>3. CASE procs' = Freed(i) /\ UNCHANGED <<queue, controller, saves>>
  BY <1>1, <1>2, <1>3, FreedTyped, ProcTypes DEF TypeInv, ProcsTyped
<1>4. CASE /\ ~ Gone(i) /\ controller' = NoProc /\ queue' = Revise(queue, Its(i), Tried)
           /\ Goto(i, "end") /\ Save(saves, procs[i].proj, <<"proc", i>>)
  <2>1. queue' \in Seq(Task)
    BY <1>4, TriedFacts DEF TypeInv, QueueTyped
  <2>2. procs' \in [ProcIds -> Proc]
    BY <1>4, GotoTyped
  <2> QED BY <1>1, <1>2, <1>4, <2>1, <2>2, ProcTypes
<1> QED BY <1>3, <1>4 DEF MergeFails

\* A write that ended: the file is as it was, as the save has it, with those
\* it overtook still to come, or cut off.
Reached(j) ==
    \A p \in Projects :
       \/ disk'[p] = disk[p] /\ (p \in lost' <=> p \in lost)
       \/ /\ p = saves[j].proj /\ disk'[p] = saves[j].tasks
          /\ p \in lost' <=> Overtakes(j)
       \/ disk'[p] = << >> /\ p \in lost'

LEMMA WriteFileFacts ==
  ASSUME TypeInv, NEW j \in DOMAIN saves, WriteFile(j)
  PROVE  disk' \in [Projects -> Seq(Task)] /\ lost' \subseteq Projects /\ Reached(j)
<1>1. saves[j].proj \in Projects /\ saves[j].tasks \in Seq(Task)
  BY SavesTyped
<1>2. disk \in [Projects -> Seq(Task)] /\ lost \subseteq Projects
  BY DEF TypeInv, FilesTyped
<1>3. CASE /\ disk' = [disk EXCEPT ![saves[j].proj] = saves[j].tasks]
           /\ lost' = IF Overtakes(j) THEN lost \cup {saves[j].proj} ELSE lost \ {saves[j].proj}
  BY <1>1, <1>2, <1>3 DEF Reached
<1>4. CASE UNCHANGED <<disk, lost>>
  BY <1>2, <1>4 DEF Reached
<1>5. CASE Cut({saves[j].proj})
  <2>1. {saves[j].proj} \in SUBSET Projects
    BY <1>1
  <2>2. /\ disk' \in [Projects -> Seq(Task)] /\ lost' \subseteq Projects
        /\ \A p \in Projects : disk'[p] = disk[p] \/ (disk'[p] = << >> /\ p \in lost')
        /\ \A p \in Projects : p # saves[j].proj => disk'[p] = disk[p] /\ (p \in lost' <=> p \in lost)
        /\ disk'[saves[j].proj] = << >> /\ saves[j].proj \in lost'
    BY <1>1, <1>5, <2>1, CutTyped DEF Cut
  <2> QED BY <2>2 DEF Reached
<1> QED BY <1>3, <1>4, <1>5 DEF WriteFile

\* What a finished write leaves: the file typed, one save less.
LEMMA WrittenFacts ==
  ASSUME TypeInv, NEW j, Written(j)
  PROVE  /\ j \in DOMAIN saves /\ disk' \in [Projects -> Seq(Task)]
         /\ lost' \subseteq Projects /\ Reached(j)
         /\ saves[j] \in Write /\ Rest(j) \in Seq(Write)
         /\ OneClose(Rest(j))
         /\ closing = NoProject => NoClose(Rest(j))
         /\ IsClose(saves[j]) => NoClose(Rest(j))
<1>1. j \in DOMAIN saves /\ saves \in Seq(Write) /\ saves[j] \in Write
  BY DEF Written, TypeInv, FilesTyped
<1> DEFINE w == Rest(j)
<1>2. /\ w \in Seq(Write) /\ Len(w) = Len(saves) - 1
      /\ \A i \in DOMAIN w : (i < j => i \in DOMAIN saves /\ w[i] = saves[i])
                          /\ (i >= j => i + 1 \in DOMAIN saves /\ w[i] = saves[i + 1])
      /\ OneClose(saves) => OneClose(w)
      /\ NoClose(saves) => NoClose(w)
      /\ OneClose(saves) /\ IsClose(saves[j]) => NoClose(w)
  BY <1>1, RestFacts
<1> HIDE DEF w
<1>3. disk' \in [Projects -> Seq(Task)] /\ lost' \subseteq Projects /\ Reached(j)
  BY <1>1, WriteFileFacts DEF Written
<1>4. OneClose(saves) /\ (closing = NoProject => NoClose(saves))
  BY DEF TypeInv, Closes
<1> QED BY <1>1, <1>2, <1>3, <1>4 DEF w

\* What follows a save that is not a pause's.
LEMMA DiskTypes ==
  ASSUME TypeInv, NEW j, Written(j), saves' = Rest(j),
         procs' \in [ProcIds -> Proc], controller' \in ProcIds \cup {NoProc},
         processing' \in BOOLEAN, unusable' \in BOOLEAN,
         UNCHANGED <<cur, queue, restored, closing, opening, wiki, calls, merged, cancelled>>
  PROVE  TypeInv'
<1>1. QueueTyped' /\ ProcsTyped' /\ BookTyped' /\ Opened'
  BY DEF TypeInv, QueueTyped, ProcsTyped, BookTyped, Opened
<1>2. FilesTyped' /\ Closes'
  BY WrittenFacts DEF TypeInv, FilesTyped, Closes
<1> QED BY <1>1, <1>2 DEF TypeInv

LEMMA SavedCallTypes == ASSUME TypeInv, NEW j, SavedCall(j) PROVE TypeInv'
<1>1. /\ Written(j) /\ saves' = Rest(j) /\ Kick(cur, procs)
      /\ UNCHANGED <<cur, queue, processing, restored, controller, closing, opening, wiki,
                     calls, merged, cancelled, unusable>>
  BY DEF SavedCall
<1>2. Kicked(cur, procs)
  BY <1>1, KickFacts DEF TypeInv, QueueTyped, ProcsTyped, Opened
<1>3. procs' \in [ProcIds -> Proc] /\ processing' \in BOOLEAN /\ unusable' \in BOOLEAN
      /\ controller' \in ProcIds \cup {NoProc}
  BY <1>1, <1>2 DEF Kicked, TypeInv, QueueTyped, BookTyped, ProcsTyped
<1> QED BY <1>1, <1>3, DiskTypes

LEMMA SavedPlainTypes ==
  ASSUME TypeInv, NEW j, SavedOpen(j) \/ SavedUnusable(j)
  PROVE  TypeInv'
<1>1. /\ Written(j) /\ saves' = Rest(j)
      /\ UNCHANGED <<cur, queue, processing, restored, controller, procs, closing, opening,
                     wiki, calls, merged, cancelled, unusable>>
  BY DEF SavedOpen, SavedUnusable
<1> QED BY <1>1, DiskTypes DEF TypeInv, QueueTyped, BookTyped, ProcsTyped

LEMMA SavedCloseTypes == ASSUME TypeInv, NEW j, SavedClose(j) PROVE TypeInv'
<1>1. /\ Written(j) /\ IsClose(saves[j]) /\ saves' = Rest(j)
      /\ queue' = << >> /\ restored' = {} /\ cur' = NoProject /\ closing' = NoProject
      /\ UNCHANGED <<processing, controller, procs, opening, wiki, calls, merged, cancelled,
                     unusable>>
  BY DEF SavedClose, IsClose
<1>2. << >> \in Seq(Task)
  OBVIOUS
<1>3. opening = NoProject
  BY <1>1, WrittenFacts DEF TypeInv, Opened, Closes, NoClose
<1>4. QueueTyped' /\ ProcsTyped' /\ Opened' /\ BookTyped'
  BY <1>1, <1>2, <1>3 DEF TypeInv, QueueTyped, ProcsTyped, Opened, BookTyped
<1>5. FilesTyped' /\ Closes'
  BY <1>1, WrittenFacts DEF TypeInv, FilesTyped, Closes
<1> QED BY <1>4, <1>5 DEF TypeInv

LEMMA StartTyped ==
  ASSUME TypeInv, NEW i \in ProcIds
  PROVE  [procs EXCEPT ![i].pc = "llm", ![i].view = wiki[procs[i].proj]]
            \in [ProcIds -> Proc]
<1>1. wiki[procs[i].proj] \in SUBSET TaskIds
  BY FreedTyped DEF TypeInv, FilesTyped
<1> QED BY <1>1, ZenonT(60) DEF TypeInv, ProcsTyped, Proc

LEMMA SavedStartTypes ==
  ASSUME TypeInv, NEW i \in ProcIds, NEW j, SavedStart(i, j) PROVE TypeInv'
<1>1. /\ Written(j)
      /\ UNCHANGED <<cur, restored, closing, opening, wiki, calls, merged, cancelled>>
  BY DEF SavedStart
<1>2. processing \in BOOLEAN /\ unusable \in BOOLEAN /\ controller \in ProcIds \cup {NoProc}
  BY DEF TypeInv, QueueTyped, BookTyped, ProcsTyped
<1>3. CASE /\ procs' = Freed(i) /\ saves' = Rest(j)
           /\ UNCHANGED <<queue, processing, controller, unusable>>
  BY <1>1, <1>2, <1>3, FreedTyped, DiskTypes
<1>4. CASE /\ ~ Gone(i) /\ queue' = WithStatus(queue, Its(i), "failed")
           /\ processing' = FALSE /\ unusable' = TRUE /\ procs' = Freed(i)
           /\ Save(Rest(j), procs[i].proj, <<"end">>) /\ UNCHANGED controller
  <2>1. queue' \in Seq(Task)
    BY <1>4, MarkedFacts DEF TypeInv, QueueTyped
  <2>2. procs[i].proj \in Projects /\ cur # NoProject
    BY <1>4, FreedTyped, DedupAssumption DEF Gone
  <2>3. Rest(j) \in Seq(Write) /\ OneClose(Rest(j))
        /\ (closing = NoProject => NoClose(Rest(j)))
        /\ disk' \in [Projects -> Seq(Task)] /\ lost' \subseteq Projects
    BY <1>1, WrittenFacts
  <2>4. Saved(Rest(j), procs[i].proj, <<"end">>)
    BY <1>4, <2>1, <2>2, <2>3, SaveFacts, KindsDiffer
  <2>5. QueueTyped' /\ ProcsTyped' /\ Opened' /\ BookTyped'
    BY <1>1, <1>4, <2>1, <2>2, FreedTyped
       DEF TypeInv, QueueTyped, ProcsTyped, Opened, BookTyped
  <2>6. FilesTyped'
    BY <1>1, <2>3, <2>4 DEF TypeInv, FilesTyped, Saved
  <2>7. Closes'
    BY <1>1, <2>3, <2>4, SaveCloses, KindsDiffer
  <2> QED BY <2>5, <2>6, <2>7 DEF TypeInv
<1>5. CASE /\ controller' = i
           /\ procs' = [procs EXCEPT ![i].pc = "llm", ![i].view = wiki[procs[i].proj]]
           /\ saves' = Rest(j)
           /\ UNCHANGED <<queue, processing, unusable>>
  BY <1>1, <1>2, <1>5, StartTyped, DiskTypes
<1> QED BY <1>3, <1>4, <1>5 DEF SavedStart

LEMMA SavedEndTypes ==
  ASSUME TypeInv, NEW i \in ProcIds, NEW j, SavedEnd(i, j) PROVE TypeInv'
<1>1. /\ Written(j) /\ saves' = Rest(j) /\ GoOn(i)
      /\ processing' = IF procs[i].pc = "end" THEN FALSE ELSE processing
      /\ UNCHANGED <<cur, queue, restored, controller, closing, opening, wiki, calls,
                     merged, cancelled, unusable>>
  BY DEF SavedEnd
<1>2. Freed(i) \in [ProcIds -> Proc] /\ procs[i].proj \in Projects
  BY FreedTyped
<1>3. Kicked(procs[i].proj, Freed(i))
  BY <1>1, <1>2, KickFacts, DedupAssumption DEF GoOn, TypeInv, QueueTyped
<1>4. procs' \in [ProcIds -> Proc] /\ processing' \in BOOLEAN /\ unusable' \in BOOLEAN
      /\ controller' \in ProcIds \cup {NoProc}
  BY <1>1, <1>3 DEF Kicked, TypeInv, QueueTyped, BookTyped, ProcsTyped
<1> QED BY <1>1, <1>4, DiskTypes

LEMMA TypeInvStep == TypeInv /\ [Next]_vars => TypeInv'
<1> SUFFICES ASSUME TypeInv, [Next]_vars PROVE TypeInv'
  OBVIOUS
<1>1. CASE UserStep
  BY <1>1, EnqueueTypes, RetryTypes, CancelTypes, ResumeTypes, PauseTypes, RestoreTypes,
     CrashTypes DEF UserStep
<1>2. CASE RestoreLoad
  BY <1>2, LoadTypes
<1>3. CASE DiskStep
  BY <1>3, SavedCallTypes, SavedCloseTypes, SavedPlainTypes, SavedStartTypes, SavedEndTypes
     DEF DiskStep
<1>4. CASE \E i \in ProcIds : ProcStep(i)
  BY <1>4, LookedUpTypes, AnsweredTypes, MergedTypes, FailsTypes DEF ProcStep
<1>5. CASE UNCHANGED vars
  BY <1>5 DEF vars, TypeInv, QueueTyped, ProcsTyped, FilesTyped, BookTyped, Opened, Closes
<1> QED BY <1>1, <1>2, <1>3, <1>4, <1>5 DEF Next

\* In every reachable state the queue has its type, only an open project has
\* a queue, and a pause of a project has one save.
THEOREM DedupInvariance == Spec => []TypeInv
<1>1. TypeInv /\ [Next]_vars => TypeInv'
  BY TypeInvStep
<1> QED BY <1>1, TypeInvInit, PTL DEF Spec

\* Every variable of the queue of merges keeps its type, and what is written
\* to a file is a queue, whatever overlaps and whatever fails.
THEOREM DedupTyping == Spec => []TypeOK
  BY DedupInvariance, TypeInvGives, PTL

-----------------------------------------------------------------------------
(* Merges of a restored queue wait for the user *)

\* A call that looks up a task of the queue has not taken one that waits.
Held == \A i \in ProcIds :
          procs[i].pc = "registry" /\ procs[i].own => procs[i].task \notin restored

\* A step that releases tasks, and moves no call to the lookup.
LEMMA HeldKept ==
  ASSUME Held, restored' \subseteq restored,
         \A i \in ProcIds : procs'[i].pc = "registry" =>
            procs[i].pc = "registry" /\ procs'[i].task = procs[i].task
            /\ procs'[i].own = procs[i].own
  PROVE  Held'
  BY DEF Held

LEMMA HeldKick ==
  ASSUME Held, restored' \subseteq restored, NEW p, NEW ps, Kicked(p, ps),
         \A i \in ProcIds : ps[i] = procs[i] \/ ps[i].pc # "registry"
  PROVE  Held'
  BY DEF Held, Kicked

LEMMA ProcsMoved ==
  ASSUME TypeInv
  PROVE  /\ \A i \in ProcIds : FreeProc.pc = "none"
         /\ \A i, k \in ProcIds : k # i => Freed(i)[k] = procs[k]
         /\ \A i \in ProcIds : Freed(i)[i] = FreeProc
         /\ \A pc : \A i \in ProcIds : Goto(i, pc) => procs'[i].pc = pc
         /\ \A pc : \A i, k \in ProcIds : Goto(i, pc) /\ k # i => procs'[k] = procs[k]
  BY DEF TypeInv, ProcsTyped, Proc, FreeProc, Freed, Goto

LEMMA AbortMoves ==
  ASSUME TypeInv, NEW i \in ProcIds
  PROVE  LET a == AbortCurrent(procs)[i] IN
         /\ a.pc = procs[i].pc /\ a.task = procs[i].task
         /\ a.own = procs[i].own /\ a.proj = procs[i].proj
  BY DEF TypeInv, ProcsTyped, Proc, AbortCurrent

LEMMA HeldStep == TypeInv /\ Held /\ [Next]_vars => Held'
<1> SUFFICES ASSUME TypeInv, Held, [Next]_vars PROVE Held'
  OBVIOUS
<1>1. ASSUME NEW id \in TaskIds, EnqueueMerge(id) PROVE Held'
  BY <1>1, HeldKept DEF EnqueueMerge
<1>2. ASSUME NEW id \in TaskIds, RetryTask(id) PROVE Held'
  BY <1>2, HeldKept DEF RetryTask
<1>3. ASSUME NEW id \in TaskIds, CancelTask(id) PROVE Held'
  <2>1. restored' \subseteq restored /\ procs' \in {procs, AbortCurrent(procs)}
    BY <1>3 DEF CancelTask
  <2> QED BY <2>1, AbortMoves, HeldKept
<1>4. CASE ResumeProcessing
  <2>1. restored' = {}
    BY <1>4 DEF ResumeProcessing
  <2> QED BY <2>1 DEF Held
<1>5. CASE PauseQueue
  <2>1. restored' = restored /\ procs' = AbortCurrent(procs)
    BY <1>5 DEF PauseQueue
  <2> QED BY <2>1, AbortMoves, HeldKept
<1>6. ASSUME NEW p \in Projects, RestoreQueue(p) PROVE Held'
  BY <1>6, HeldKept DEF RestoreQueue
<1>7. CASE Crash
  BY <1>7 DEF Crash, Held
<1>8. CASE RestoreLoad
  <2>1. CASE UNCHANGED <<queue, restored, procs, saves>>
    BY <2>1, HeldKept
  <2>2. CASE procs' = [i \in ProcIds |-> [procs[i] EXCEPT !.own = FALSE]]
    BY <2>2 DEF Held, TypeInv, ProcsTyped, Proc
  <2> QED BY <1>8, <2>1, <2>2 DEF RestoreLoad, Restored
<1>9. ASSUME NEW j, SavedCall(j) PROVE Held'
  <2>1. Kick(cur, procs) /\ queue' = queue /\ cur' = cur /\ restored' = restored
    BY <1>9 DEF SavedCall
  <2>2. Kicked(cur, procs)
    BY <2>1, KickFacts DEF TypeInv, QueueTyped, ProcsTyped, Opened
  <2> QED BY <2>1, <2>2, HeldKick
<1>10. ASSUME NEW j, SavedOpen(j) \/ SavedUnusable(j) PROVE Held'
  BY <1>10, HeldKept DEF SavedOpen, SavedUnusable
<1>11. ASSUME NEW j, SavedClose(j) PROVE Held'
  BY <1>11, HeldKept DEF SavedClose
<1>12. ASSUME NEW i \in ProcIds, NEW j, SavedStart(i, j) PROVE Held'
  <2>1. restored' = restored
        /\ \/ procs' = Freed(i)
           \/ procs' = [procs EXCEPT ![i].pc = "llm", ![i].view = wiki[procs[i].proj]]
    BY <1>12 DEF SavedStart
  <2>2. CASE procs' = Freed(i)
    BY <2>1, <2>2, ProcsMoved, HeldKept
  <2>3. CASE procs' = [procs EXCEPT ![i].pc = "llm", ![i].view = wiki[procs[i].proj]]
    <3>1. \A k \in ProcIds : procs'[k] = procs[k] \/ procs'[k].pc = "llm"
      BY <2>3 DEF TypeInv, ProcsTyped, Proc
    <3> QED BY <2>1, <3>1, HeldKept
  <2> QED BY <2>1, <2>2, <2>3
<1>13. ASSUME NEW i \in ProcIds, NEW j, SavedEnd(i, j) PROVE Held'
  <2>1. Kick(procs[i].proj, Freed(i)) /\ queue' = queue /\ restored' = restored
    BY <1>13 DEF SavedEnd, GoOn
  <2>2. Kicked(procs[i].proj, Freed(i))
    BY <2>1, FreedTyped, KickFacts, DedupAssumption DEF TypeInv, QueueTyped
  <2> QED BY <2>1, <2>2, ProcsMoved, HeldKick
<1>14. ASSUME NEW i \in ProcIds, LookedUp(i) PROVE Held'
  <2>1. restored' = restored /\ (procs' = Freed(i) \/ Goto(i, "failed") \/ Goto(i, "start"))
    BY <1>14 DEF LookedUp
  <2> QED BY <2>1, ProcsMoved, HeldKept
<1>15. ASSUME NEW i \in ProcIds, Answered(i) PROVE Held'
  <2>1. restored' = restored /\ Goto(i, "write")
    BY <1>15 DEF Answered
  <2> QED BY <2>1, ProcsMoved, HeldKept
<1>16. ASSUME NEW i \in ProcIds, Merged(i) \/ MergeFails(i) PROVE Held'
  <2>1. restored' \subseteq restored /\ (procs' = Freed(i) \/ Goto(i, "end"))
    BY <1>16 DEF Merged, MergeFails
  <2> QED BY <2>1, ProcsMoved, HeldKept
<1>17. CASE UNCHANGED vars
  BY <1>17 DEF vars, Held
<1> QED BY <1>1, <1>2, <1>3, <1>4, <1>5, <1>6, <1>7, <1>8, <1>9, <1>10, <1>11, <1>12,
           <1>13, <1>14, <1>15, <1>16, <1>17 DEF Next, UserStep, DiskStep, ProcStep

\* No merge found in the file of a project is begun before the user asks for
\* it (resume, retry, or the same group again), whatever calls of processNext
\* of an earlier session are still on their way, and whatever overlaps.
THEOREM DedupNoSurprise == Spec => NoSurpriseMerge
<1>1. Init => Held
  BY DEF Init, Held, FreeProc
<1>2. Spec => []Held
  BY <1>1, HeldStep, DedupInvariance, PTL DEF Spec
<1>3. ASSUME Held, NEW i \in ProcIds
      PROVE  (procs[i].pc = "registry" /\ procs'[i].pc = "start" /\ procs[i].own)
                => procs[i].task \notin restored
  BY <1>3 DEF Held
<1>4. Held => [\A i \in ProcIds :
          (procs[i].pc = "registry" /\ procs'[i].pc = "start" /\ procs[i].own)
              => procs[i].task \notin restored]_vars
  BY <1>3
<1> QED BY <1>2, <1>4, PTL DEF NoSurpriseMerge

-----------------------------------------------------------------------------
(* No merge is lost from the files *)

Done == merged \cup cancelled

\* d: the files, s: the writes under way, q: the queue of project p, L: the
\* projects whose file is not to be counted on, D: the merges that may go.
\* Every later stage has the tasks of the earlier ones.
InWrites(d, s, L, D) ==
    \A j \in DOMAIN s : s[j].proj \notin L => Ids(d[s[j].proj]) \ D \subseteq Ids(s[j].tasks)
InOrder(s, D) == \A j, k \in DOMAIN s : j < k /\ s[j].proj = s[k].proj =>
                    Ids(s[j].tasks) \ D \subseteq Ids(s[k].tasks)
InQueue(d, s, q, p, L, D) ==
    /\ p \notin L => Ids(d[p]) \ D \subseteq Ids(q)
    /\ \A j \in DOMAIN s : s[j].proj = p => Ids(s[j].tasks) \ D \subseteq Ids(q)

LEMMA ChainGoes ==
  ASSUME NEW d, NEW s, NEW L, NEW D, NEW E, D \subseteq E
  PROVE  /\ InWrites(d, s, L, D) => InWrites(d, s, L, E)
         /\ InOrder(s, D) => InOrder(s, E)
         /\ \A q, w, p : InQueue(d, s, q, p, L, D) /\ Ids(q) \ E \subseteq Ids(w)
               => InQueue(d, s, w, p, L, E)
<1>1. InWrites(d, s, L, D) => InWrites(d, s, L, E)
  BY DEF InWrites
<1>2. InOrder(s, D) => InOrder(s, E)
  <2> SUFFICES ASSUME InOrder(s, D), NEW j \in DOMAIN s, NEW k \in DOMAIN s,
                      j < k, s[j].proj = s[k].proj
               PROVE  Ids(s[j].tasks) \ E \subseteq Ids(s[k].tasks)
    BY DEF InOrder
  <2>1. Ids(s[j].tasks) \ D \subseteq Ids(s[k].tasks)
    BY DEF InOrder
  <2> QED BY <2>1
<1>3. ASSUME NEW q, NEW w, NEW p, InQueue(d, s, q, p, L, D), Ids(q) \ E \subseteq Ids(w)
      PROVE  InQueue(d, s, w, p, L, E)
  BY <1>3 DEF InQueue
<1> QED BY <1>1, <1>2, <1>3

\* A save of the queue is the last stage but the queue itself.
LEMMA ChainGrows ==
  ASSUME NEW d, NEW waiting \in Seq(Write), NEW p, NEW k, NEW L, NEW D, Saved(waiting, p, k),
         InWrites(d, waiting, L, D), InOrder(waiting, D), InQueue(d, waiting, queue', p, L, D)
  PROVE  /\ InWrites(d, saves', L, D) /\ InOrder(saves', D)
         /\ InQueue(d, saves', queue', p, L, D)
<1> DEFINE n == Len(waiting) + 1
<1>1. /\ DOMAIN saves' = DOMAIN waiting \cup {n}
      /\ \A j \in DOMAIN waiting : saves'[j] = waiting[j]
      /\ saves'[n].proj = p /\ saves'[n].tasks = queue'
  BY DEF Saved
<1>2. n \in Nat /\ \A j \in DOMAIN waiting : j \in Nat /\ ~ (n < j)
  BY DEF Saved
<1>3. ~ (n < n)
  BY <1>2
<1> HIDE DEF n
<1>4. InWrites(d, saves', L, D)
  BY <1>1 DEF InWrites, InQueue
<1>5. InQueue(d, saves', queue', p, L, D)
  BY <1>1 DEF InQueue
<1>6. InOrder(saves', D)
  <2> SUFFICES ASSUME NEW i \in DOMAIN saves', NEW j \in DOMAIN saves',
                      i < j, saves'[i].proj = saves'[j].proj
               PROVE  Ids(saves'[i].tasks) \ D \subseteq Ids(saves'[j].tasks)
    BY DEF InOrder
  <2>1. i \in DOMAIN waiting
    BY <1>1, <1>2, <1>3
  <2>2. CASE j \in DOMAIN waiting
    BY <1>1, <2>1, <2>2 DEF InOrder
  <2>3. CASE j = n
    BY <1>1, <2>1, <2>3 DEF InQueue
  <2> QED BY <1>1, <2>2, <2>3
<1> QED BY <1>4, <1>5, <1>6

\* The file a queue is saved in keeps the merges, unless older saves of it end
\* later; then it is one of those that are not to be counted on.
LEMMA ChainWritten ==
  ASSUME TypeInv, NEW j, Written(j), NEW D,
         InWrites(disk, saves, lost, D), InOrder(saves, D)
  PROVE  /\ \A p \in Projects : p \notin lost \cup lost' => Ids(disk[p]) \ D \subseteq Ids(disk'[p])
         /\ InWrites(disk', Rest(j), lost', D) /\ InOrder(Rest(j), D)
         /\ \A q, p : p \in Projects /\ InQueue(disk, saves, q, p, lost, D)
               => InQueue(disk', Rest(j), q, p, lost', D)
<1>1. /\ j \in DOMAIN saves /\ saves \in Seq(Write) /\ saves[j] \in Write
      /\ disk \in [Projects -> Seq(Task)] /\ Reached(j) /\ j \in Nat
  BY WrittenFacts DEF TypeInv, FilesTyped
<1> DEFINE w == Rest(j)
<1>2. /\ w \in Seq(Write) /\ Len(w) = Len(saves) - 1
      /\ \A i \in DOMAIN w : (i < j => i \in DOMAIN saves /\ w[i] = saves[i])
                          /\ (i >= j => i + 1 \in DOMAIN saves /\ w[i] = saves[i + 1])
      /\ OneClose(saves) => OneClose(w)
      /\ NoClose(saves) => NoClose(w)
      /\ OneClose(saves) /\ IsClose(saves[j]) => NoClose(w)
  BY <1>1, RestFacts
<1> HIDE DEF w
<1> DEFINE at(i) == IF i < j THEN i ELSE i + 1
<1>3. \A i \in DOMAIN w : /\ i \in Nat /\ at(i) \in DOMAIN saves /\ w[i] = saves[at(i)]
                          /\ at(i) # j /\ at(i) \in Nat /\ w[i].proj \in Projects
  <2> TAKE i \in DOMAIN w
  <2>1. i \in Nat /\ w[i] \in Write
    BY <1>2
  <2>2. w[i].proj \in Projects
    BY <2>1 DEF Write
  <2> QED BY <1>1, <1>2, <2>1, <2>2
<1>4. \A a, b \in DOMAIN w : a < b => at(a) < at(b)
  BY <1>1, <1>3
<1> HIDE DEF at
<1>5. \A p \in Projects : p \notin lost' =>
         \/ disk'[p] = disk[p] /\ p \notin lost
         \/ p = saves[j].proj /\ disk'[p] = saves[j].tasks /\ ~ Overtakes(j)
  BY <1>1 DEF Reached
<1>6. ASSUME NEW p \in Projects, p \notin lost \cup lost'
      PROVE  Ids(disk[p]) \ D \subseteq Ids(disk'[p])
  BY <1>1, <1>5, <1>6 DEF InWrites
<1>7. InOrder(w, D)
  <2> SUFFICES ASSUME NEW a \in DOMAIN w, NEW b \in DOMAIN w, a < b, w[a].proj = w[b].proj
               PROVE  Ids(w[a].tasks) \ D \subseteq Ids(w[b].tasks)
    BY DEF InOrder
  <2>1. at(a) < at(b)
    BY <1>4
  <2> QED BY <1>3, <2>1 DEF InOrder
<1>8. InWrites(disk', w, lost', D)
  <2> SUFFICES ASSUME NEW i \in DOMAIN w, w[i].proj \notin lost'
               PROVE  Ids(disk'[w[i].proj]) \ D \subseteq Ids(w[i].tasks)
    BY DEF InWrites
  <2>1. CASE disk'[w[i].proj] = disk[w[i].proj] /\ w[i].proj \notin lost
    BY <1>3, <2>1 DEF InWrites
  <2>2. CASE /\ w[i].proj = saves[j].proj /\ disk'[w[i].proj] = saves[j].tasks
             /\ ~ Overtakes(j)
    <3>1. j < at(i)
      <4>1. ~ (at(i) < j)
        BY <1>3, <2>2 DEF Overtakes
      <4> QED BY <1>1, <1>3, <4>1
    <3> QED BY <1>1, <1>3, <2>2, <3>1 DEF InOrder
  <2> QED BY <1>3, <1>5, <2>1, <2>2
<1>9. ASSUME NEW q, NEW p \in Projects, InQueue(disk, saves, q, p, lost, D)
      PROVE  InQueue(disk', w, q, p, lost', D)
  <2>1. p \notin lost' => Ids(disk'[p]) \ D \subseteq Ids(q)
    BY <1>1, <1>5, <1>9 DEF InQueue
  <2>2. \A i \in DOMAIN w : w[i].proj = p => Ids(w[i].tasks) \ D \subseteq Ids(q)
    BY <1>3, <1>9 DEF InQueue
  <2> QED BY <2>1, <2>2 DEF InQueue
<1> QED BY <1>6, <1>7, <1>8, <1>9 DEF w

\* While the file of a project is read nothing of that project is under way.
KeepInv ==
    /\ InWrites(disk, saves, lost, Done) /\ InOrder(saves, Done)
    /\ cur # NoProject /\ opening = NoProject => InQueue(disk, saves, queue, cur, lost, Done)
    /\ opening # NoProject =>
          /\ saves = << >>
          /\ \A i \in ProcIds : procs[i].pc = "none" \/ procs[i].proj # opening

LEMMA QuietKeeps ==
  ASSUME KeepInv, UNCHANGED <<disk, lost, saves, queue, cur, opening>>, Done \subseteq Done',
         \/ opening = NoProject
         \/ \A i \in ProcIds : procs'[i].pc # "none" =>
               procs[i].pc # "none" /\ procs'[i].proj = procs[i].proj
  PROVE  KeepInv'
<1>1. InWrites(disk, saves, lost, Done') /\ InOrder(saves, Done')
      /\ (cur # NoProject /\ opening = NoProject => InQueue(disk, saves, queue, cur, lost, Done'))
  BY ChainGoes DEF KeepInv
<1> QED BY <1>1 DEF KeepInv

LEMMA SaveKeeps ==
  ASSUME TypeInv, KeepInv, NEW k, cur # NoProject, Saved(saves, cur, k),
         opening = NoProject, UNCHANGED <<disk, lost, cur, opening>>, Done \subseteq Done',
         Ids(queue) \ Done' \subseteq Ids(queue')
  PROVE  KeepInv'
<1>1. InWrites(disk, saves, lost, Done') /\ InOrder(saves, Done')
      /\ InQueue(disk, saves, queue', cur, lost, Done')
  BY ChainGoes DEF KeepInv
<1>2. InWrites(disk, saves', lost, Done') /\ InOrder(saves', Done')
      /\ InQueue(disk, saves', queue', cur, lost, Done')
  BY <1>1, ChainGrows DEF TypeInv, FilesTyped
<1> QED BY <1>2 DEF KeepInv

LEMMA OpeningEmpty ==
  ASSUME KeepInv, NEW j, Written(j)
  PROVE  opening = NoProject
  BY DEF KeepInv, Written

LEMMA RestKeeps ==
  ASSUME TypeInv, KeepInv, NEW j, Written(j), saves' = Rest(j),
         UNCHANGED <<cur, queue, opening, merged, cancelled>>
  PROVE  KeepInv'
<1>1. opening = NoProject /\ Done' = Done
  BY OpeningEmpty DEF Done
<1>2. InWrites(disk', saves', lost', Done) /\ InOrder(saves', Done)
      /\ \A q, p : p \in Projects /\ InQueue(disk, saves, q, p, lost, Done)
               => InQueue(disk', saves', q, p, lost', Done)
  BY ChainWritten DEF KeepInv
<1>3. cur # NoProject => InQueue(disk', saves', queue, cur, lost', Done)
  BY <1>1, <1>2 DEF KeepInv, TypeInv, QueueTyped
<1> QED BY <1>1, <1>2, <1>3 DEF KeepInv

\* What the steps do to the tasks of the queue.
LEMMA QueueIds ==
  ASSUME TypeInv
  PROVE  /\ \A S : Ids(Fresh(queue, S)) = Ids(queue)
         /\ \A S, st : st \in {"pending", "processing", "failed"}
               => Ids(WithStatus(queue, S, st)) = Ids(queue)
         /\ \A S : Ids(Revise(queue, S, Tried)) = Ids(queue)
         /\ \A S : Ids(Without(queue, S)) = Ids(queue) \ S
         /\ Ids(Interrupted(queue)) = Ids(queue)
         /\ \A t \in Task : Ids(Append(queue, t)) = Ids(queue) \cup {t.id}
<1>1. queue \in Seq(Task)
  BY DEF TypeInv, QueueTyped
<1>2. \A S : Ids(Fresh(queue, S)) = Ids(queue)
  BY <1>1, FreshFacts, SameIds
<1>3. \A S, st : st \in {"pending", "processing", "failed"}
               => Ids(WithStatus(queue, S, st)) = Ids(queue)
  BY <1>1, MarkedFacts, SameIds
<1>4. \A S : Ids(Revise(queue, S, Tried)) = Ids(queue)
  BY <1>1, TriedFacts, SameIds
<1>5. \A S : Ids(Without(queue, S)) = Ids(queue) \ S
  BY <1>1, WithoutIds
<1>6. Ids(Interrupted(queue)) = Ids(queue)
  BY <1>1, InterruptedTyped, SameIds
<1>7. \A t \in Task : Ids(Append(queue, t)) = Ids(queue) \cup {t.id}
  BY <1>1, AppendTask
<1> QED BY <1>2, <1>3, <1>4, <1>5, <1>6, <1>7

LEMMA CallKeeps ==
  ASSUME TypeInv, KeepInv, TypeInv', NEW op, Call(op), cur # NoProject,
         UNCHANGED <<disk, lost, cur, opening>>, Done \subseteq Done',
         Ids(queue) \ Done' \subseteq Ids(queue'),
         NEW k \in SaveKinds, Save(saves, cur, k)
  PROVE  KeepInv'
<1>1. opening = NoProject
  BY DEF Call, Idle
<1>2. Saved(saves, cur, k)
  BY SaveFacts DEF TypeInv, QueueTyped, FilesTyped
<1> QED BY <1>1, <1>2, SaveKeeps

LEMMA UserKeeps ==
  ASSUME TypeInv, KeepInv, TypeInv', UserStep, "switch" \notin Overlap
  PROVE  KeepInv'
<1>1. ASSUME NEW id \in TaskIds, EnqueueMerge(id) PROVE KeepInv'
  <2> DEFINE new == [id |-> id, st |-> "pending", tries |-> 0]
  <2>1. /\ Call("enqueue") /\ cur # NoProject /\ Save(saves, cur, <<"call">>)
        /\ queue' = IF id \notin Ids(queue) THEN Append(queue, new)
                    ELSE Fresh(queue, {id} \cap Having(queue, "failed"))
        /\ UNCHANGED <<cur, opening, disk, lost, merged, cancelled>>
    BY <1>1 DEF EnqueueMerge
  <2>2. new \in Task
    BY DEF Task
  <2> HIDE DEF new
  <2>3. Ids(queue) \subseteq Ids(queue') /\ Done' = Done
    BY <2>1, <2>2, QueueIds DEF Done
  <2> QED BY <2>1, <2>3, CallKeeps, KindsDiffer
<1>2. ASSUME NEW id \in TaskIds, RetryTask(id) PROVE KeepInv'
  <2>1. /\ Call("retry") /\ id \in Ids(queue) /\ queue' = Fresh(queue, {id})
        /\ Save(saves, cur, <<"call">>)
        /\ UNCHANGED <<cur, opening, disk, lost, merged, cancelled>>
    BY <1>2 DEF RetryTask
  <2>2. cur # NoProject
    BY <2>1 DEF Ids, TypeInv, Opened
  <2>3. Ids(queue') = Ids(queue) /\ Done' = Done
    BY <2>1, QueueIds DEF Done
  <2> QED BY <2>1, <2>2, <2>3, CallKeeps, KindsDiffer
<1>3. ASSUME NEW id \in TaskIds, CancelTask(id) PROVE KeepInv'
  <2>1. /\ Call("cancel") /\ id \in Ids(queue) /\ queue' = Without(queue, {id})
        /\ cancelled' = cancelled \cup {id} /\ Save(saves, cur, <<"call">>)
        /\ UNCHANGED <<cur, opening, disk, lost, merged>>
    BY <1>3 DEF CancelTask
  <2>2. cur # NoProject
    BY <2>1 DEF Ids, TypeInv, Opened
  <2>3. Ids(queue) \ Done' \subseteq Ids(queue') /\ Done \subseteq Done'
    BY <2>1, QueueIds DEF Done
  <2> QED BY <2>1, <2>2, <2>3, CallKeeps, KindsDiffer
<1>4. CASE ResumeProcessing
  <2>1. Call("resume") /\ UNCHANGED <<disk, lost, saves, queue, cur, opening, merged, cancelled>>
    BY <1>4 DEF ResumeProcessing
  <2> QED BY <2>1, QuietKeeps DEF Call, Idle, Done
<1>5. CASE PauseQueue
  <2>1. /\ Call("switch") /\ cur # NoProject /\ queue' = Interrupted(queue)
        /\ Save(saves, cur, <<"close">>)
        /\ UNCHANGED <<cur, opening, disk, lost, merged, cancelled>>
    BY <1>5 DEF PauseQueue
  <2>2. Ids(queue') = Ids(queue) /\ Done' = Done
    BY <2>1, QueueIds DEF Done
  <2> QED BY <2>1, <2>2, CallKeeps, KindsDiffer
<1>6. ASSUME NEW p \in Projects, RestoreQueue(p) PROVE KeepInv'
  <2>1. /\ Call("switch") /\ cur' = p /\ opening' = p
        /\ UNCHANGED <<procs, saves, disk, lost, merged, cancelled>>
        /\ ~ \E i \in ProcIds : procs[i].pc # "none" /\ procs[i].proj = p
    BY <1>6 DEF RestoreQueue
  <2>2. saves = << >>
    BY <2>1 DEF Call, Suspended
  <2> QED BY <2>1, <2>2, DedupAssumption DEF KeepInv, Done
<1>7. CASE Crash
  BY <1>7 DEF Crash, KeepInv, InWrites, InOrder
<1> QED BY <1>1, <1>2, <1>3, <1>4, <1>5, <1>6, <1>7 DEF UserStep

LEMMA LoadKeeps == ASSUME TypeInv, KeepInv, TypeInv', RestoreLoad PROVE KeepInv'
<1>6. PICK saved : Loads(saved)
  BY DEF RestoreLoad, LoadFile, Loadable, Loads
<1>1. /\ opening # NoProject /\ opening' = NoProject
      /\ UNCHANGED <<cur, disk, merged, cancelled>>
  BY DEF RestoreLoad
<1>2. /\ cur = opening /\ opening \in Projects /\ saves = << >> /\ Done' = Done
      /\ disk \in [Projects -> Seq(Task)] /\ saves \in Seq(Write)
  BY <1>1 DEF TypeInv, Opened, BookTyped, FilesTyped, KeepInv, Done
<1>3. InWrites(disk, saves, lost, Done) /\ InOrder(saves, Done)
  BY DEF KeepInv
<1>7. InWrites(disk, saves, lost', Done)
  BY <1>2 DEF InWrites
<1>4. CASE (disk[opening] = << >> \/ opening \in lost')
           /\ UNCHANGED <<queue, restored, procs, saves>>
  <2>1. InQueue(disk, saves, queue, cur, lost', Done)
    BY <1>2, <1>4 DEF InQueue, Ids
  <2> QED BY <1>1, <1>2, <1>3, <1>4, <1>7, <2>1 DEF KeepInv
<1>5. CASE queue' = Interrupted(disk[opening]) /\ Save(saves, opening, <<"open">>)
  <2>1. Ids(queue') = Ids(disk[opening])
    BY <1>2, <1>5, InterruptedTyped, SameIds
  <2>2. Saved(saves, opening, <<"open">>)
    BY <1>2, <1>5, SaveFacts, KindsDiffer DEF TypeInv, QueueTyped
  <2>3. InQueue(disk, saves, queue', opening, lost', Done)
    BY <1>2, <2>1 DEF InQueue
  <2>4. InWrites(disk, saves', lost', Done) /\ InOrder(saves', Done)
        /\ InQueue(disk, saves', queue', opening, lost', Done)
    BY <1>2, <1>3, <1>7, <2>2, <2>3, ChainGrows
  <2> QED BY <1>1, <1>2, <2>4 DEF KeepInv
<1>8. CASE saved = << >>
  BY <1>4, <1>6, <1>8 DEF Loads, Restored
<1>9. CASE saved # << >>
  BY <1>5, <1>6, <1>9 DEF Loads, Restored
<1> QED BY <1>8, <1>9

LEMMA DiskKeeps ==
  ASSUME TypeInv, KeepInv, TypeInv', DiskStep
  PROVE  KeepInv'
<1>1. PICK j \in DOMAIN saves :
        \/ SavedCall(j) \/ SavedClose(j) \/ SavedOpen(j) \/ SavedUnusable(j)
        \/ \E i \in ProcIds : SavedStart(i, j) \/ SavedEnd(i, j)
  BY DEF DiskStep
<1>2. Written(j)
  BY <1>1 DEF SavedCall, SavedClose, SavedOpen, SavedUnusable, SavedStart, SavedEnd
<1>3. opening = NoProject
  BY <1>2, OpeningEmpty
<1>4. InWrites(disk', Rest(j), lost', Done) /\ InOrder(Rest(j), Done)
      /\ \A q, p : p \in Projects /\ InQueue(disk, saves, q, p, lost, Done)
               => InQueue(disk', Rest(j), q, p, lost', Done)
  BY <1>2, ChainWritten DEF KeepInv
<1>5. CASE SavedCall(j) \/ SavedOpen(j) \/ SavedUnusable(j)
  BY <1>2, <1>5, RestKeeps DEF SavedCall, SavedOpen, SavedUnusable
<1>6. CASE SavedClose(j)
  <2>1. saves' = Rest(j) /\ cur' = NoProject /\ opening' = opening /\ Done' = Done
    BY <1>6 DEF SavedClose, Done
  <2> QED BY <1>3, <1>4, <2>1 DEF KeepInv
<1>7. ASSUME NEW i \in ProcIds, SavedEnd(i, j) PROVE KeepInv'
  BY <1>2, <1>7, RestKeeps DEF SavedEnd
<1>8. ASSUME NEW i \in ProcIds, SavedStart(i, j) PROVE KeepInv'
  <2>1. UNCHANGED <<cur, opening, merged, cancelled>>
    BY <1>8 DEF SavedStart
  <2>2. CASE saves' = Rest(j) /\ UNCHANGED queue
    BY <1>2, <2>1, <2>2, RestKeeps
  <2>3. CASE ~ Gone(i) /\ queue' = WithStatus(queue, Its(i), "failed")
             /\ Save(Rest(j), procs[i].proj, <<"end">>)
    <3>1. procs[i].proj = cur /\ cur \in Projects /\ cur # NoProject
      BY <2>3, FreedTyped, DedupAssumption DEF Gone
    <3>2. Rest(j) \in Seq(Write) /\ queue' \in Seq(Task)
      BY <1>2, WrittenFacts DEF TypeInv, QueueTyped
    <3>3. Saved(Rest(j), cur, <<"end">>)
      BY <2>3, <3>1, <3>2, SaveFacts, KindsDiffer
    <3>4. Ids(queue') = Ids(queue)
      BY <2>3, QueueIds
    <3>5. InQueue(disk, saves, queue, cur, lost, Done)
      BY <1>3, <3>1 DEF KeepInv
    <3>6. InQueue(disk', Rest(j), queue', cur, lost', Done)
      BY <1>4, <3>1, <3>4, <3>5 DEF InQueue
    <3>7. InWrites(disk', saves', lost', Done) /\ InOrder(saves', Done)
          /\ InQueue(disk', saves', queue', cur, lost', Done)
      BY <1>4, <3>2, <3>3, <3>6, ChainGrows
    <3> QED BY <1>3, <2>1, <3>7 DEF KeepInv, Done
  <2> QED BY <1>8, <2>2, <2>3 DEF SavedStart
<1> QED BY <1>1, <1>5, <1>6, <1>7, <1>8

LEMMA ProcKeeps ==
  ASSUME TypeInv, KeepInv, TypeInv', NEW i \in ProcIds, ProcStep(i)
  PROVE  KeepInv'
<1>1. procs[i].pc # "none" /\ UNCHANGED <<cur, opening, disk, lost, cancelled>>
      /\ Done \subseteq Done'
  BY DEF ProcStep, LookedUp, Answered, Merged, MergeFails, Done
<1>2. CASE procs' = Freed(i) /\ UNCHANGED <<queue, saves>>
  <2>1. \A k \in ProcIds : procs'[k].pc # "none" =>
               procs[k].pc # "none" /\ procs'[k].proj = procs[k].proj
    BY <1>2, ProcsMoved
  <2> QED BY <1>1, <1>2, <2>1, QuietKeeps
<1>3. CASE Goto(i, "write") /\ UNCHANGED <<queue, saves>>
  <2>1. \A k \in ProcIds : procs'[k].proj = procs[k].proj
               /\ (procs'[k].pc # "none" => procs[k].pc # "none")
    BY <1>1, <1>3 DEF Goto, TypeInv, ProcsTyped, Proc
  <2> QED BY <1>1, <1>3, <2>1, QuietKeeps
<1>4. ASSUME ~ Gone(i), Save(saves, procs[i].proj, <<"proc", i>>),
             Ids(queue) \ Done' \subseteq Ids(queue')
      PROVE  KeepInv'
  <2>1. procs[i].proj = cur /\ cur \in Projects /\ cur # NoProject
    BY <1>4, FreedTyped, DedupAssumption DEF Gone
  <2>2. opening = NoProject
    BY <1>1, <2>1 DEF KeepInv, TypeInv, Opened
  <2>3. Saved(saves, cur, <<"proc", i>>)
    BY <1>4, <2>1, SaveFacts, KindsDiffer DEF TypeInv, QueueTyped, FilesTyped
  <2> QED BY <1>1, <1>4, <2>1, <2>2, <2>3, SaveKeeps
<1>5. CASE LookedUp(i)
  <2>1. \/ procs' = Freed(i) /\ UNCHANGED <<queue, saves>>
        \/ ~ Gone(i) /\ Save(saves, procs[i].proj, <<"proc", i>>)
           /\ (queue' = WithStatus(queue, Its(i), "failed")
               \/ queue' = WithStatus(queue, Its(i), "processing"))
    BY <1>5 DEF LookedUp, Gone
  <2> QED BY <1>2, <1>4, <2>1, QueueIds
<1>6. CASE Answered(i)
  BY <1>3, <1>6 DEF Answered
<1>7. CASE Merged(i)
  <2>1. \/ procs' = Freed(i) /\ UNCHANGED <<queue, saves>>
        \/ ~ Gone(i) /\ Save(saves, procs[i].proj, <<"proc", i>>)
           /\ queue' = Without(queue, {procs[i].task})
           /\ merged' = merged \cup {procs[i].task}
    BY <1>7 DEF Merged
  <2>2. merged' = merged \cup {procs[i].task} => procs[i].task \in Done'
    BY DEF Done
  <2> QED BY <1>2, <1>4, <2>1, <2>2, QueueIds
<1>8. CASE MergeFails(i)
  <2>1. \/ procs' = Freed(i) /\ UNCHANGED <<queue, saves>>
        \/ ~ Gone(i) /\ Save(saves, procs[i].proj, <<"proc", i>>)
           /\ queue' = Revise(queue, Its(i), Tried)
    BY <1>8 DEF MergeFails
  <2> QED BY <1>2, <1>4, <2>1, QueueIds
<1> QED BY <1>5, <1>6, <1>7, <1>8 DEF ProcStep

LEMMA KeepStep ==
  ASSUME "switch" \notin Overlap
  PROVE  TypeInv /\ KeepInv /\ [Next]_vars => KeepInv'
<1> SUFFICES ASSUME TypeInv, KeepInv, [Next]_vars PROVE KeepInv'
  OBVIOUS
<1>1. TypeInv'
  BY TypeInvStep
<1>2. CASE UNCHANGED vars
  <2>1. UNCHANGED <<disk, lost, saves, queue, cur, opening, procs>> /\ Done' = Done
    BY <1>2 DEF vars, Done
  <2> QED BY <2>1, QuietKeeps
<1> QED BY <1>1, <1>2, UserKeeps, LoadKeeps, DiskKeeps, ProcKeeps DEF Next

LEMMA FileKeeps ==
  TypeInv /\ KeepInv /\ [Next]_vars => [\A p \in Projects :
     \/ p \in lost \cup lost'
     \/ Ids(disk[p]) \ (merged' \cup cancelled') \subseteq Ids(disk'[p])]_vars
<1> SUFFICES ASSUME TypeInv, KeepInv, [Next]_vars, NEW p \in Projects,
                    p \notin lost \cup lost'
             PROVE  Ids(disk[p]) \ (merged' \cup cancelled') \subseteq Ids(disk'[p])
                    \/ UNCHANGED vars
  OBVIOUS
<1>1. CASE UNCHANGED disk
  BY <1>1
<1>2. ASSUME NEW j, Written(j), UNCHANGED <<merged, cancelled>>
      PROVE  Ids(disk[p]) \ (merged' \cup cancelled') \subseteq Ids(disk'[p])
  BY <1>2, ChainWritten DEF KeepInv, Done
<1>3. CASE DiskStep
  BY <1>2, <1>3
     DEF DiskStep, SavedCall, SavedClose, SavedOpen, SavedUnusable, SavedStart, SavedEnd
<1>6. CASE Crash
  <2>1. PICK S \in SUBSET BeingWritten : Cut(S)
    BY <1>6 DEF Crash
  <2>2. disk'[p] = disk[p]
    <3>1. S \in SUBSET Projects
      BY <2>1, SavesTyped
    <3> QED BY <2>1, <3>1, CutTyped
  <2> QED BY <2>2
<1>4. CASE (UserStep /\ ~ Crash) \/ RestoreLoad
  BY <1>1, <1>4 DEF UserStep, EnqueueMerge, RetryTask, CancelTask, ResumeProcessing,
     PauseQueue, RestoreQueue, RestoreLoad
<1>5. CASE \E i \in ProcIds : ProcStep(i)
  BY <1>1, <1>5 DEF ProcStep, LookedUp, Answered, Merged, MergeFails
<1> QED BY <1>3, <1>4, <1>5, <1>6 DEF Next

\* A merge leaves the file of its project only when it has been made or
\* cancelled: not by a crash, a failed write, a pause, nor by user calls that
\* come while a save is under way; but for a write that is cut off, and the
\* first whole one after it, after a save that overtook an older one or after a
\* load that failed.  Needed is that a project is not opened again while calls
\* of its last session live.
THEOREM DedupDiskKept ==
  ASSUME "switch" \notin Overlap
  PROVE  Spec => DiskKeepsMerges
<1>1. Init => KeepInv
  BY DEF Init, KeepInv, InWrites, InOrder
<1>2. Spec => []KeepInv
  BY <1>1, KeepStep, DedupInvariance, PTL DEF Spec
<1> QED BY <1>2, FileKeeps, DedupInvariance, PTL DEF Spec, DiskKeepsMerges
=============================================================================
