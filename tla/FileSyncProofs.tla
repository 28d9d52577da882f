---------------------------- MODULE FileSyncProofs ----------------------------
(***************************************************************************)
(* What the file watcher tells the front end, for any number of files,     *)
(* watcher threads, commands, changes and faults.                          *)
(***************************************************************************)
EXTENDS FileSync, TLAPS

\* A thread has read nothing newer than the n-th change, it has changes to tell
\* only in its passes over the queue, and there it ends a task it has picked.
Sound(th, n) ==
    /\ th \in Thread
    /\ th.view \in [Paths -> 0..n]
    /\ th.meta \in (0..n) \cup {NoPath}
    /\ th.pc \notin {"pick", "finish"} => th.changed = {}
    /\ th.pc = "finish" => th.task \in Paths

SoundThreads(ths, n) ==
    ths \in [Threads -> Thread] /\ \A t \in Threads : Sound(ths[t], n)

\* No version is newer than the last change: a write is news to the snapshot
\* and to whatever threads have read before it.
Versions ==
    /\ disk \in [Paths -> 0..changes]
    /\ snap \in [Paths -> 0..changes]
    /\ knows \in [Paths -> 0..changes]
    /\ SoundThreads(threads, changes)

SyncInv == TypeOK /\ Versions /\ EveryChangeTold

-----------------------------------------------------------------------------
(* Threads *)

LEMMA SoundIdle == ASSUME NEW n \in Nat PROVE Sound(Idle, n)
BY FileSyncAssumption DEF Sound, Idle, Thread, Gone, Kinds

\* A thread that goes on with the next task keeps what it has to tell.
LEMMA SoundNext ==
    ASSUME NEW n \in Nat, NEW th, Sound(th, n)
    PROVE  Sound(NextPass(th), n) /\ NextPass(th).changed = th.changed /\ NextPass(th).pc = "pick"
           /\ NextPass(th) \in Thread
<1>1. th.start \in BOOLEAN /\ th.changed \in SUBSET (Paths \X Kinds)
  BY DEF Sound, Thread
<1>2. Idle \in Thread /\ Idle.view \in [Paths -> 0..n] /\ Idle.meta \in 0..n
  BY FileSyncAssumption DEF Idle, Thread, Gone, Kinds
<1> QED BY <1>1, <1>2 DEF Sound, NextPass, Thread

\* A thread that picks a task, and one that ends it.
LEMMA SoundPick ==
    ASSUME NEW n \in Nat, NEW th, Sound(th, n), NEW p \in Paths, queue[p].kind \in Kinds,
           NEW m \in (0..n) \cup {NoPath}
    PROVE  Sound(Picked(th, p, m), n) /\ Picked(th, p, m).changed = th.changed
<1>1. m \in Nat \cup {NoPath} /\ p \in Paths \cup {NoPath}
  OBVIOUS
<1> QED BY <1>1 DEF Sound, Thread, Picked

LEMMA SoundEnded ==
    ASSUME NEW n \in Nat, NEW th, Sound(th, n), th.pc = "finish"
    PROVE  Sound(Ended(th), n) /\ Ended(th).changed = th.changed \cup {<<th.task, th.kind>>}
<1>1. <<th.task, th.kind>> \in Paths \X Kinds
  BY DEF Sound, Thread
<1>2. /\ Sound(NextPass(th), n) /\ NextPass(th) \in Thread
      /\ NextPass(th).changed = th.changed /\ NextPass(th).pc = "pick"
  BY SoundNext
<1> QED BY <1>1, <1>2 DEF Sound, Thread, Ended

LEMMA SoundUpdate ==
    ASSUME NEW n, NEW ths, SoundThreads(ths, n), NEW t \in Threads, NEW th, Sound(th, n)
    PROVE  SoundThreads([ths EXCEPT ![t] = th], n)
BY DEF SoundThreads, Sound

LEMMA SoundLater ==
    ASSUME NEW n \in Nat, NEW m \in Nat, n <= m, NEW ths, SoundThreads(ths, n)
    PROVE  SoundThreads(ths, m)
BY DEF SoundThreads, Sound

\* A new time stamp of a task changes no thread but in what it will find.
LEMMA Touching ==
    ASSUME NEW n, NEW ths, SoundThreads(ths, n), NEW S, NEW ths2 \in Touched(S, ths)
    PROVE  SoundThreads(ths2, n) /\ \A t \in Threads : ths2[t].changed = ths[t].changed
<1>1. PICK g \in {"same", "touched"} :
        ths2 = [t \in Threads |->
                  IF ths[t].task \in S /\ ths[t].grip = "same"
                  THEN [ths[t] EXCEPT !.grip = g] ELSE ths[t]]
  BY DEF Touched
<1>2. ASSUME NEW t \in Threads
      PROVE  Sound(ths2[t], n) /\ ths2[t].changed = ths[t].changed
  <2>1. Sound(ths[t], n)
    BY DEF SoundThreads
  <2>2. LET th == [ths[t] EXCEPT !.grip = g] IN Sound(th, n) /\ th.changed = ths[t].changed
    BY <2>1 DEF Sound, Thread
  <2>3. ths2[t] \in {ths[t], [ths[t] EXCEPT !.grip = g]}
    BY <1>1
  <2> QED BY <2>1, <2>2, <2>3
<1> QED BY <1>1, <1>2 DEF SoundThreads, Sound

LEMMA Removing ==
    ASSUME NEW n, NEW ths, SoundThreads(ths, n), NEW S
    PROVE  SoundThreads(Removed(S, ths), n)
           /\ \A t \in Threads : Removed(S, ths)[t].changed = ths[t].changed
<1>1. ASSUME NEW t \in Threads
      PROVE  Sound(Removed(S, ths)[t], n) /\ Removed(S, ths)[t].changed = ths[t].changed
  <2>1. Sound(ths[t], n)
    BY DEF SoundThreads
  <2>2. LET th == [ths[t] EXCEPT !.grip = "gone"] IN Sound(th, n) /\ th.changed = ths[t].changed
    BY <2>1 DEF Sound, Thread
  <2>3. Removed(S, ths)[t] \in {ths[t], [ths[t] EXCEPT !.grip = "gone"]}
    BY DEF Removed
  <2> QED BY <2>1, <2>2, <2>3
<1>2. Removed(S, ths) = [t \in Threads |-> Removed(S, ths)[t]]
  BY DEF Removed
<1> QED BY <1>1, <1>2 DEF SoundThreads, Sound

-----------------------------------------------------------------------------
(* News *)

\* A step that changes neither files nor snapshot and tells nobody.
LEMMA NewsKept ==
    ASSUME EveryChangeTold, disk' = disk, snap' = snap, knows' = knows,
           excused \subseteq excused',
           \A t \in Threads : threads[t].changed \subseteq threads'[t].changed
    PROVE  EveryChangeTold'
BY DEF EveryChangeTold, Untold

\* A thread tells all it has, and what it has just put into the snapshot.
LEMMA TellsAll ==
    ASSUME SyncInv, NEW t \in Threads, NEW changed \in SUBSET (Paths \X Kinds),
           threads[t].changed \subseteq changed, Tell(changed), disk' = disk,
           \A p \in Paths : snap'[p] = snap[p] \/ p \in {c[1] : c \in changed},
           \A u \in Threads \ {t} : threads[u].changed \subseteq threads'[u].changed
    PROVE  /\ EveryChangeTold'
           /\ knows' \in [Paths -> 0..changes] /\ excused' \subseteq Paths
<1> DEFINE S == {c[1] : c \in changed}
<1>1. S \subseteq Paths
  OBVIOUS
<1>2. Untold \subseteq Untold' \cup S
  BY DEF Untold
<1>3. /\ knows' \in [Paths -> 0..changes] /\ excused' \subseteq Paths
      /\ \A p \in S : knows'[p] = disk[p] \/ p \in excused'
      /\ \A p \in Paths \ S : knows'[p] = knows[p] /\ (p \in excused => p \in excused')
  BY <1>1 DEF Tell, SyncInv, TypeOK, Versions
<1> HIDE DEF S
<1>4. \A p \in Paths : snap'[p] = snap[p] \/ p \in S
  BY DEF S
<1> QED BY <1>1, <1>2, <1>3, <1>4 DEF SyncInv, EveryChangeTold

-----------------------------------------------------------------------------
(* The steps.  Most change neither the files, nor the snapshot, nor the news. *)

LEMMA QuietStep ==
    ASSUME SyncInv,
           UNCHANGED <<disk, snap, changes, news>>,
           SoundThreads(threads', changes),
           \A t \in Threads : threads[t].changed \subseteq threads'[t].changed,
           queue' \in [Paths -> Task],
           chan' \subseteq Paths \cup {Root}, watcher' \in Watchers \cup {NoWatcher},
           ignored' \subseteq Paths, listens' \in BOOLEAN,
           faults' \in 0..MaxFaults, calls' \in 0..MaxCalls
    PROVE  SyncInv'
<1>1. EveryChangeTold'
  BY NewsKept DEF SyncInv, news
<1>2. TypeOK' /\ Versions'
  BY DEF SyncInv, TypeOK, Versions, SoundThreads, news
<1> QED BY <1>1, <1>2 DEF SyncInv

\* A thread whose changes are not told yet replaces what it does.
LEMMA ThreadUpdate ==
    ASSUME SyncInv, NEW t \in Threads, NEW th, Sound(th, changes),
           threads[t].changed \subseteq th.changed
    PROVE  LET ths == [threads EXCEPT ![t] = th] IN
           /\ SoundThreads(ths, changes)
           /\ \A u \in Threads : threads[u].changed \subseteq ths[u].changed
<1>1. SoundThreads(threads, changes)
  BY DEF SyncInv, Versions
<1>2. SoundThreads([threads EXCEPT ![t] = th], changes)
  BY <1>1, SoundUpdate
<1> QED BY <1>1, <1>2 DEF SoundThreads

LEMMA WakeStep == ASSUME SyncInv, NEW w \in Threads, Wake(w) PROVE SyncInv'
<1> DEFINE there == {p \in Paths : disk[p] # Gone}
           batch == ((chan \cap Paths) \cup (IF Root \in chan THEN there ELSE {})) \ ignored
           own == {p \in chan \cap ignored : disk[p] # Gone \/ snap[p] # Gone}
           pc == IF own # {} THEN "own" ELSE IF batch # {} THEN "look" ELSE "idle"
           th == [threads[w] EXCEPT !.batch = batch, !.own = own, !.pc = pc]
<1>1. threads[w] \in Thread /\ Sound(threads[w], changes) /\ threads[w].changed = {}
  BY DEF SyncInv, Versions, SoundThreads, Sound, Wake, At
<1>2. batch \subseteq Paths /\ own \subseteq Paths
  BY DEF SyncInv, TypeOK
<1>3. pc \in {"own", "look", "idle"}
  OBVIOUS
<1>4. Sound(th, changes) /\ th.changed = {}
  <2> HIDE DEF batch, own, pc
  <2> QED BY <1>1, <1>2, <1>3 DEF Sound, Thread
<1>5. threads' = [threads EXCEPT ![w] = th]
  BY DEF Wake, SyncInv, TypeOK
<1> HIDE DEF th
<1>6. /\ SoundThreads(threads', changes)
      /\ \A t \in Threads : threads[t].changed \subseteq threads'[t].changed
  BY <1>1, <1>4, <1>5, ThreadUpdate
<1> QED BY <1>6, QuietStep DEF Wake, SyncInv, TypeOK, files, counts, news

LEMMA ReadOwnStep == ASSUME SyncInv, NEW t \in Threads, ReadOwn(t) PROVE SyncInv'
<1> DEFINE th == [threads[t] EXCEPT !.view = disk, !.pc = "ownWrite"]
<1>1. threads[t] \in Thread /\ Sound(threads[t], changes) /\ threads[t].changed = {}
  BY DEF SyncInv, Versions, SoundThreads, Sound, ReadOwn, At
<1>2. disk \in [Paths -> 0..changes] /\ disk \in [Paths -> Nat]
  BY DEF SyncInv, Versions, TypeOK
<1>3. Sound(th, changes) /\ th.changed = {}
  BY <1>1, <1>2 DEF Sound, Thread
<1>4. threads' = [threads EXCEPT ![t] = th]
  BY DEF ReadOwn, SyncInv, TypeOK
<1> HIDE DEF th
<1>5. /\ SoundThreads(threads', changes)
      /\ \A u \in Threads : threads[u].changed \subseteq threads'[u].changed
  BY <1>1, <1>3, <1>4, ThreadUpdate
<1> QED BY <1>5, QuietStep DEF ReadOwn, SyncInv, TypeOK, files, counts, news

\* What the app has written itself is no news, or is excused.
LEMMA WriteOwnStep == ASSUME SyncInv, NEW t \in Threads, WriteOwn(t) PROVE SyncInv'
<1> DEFINE th == IF threads[t].batch = {} \/ Stale(t) THEN Idle
                 ELSE [Idle EXCEPT !.pc = "look", !.batch = threads[t].batch]
<1>1. threads[t] \in Thread /\ Sound(threads[t], changes) /\ threads[t].changed = {}
  BY DEF SyncInv, Versions, SoundThreads, Sound, WriteOwn, At
<1>2. changes \in Nat
  BY FileSyncAssumption DEF SyncInv, TypeOK
<1>3. Sound(th, changes) /\ th.changed = {}
  <2>1. Sound(Idle, changes) /\ Idle.changed = {}
    BY <1>2, SoundIdle DEF Idle
  <2>2. threads[t].batch \subseteq Paths
    BY <1>1 DEF Thread
  <2>3. LET lo == [Idle EXCEPT !.pc = "look", !.batch = threads[t].batch] IN
        Sound(lo, changes) /\ lo.changed = {}
    BY <2>1, <2>2 DEF Sound, Thread
  <2> QED BY <2>1, <2>3
<1>4. threads' = [threads EXCEPT ![t] = th]
  BY DEF WriteOwn
<1> HIDE DEF th
<1>5. /\ SoundThreads(threads', changes)
      /\ \A u \in Threads : threads[u].changed \subseteq threads'[u].changed
  BY <1>1, <1>3, <1>4, ThreadUpdate
<1>6. snap' \in [Paths -> 0..changes] /\ excused' \subseteq Paths
  BY <1>1 DEF WriteOwn, SyncInv, Versions, TypeOK, Sound, Thread
<1>. snap' \in [Paths -> 0..MaxChanges]
  BY <1>6, FileSyncAssumption DEF SyncInv, TypeOK
<1>7. TypeOK' /\ Versions'
  BY <1>5, <1>6 DEF WriteOwn, SyncInv, TypeOK, Versions, SoundThreads, counts
<1>8. Untold \subseteq Untold'
  BY <1>5 DEF Untold
<1>9. ASSUME NEW p \in Paths, snap'[p] = disk'[p]
      PROVE  knows'[p] = disk'[p] \/ p \in Untold' \cup excused'
  <2>1. CASE p \in threads[t].own
    BY <1>9, <2>1 DEF WriteOwn
  <2>2. CASE p \notin threads[t].own
    BY <1>8, <1>9, <2>2 DEF WriteOwn, SyncInv, EveryChangeTold
  <2> QED BY <2>1, <2>2
<1> QED BY <1>7, <1>9 DEF SyncInv, EveryChangeTold

LEMMA PeriodicRescanStep == ASSUME SyncInv, NEW w \in Threads, PeriodicRescan(w) PROVE SyncInv'
<1> DEFINE th == [threads[w] EXCEPT !.batch = Differs, !.pc = "look"]
<1>1. threads[w] \in Thread /\ Sound(threads[w], changes) /\ threads[w].changed = {}
  BY DEF SyncInv, Versions, SoundThreads, Sound, PeriodicRescan, At
<1>2. Differs \subseteq Paths
  BY DEF Differs
<1>3. Sound(th, changes) /\ th.changed = {}
  BY <1>1, <1>2 DEF Sound, Thread
<1>4. threads' = [threads EXCEPT ![w] = th]
  BY DEF PeriodicRescan, SyncInv, TypeOK
<1> HIDE DEF th
<1>5. /\ SoundThreads(threads', changes)
      /\ \A u \in Threads : threads[u].changed \subseteq threads'[u].changed
  BY <1>1, <1>3, <1>4, ThreadUpdate
<1> QED BY <1>5, QuietStep DEF PeriodicRescan, SyncInv, TypeOK, files, counts, news

LEMMA LookStep == ASSUME SyncInv, NEW t \in Threads, Look(t) PROVE SyncInv'
<1> DEFINE th == [threads[t] EXCEPT !.view = snap, !.pc = "read"]
<1>1. threads[t] \in Thread /\ Sound(threads[t], changes) /\ threads[t].changed = {}
  BY DEF SyncInv, Versions, SoundThreads, Sound, Look, At
<1>2. snap \in [Paths -> 0..changes] /\ snap \in [Paths -> Nat]
  BY DEF SyncInv, Versions, TypeOK
<1>3. Sound(th, changes) /\ th.changed = {}
  BY <1>1, <1>2 DEF Sound, Thread
<1>4. threads' = [threads EXCEPT ![t] = th]
  BY DEF Look, SyncInv, TypeOK
<1> HIDE DEF th
<1>5. /\ SoundThreads(threads', changes)
      /\ \A u \in Threads : threads[u].changed \subseteq threads'[u].changed
  BY <1>1, <1>3, <1>4, ThreadUpdate
<1> QED BY <1>5, QuietStep DEF Look, SyncInv, TypeOK, files, counts, news

LEMMA BatchFailsStep == ASSUME SyncInv, NEW t \in Threads, BatchFails(t) PROVE SyncInv'
<1>1. Sound(threads[t], changes) /\ threads[t].changed = {}
  BY DEF SyncInv, Versions, SoundThreads, Sound, BatchFails, At
<1>2. Sound(Idle, changes) /\ Idle.changed = {}
  <2>1. changes \in Nat
    BY FileSyncAssumption DEF SyncInv, TypeOK
  <2>2. Sound(Idle, changes)
    BY <2>1, SoundIdle
  <2> QED BY <2>2 DEF Idle
<1>3. /\ SoundThreads(threads', changes)
      /\ \A u \in Threads : threads[u].changed \subseteq threads'[u].changed
  BY <1>1, <1>2, ThreadUpdate DEF BatchFails, GivesUp
<1>4. faults' \in 0..MaxFaults
  BY FileSyncAssumption DEF BatchFails, Fault, SyncInv, TypeOK
<1> QED BY <1>3, <1>4, QuietStep DEF BatchFails, GivesUp, SyncInv, TypeOK, files

LEMMA ReadStep == ASSUME SyncInv, NEW t \in Threads, Read(t) PROVE SyncInv'
<1> DEFINE found == {<<p, KindOf(threads[t].view[p], disk[p])>> :
                       p \in {q \in threads[t].batch : ~ Alike(q, threads[t].view[q], disk[q])}}
           pc == IF found # {} THEN "upsert" ELSE IF Stale(t) THEN "idle" ELSE "pick"
           th == [NextPass(threads[t]) EXCEPT !.found = found, !.pc = pc]
<1>1. threads[t] \in Thread /\ Sound(threads[t], changes) /\ threads[t].changed = {}
  BY DEF SyncInv, Versions, SoundThreads, Sound, Read, At
<1>2. found \subseteq Paths \X Kinds /\ pc \in {"upsert", "idle", "pick"}
  BY <1>1 DEF Thread, KindOf, Kinds
<1>3. /\ Sound(NextPass(threads[t]), changes) /\ NextPass(threads[t]).changed = {}
      /\ NextPass(threads[t]) \in Thread
  BY <1>1, SoundNext DEF SyncInv, TypeOK
<1>4. Sound(th, changes) /\ th.changed = {}
  <2> HIDE DEF found, pc
  <2> QED BY <1>2, <1>3 DEF Sound, Thread
<1>5. threads' = [threads EXCEPT ![t] = th]
  BY DEF Read, SyncInv, TypeOK
<1> HIDE DEF th
<1>6. /\ SoundThreads(threads', changes)
      /\ \A u \in Threads : threads[u].changed \subseteq threads'[u].changed
  BY <1>1, <1>4, <1>5, ThreadUpdate
<1> QED BY <1>6, QuietStep DEF Read, SyncInv, TypeOK, files, counts, news

LEMMA UpsertStep == ASSUME SyncInv, NEW t \in Threads, Upsert(t) PROVE SyncInv'
<1> DEFINE found == threads[t].found
           S == {f[1] : f \in found}
           Of(p) == (CHOOSE f \in found : f[1] = p)[2]
           pc == IF Stale(t) THEN "idle" ELSE "pick"
           th == [threads[t] EXCEPT !.found = {}, !.pc = pc]
           ths == [threads EXCEPT ![t] = th]
<1>1. threads[t] \in Thread /\ Sound(threads[t], changes) /\ threads[t].changed = {}
  BY DEF SyncInv, Versions, SoundThreads, Sound, Upsert, At
<1>2. Sound(th, changes) /\ th.changed = {}
  BY <1>1 DEF Sound, Thread
<1>3. threads' \in Touched(S, ths)
  <2>1. [threads EXCEPT ![t].found = {}, ![t].pc = pc] = ths
    BY DEF SyncInv, TypeOK
  <2> QED BY <2>1 DEF Upsert
<1>4. /\ SoundThreads(ths, changes)
      /\ \A u \in Threads : threads[u].changed \subseteq ths[u].changed
  <2> HIDE DEF th
  <2> QED BY <1>1, <1>2, ThreadUpdate
<1>5. /\ SoundThreads(threads', changes)
      /\ \A u \in Threads : threads[u].changed \subseteq threads'[u].changed
  <2> HIDE DEF ths, S
  <2> QED BY <1>3, <1>4, Touching
<1>6. ASSUME NEW p \in S PROVE Of(p) \in Kinds
  <2>1. found \subseteq Paths \X Kinds
    BY <1>1 DEF Thread
  <2>2. \E f \in found : f[1] = p
    BY <1>6
  <2> QED BY <2>1, <2>2
<1>7. ASSUME NEW p \in Paths, NEW k \in Kinds PROVE Upserted(queue[p], k) \in Task
  <2>1. queue[p] \in Task
    BY DEF SyncInv, TypeOK
  <2> QED BY <2>1 DEF Upserted, Task, NoTask, MergeKind, Kinds
<1>8. queue' \in [Paths -> Task]
  <2> HIDE DEF S, Of
  <2>1. queue' = [p \in Paths |-> IF p \in S THEN Upserted(queue[p], Of(p)) ELSE queue[p]]
    BY DEF Upsert, S, Of
  <2> QED BY <1>6, <1>7, <2>1 DEF SyncInv, TypeOK
<1> QED BY <1>5, <1>8, QuietStep DEF Upsert, SyncInv, TypeOK, files, counts, news

LEMMA PickStep == ASSUME SyncInv, NEW t \in Threads, Pick(t) PROVE SyncInv'
<1>1. PICK p \in Pending :
        /\ queue' = [queue EXCEPT ![p].st = "processing"]
        /\ \E m \in {disk[p], Unreadable} :
              /\ IF m = Unreadable THEN Fault ELSE NoFault
              /\ \E ths \in Touched({p}, threads) :
                    threads' = [ths EXCEPT ![t] = Picked(@, p, m)]
  BY DEF Pick
<1>2. PICK m \in {disk[p], Unreadable}, ths \in Touched({p}, threads) :
        /\ IF m = Unreadable THEN Fault ELSE NoFault
        /\ threads' = [ths EXCEPT ![t] = Picked(@, p, m)]
  BY <1>1
<1> DEFINE th == Picked(ths[t], p, m)
<1>3. p \in Paths /\ queue[p] \in Task
  BY DEF Pending, SyncInv, TypeOK
<1>4. queue[p].kind \in Kinds /\ [queue[p] EXCEPT !.st = "processing"] \in Task
  BY <1>3 DEF Task
<1>5. m \in (0..changes) \cup {NoPath} /\ m \in Nat \cup {NoPath}
  BY <1>3 DEF SyncInv, Versions, Unreadable
<1>6. SoundThreads(ths, changes) /\ \A u \in Threads : ths[u].changed = threads[u].changed
  BY Touching DEF SyncInv, Versions
<1>7. Sound(th, changes) /\ th.changed = ths[t].changed
  <2>1. Sound(ths[t], changes) /\ changes \in Nat
    BY <1>6, FileSyncAssumption DEF SoundThreads, SyncInv, TypeOK
  <2> QED BY <1>3, <1>4, <1>5, <2>1, SoundPick
<1>8. threads' = [ths EXCEPT ![t] = th]
  BY <1>2, <1>6 DEF SoundThreads
<1> HIDE DEF th
<1>9. SoundThreads(threads', changes)
  BY <1>6, <1>7, <1>8, SoundUpdate
<1>10. \A u \in Threads : threads[u].changed \subseteq threads'[u].changed
  BY <1>6, <1>7, <1>8 DEF SoundThreads
<1>11. faults' \in 0..MaxFaults
  BY <1>2, FileSyncAssumption DEF Fault, NoFault, SyncInv, TypeOK
<1>12. queue' \in [Paths -> Task]
  BY <1>1, <1>3, <1>4 DEF SyncInv, TypeOK
<1> QED BY <1>9, <1>10, <1>11, <1>12, QuietStep DEF Pick, SyncInv, TypeOK

LEMMA FinishOtherStep == ASSUME SyncInv, NEW t \in Threads, FinishOther(t) PROVE SyncInv'
<1> DEFINE p == threads[t].task
           ths == [threads EXCEPT ![t] = NextPass(@)]
<1>1. Sound(threads[t], changes) /\ changes \in Nat
  BY FileSyncAssumption DEF SyncInv, TypeOK, Versions, SoundThreads
<1>2. /\ SoundThreads(ths, changes)
      /\ \A u \in Threads : threads[u].changed \subseteq ths[u].changed
  <2>1. Sound(NextPass(threads[t]), changes) /\ NextPass(threads[t]).changed = threads[t].changed
    BY <1>1, SoundNext
  <2> QED BY <2>1, ThreadUpdate
<1>3. /\ SoundThreads(threads', changes)
      /\ \A u \in Threads : threads[u].changed \subseteq threads'[u].changed
  <2>1. CASE threads' = ths
    BY <1>2, <2>1
  <2>2. CASE threads' \in Touched({p}, ths)
    <3> HIDE DEF ths, p
    <3> QED BY <1>2, <2>2, Touching
  <2> QED BY <2>1, <2>2 DEF FinishOther
<1>4. queue' \in [Paths -> Task]
  <2>1. p \in Paths /\ queue[p] \in Task
    BY <1>1 DEF FinishOther, At, Sound, SyncInv, TypeOK
  <2>2. [queue[p] EXCEPT !.st = "pending", !.rerun = FALSE] \in Task
    BY <2>1 DEF Task
  <2> QED BY <2>1, <2>2 DEF FinishOther, SyncInv, TypeOK
<1> QED BY <1>3, <1>4, QuietStep DEF FinishOther, SyncInv, TypeOK, counts, news

\* The snapshot gets a content that will be told.
LEMMA FinishStep == ASSUME SyncInv, NEW t \in Threads, Finish(t) PROVE SyncInv'
<1> DEFINE p == threads[t].task
           ok == threads[t].meta # Unreadable
           task == IF ok THEN Done(queue[p])
                   ELSE [queue[p] EXCEPT !.st = "failed", !.tries = @ + 1]
           th == Ended(threads[t])
           ths == [threads EXCEPT ![t] = th]
<1>1. Sound(threads[t], changes) /\ threads[t] \in Thread /\ changes \in Nat
  BY FileSyncAssumption DEF SyncInv, TypeOK, Versions, SoundThreads
<1>2. p \in Paths /\ threads[t].kind \in Kinds /\ threads[t].meta \in (0..changes) \cup {NoPath}
  BY <1>1 DEF Thread, Sound, Finish, At
<1>3. threads[t].pc = "finish"
  BY DEF Finish, At
<1>4. /\ Sound(th, changes)
      /\ th.changed = threads[t].changed \cup {<<p, threads[t].kind>>}
  BY <1>1, <1>3, SoundEnded
<1>5. /\ SoundThreads(ths, changes)
      /\ \A u \in Threads : threads[u].changed \subseteq ths[u].changed
  <2> HIDE DEF th
  <2> QED BY <1>4, ThreadUpdate
<1>6. ths[t].changed = th.changed
  <2> HIDE DEF th
  <2> QED BY DEF SyncInv, TypeOK
<1>7. threads' = Removed({p}, ths) \/ threads' \in Touched({p}, ths)
  BY DEF Finish
<1>8. SoundThreads(threads', changes) /\ \A u \in Threads : threads'[u].changed = ths[u].changed
  <2> HIDE DEF ths, p
  <2> QED BY <1>5, <1>7, Touching, Removing
<1>9. Untold \subseteq Untold' /\ p \in Untold'
  <2>1. Untold \subseteq Untold'
    BY <1>5, <1>8 DEF Untold
  <2>2. <<p, threads[t].kind>> \in threads'[t].changed
    BY <1>4, <1>6, <1>8
  <2>3. p \in {c[1] : c \in threads'[t].changed}
    BY <2>2
  <2> QED BY <2>1, <2>3 DEF Untold
<1>10. queue' \in [Paths -> Task]
  <2>1. queue[p] \in Task
    BY <1>2 DEF SyncInv, TypeOK
  <2>2. task \in Task
    <3>1. Done(queue[p]) \in Task
      <4>1. NoTask \in Task
        BY DEF NoTask, Task, Kinds
      <4>2. [queue[p] EXCEPT !.st = "pending", !.rerun = FALSE] \in Task
        BY <2>1 DEF Task
      <4> QED BY <4>1, <4>2 DEF Done
    <3>2. [queue[p] EXCEPT !.st = "failed", !.tries = @ + 1] \in Task
      <4>1. queue[p].tries + 1 \in Nat
        BY <2>1 DEF Task
      <4> QED BY <2>1, <4>1 DEF Task
    <3> QED BY <3>1, <3>2
  <2> HIDE DEF task
  <2>3. queue' = [queue EXCEPT ![p] = task]
    BY DEF Finish, task
  <2> QED BY <1>2, <2>2, <2>3 DEF SyncInv, TypeOK
<1>11. snap' \in [Paths -> 0..changes] /\ \A q \in Paths \ {p} : snap'[q] = snap[q]
  BY <1>2 DEF Finish, Applied, Unreadable, SyncInv, Versions
<1>12. snap' \in [Paths -> 0..MaxChanges]
  BY <1>11, FileSyncAssumption DEF SyncInv, TypeOK
<1>13. TypeOK' /\ Versions'
  BY <1>8, <1>10, <1>11, <1>12 DEF Finish, SyncInv, TypeOK, Versions, SoundThreads, counts, news
<1>14. EveryChangeTold'
  BY <1>9, <1>11 DEF Finish, SyncInv, EveryChangeTold, news
<1> QED BY <1>13, <1>14 DEF SyncInv

\* A pass that fails tells first; what it has just put into the snapshot is
\* among it.
LEMMA PassFailsStep == ASSUME SyncInv, NEW t \in Threads, PassFails(t) PROVE SyncInv'
<1> DEFINE p == threads[t].task
           more == threads[t].changed \cup {<<p, threads[t].kind>>}
<1>1. /\ Sound(threads[t], changes) /\ threads[t] \in Thread /\ changes \in Nat
      /\ SoundThreads(threads, changes)
  BY FileSyncAssumption DEF SyncInv, TypeOK, Versions, SoundThreads
<1>2. threads' = [threads EXCEPT ![t] = Idle]
  BY DEF PassFails, GivesUp
<1>3. SoundThreads(threads', changes)
  BY <1>1, <1>2, SoundIdle, SoundUpdate
<1>4. \A u \in Threads \ {t} : threads[u].changed \subseteq threads'[u].changed
  BY <1>2 DEF SyncInv, TypeOK
<1>5. faults' \in 0..MaxFaults /\ listens' \in BOOLEAN
  BY FileSyncAssumption DEF PassFails, Fault, GivesUp, SyncInv, TypeOK
<1>6. PICK changed \in SUBSET (Paths \X Kinds) :
        /\ threads[t].changed \subseteq changed /\ Tell(changed)
        /\ snap' \in [Paths -> 0..changes]
        /\ \A q \in Paths : snap'[q] = snap[q] \/ q \in {c[1] : c \in changed}
  <2>1. threads[t].changed \in SUBSET (Paths \X Kinds)
    BY <1>1 DEF Thread
  <2>2. CASE Tell(threads[t].changed) /\ snap' = snap
    BY <2>1, <2>2 DEF SyncInv, Versions
  <2>3. CASE /\ At(t, "finish") /\ threads[t].meta # Unreadable
             /\ snap' = [snap EXCEPT ![p] = threads[t].meta] /\ Tell(more)
    <3>1. p \in Paths /\ threads[t].kind \in Kinds /\ threads[t].meta \in 0..changes
      BY <1>1, <2>3 DEF Sound, Thread, At, Unreadable
    <3>2. more \in SUBSET (Paths \X Kinds) /\ p \in {c[1] : c \in more}
      <4>1. <<p, threads[t].kind>> \in Paths \X Kinds /\ <<p, threads[t].kind>> \in more
        BY <3>1
      <4>2. <<p, threads[t].kind>>[1] = p
        OBVIOUS
      <4> HIDE DEF p
      <4> QED BY <2>1, <4>1, <4>2
    <3>3. snap' \in [Paths -> 0..changes] /\ \A q \in Paths \ {p} : snap'[q] = snap[q]
      BY <2>3, <3>1 DEF SyncInv, Versions
    <3> HIDE DEF p
    <3> QED BY <2>3, <3>2, <3>3
  <2> QED BY <2>2, <2>3 DEF PassFails, TellFirst, CanApply, Applied
<1>7. /\ EveryChangeTold'
      /\ knows' \in [Paths -> 0..changes] /\ excused' \subseteq Paths
  BY <1>4, <1>6, TellsAll DEF PassFails
<1>8. snap' \in [Paths -> 0..MaxChanges] /\ knows' \in [Paths -> 0..MaxChanges]
  BY <1>6, <1>7, FileSyncAssumption DEF SyncInv, TypeOK
<1> QED BY <1>3, <1>5, <1>6, <1>7, <1>8 DEF PassFails, SyncInv, TypeOK, Versions, SoundThreads

LEMMA EndsStep == ASSUME SyncInv, NEW t \in Threads, Ends(t) PROVE SyncInv'
<1>1. /\ Sound(threads[t], changes) /\ threads[t] \in Thread /\ changes \in Nat
      /\ SoundThreads(threads, changes)
  BY FileSyncAssumption DEF SyncInv, TypeOK, Versions, SoundThreads
<1>2. threads' = [threads EXCEPT ![t] = Idle]
  BY DEF Ends
<1>3. SoundThreads(threads', changes)
  BY <1>1, <1>2, SoundIdle, SoundUpdate
<1>4. \A u \in Threads \ {t} : threads[u].changed \subseteq threads'[u].changed
  BY <1>2 DEF SyncInv, TypeOK
<1>5. threads[t].changed \in SUBSET (Paths \X Kinds)
  BY <1>1 DEF Thread
<1>6. /\ EveryChangeTold'
      /\ knows' \in [Paths -> 0..changes] /\ excused' \subseteq Paths
  BY <1>4, <1>5, TellsAll DEF Ends, files
<1>7. knows' \in [Paths -> 0..MaxChanges]
  BY <1>6, FileSyncAssumption DEF SyncInv, TypeOK
<1>8. watcher' \in Watchers \cup {NoWatcher}
  BY DEF Ends, SyncInv, TypeOK
<1> QED BY <1>3, <1>6, <1>7, <1>8 DEF Ends, SyncInv, TypeOK, Versions, SoundThreads, files, counts

-----------------------------------------------------------------------------
(* The files *)

LEMMA WriteStep == ASSUME SyncInv, NEW p \in Paths, Write(p) PROVE SyncInv'
<1>1. changes \in Nat /\ changes' = changes + 1 /\ changes' \in 0..MaxChanges
  BY FileSyncAssumption DEF Write, SyncInv, TypeOK
<1>2. SoundThreads(threads', changes')
  BY <1>1, SoundLater DEF Write, SyncInv, Versions
<1>3. /\ disk' \in [Paths -> 0..changes'] /\ snap' \in [Paths -> 0..changes']
      /\ knows' \in [Paths -> 0..changes']
  BY <1>1 DEF Write, SyncInv, Versions, files, news
<1>4. disk' \in [Paths -> 0..MaxChanges]
  BY <1>1, <1>3, FileSyncAssumption
<1>5. chan' \subseteq Paths \cup {Root}
  BY DEF Write, Notify, SyncInv, TypeOK
<1>6. TypeOK' /\ Versions'
  BY <1>1, <1>2, <1>3, <1>4, <1>5 DEF Write, SyncInv, TypeOK, Versions, files, news
<1>7. snap'[p] # disk'[p] /\ \A q \in Paths \ {p} : disk'[q] = disk[q]
  BY <1>1 DEF Write, SyncInv, Versions, TypeOK, files
<1>8. EveryChangeTold'
  BY <1>7 DEF Write, SyncInv, EveryChangeTold, Untold, files, news
<1> QED BY <1>6, <1>8 DEF SyncInv

LEMMA AppWriteStep == ASSUME SyncInv, NEW p \in Paths, AppWrite(p) PROVE SyncInv'
<1>1. changes \in Nat /\ changes' = changes + 1 /\ changes' \in 0..MaxChanges
  BY FileSyncAssumption DEF AppWrite, SyncInv, TypeOK
<1>2. SoundThreads(threads', changes')
  BY <1>1, SoundLater DEF AppWrite, SyncInv, Versions
<1>0. PICK c \in {changes'} \cup ({Gone} \ {disk[p]}) :
        /\ disk' = [disk EXCEPT ![p] = c]
        /\ knows' = [knows EXCEPT ![p] = c]
  BY DEF AppWrite
<1>3. /\ disk' \in [Paths -> 0..changes'] /\ snap' \in [Paths -> 0..changes']
      /\ knows' \in [Paths -> 0..changes']
  <2>1. c \in 0..changes'
    BY <1>1 DEF Gone
  <2> QED BY <1>0, <1>1, <2>1 DEF AppWrite, SyncInv, Versions, files
<1>4. disk' \in [Paths -> 0..MaxChanges] /\ knows' \in [Paths -> 0..MaxChanges]
  BY <1>1, <1>3, FileSyncAssumption
<1>5. chan' \subseteq Paths \cup {Root}
  BY DEF AppWrite, Notify, SyncInv, TypeOK
<1>6. TypeOK' /\ Versions'
  BY <1>1, <1>2, <1>3, <1>4, <1>5 DEF AppWrite, SyncInv, TypeOK, Versions, files
<1>7. knows'[p] = disk'[p]
      /\ \A q \in Paths \ {p} : disk'[q] = disk[q] /\ knows'[q] = knows[q]
  BY <1>0 DEF SyncInv, TypeOK
<1>8. EveryChangeTold'
  BY <1>7 DEF AppWrite, SyncInv, EveryChangeTold, Untold, files
<1> QED BY <1>6, <1>8 DEF SyncInv

LEMMA DeleteStep == ASSUME SyncInv, NEW p \in Paths, Delete(p) PROVE SyncInv'
<1>1. changes \in Nat /\ changes' = changes + 1 /\ changes' \in 0..MaxChanges
  BY FileSyncAssumption DEF Delete, SyncInv, TypeOK
<1>2. SoundThreads(threads', changes')
  BY <1>1, SoundLater DEF Delete, SyncInv, Versions
<1>3. /\ disk' \in [Paths -> 0..changes'] /\ snap' \in [Paths -> 0..changes']
      /\ knows' \in [Paths -> 0..changes']
  BY <1>1 DEF Delete, Gone, SyncInv, Versions, files
<1>4. disk' \in [Paths -> 0..MaxChanges]
  BY <1>1, <1>3, FileSyncAssumption
<1>5. chan' \subseteq Paths \cup {Root} /\ excused' \subseteq Paths /\ excused \subseteq excused'
  BY DEF Delete, Notify, SyncInv, TypeOK
<1>6. TypeOK' /\ Versions'
  BY <1>1, <1>2, <1>3, <1>4, <1>5 DEF Delete, SyncInv, TypeOK, Versions, files
<1>7. \A q \in Paths \ {p} : disk'[q] = disk[q]
  BY DEF Delete, SyncInv, TypeOK
<1>8. disk'[p] = Gone /\ (snap[p] = Gone => knows[p] = Gone \/ p \in excused')
  BY DEF Delete, SyncInv, TypeOK
<1>9. EveryChangeTold'
  BY <1>5, <1>7, <1>8 DEF Delete, SyncInv, EveryChangeTold, Untold, files
<1> QED BY <1>6, <1>9 DEF SyncInv

LEMMA IgnoreExpiresStep == ASSUME SyncInv, NEW p \in Paths, IgnoreExpires(p) PROVE SyncInv'
<1>1. SoundThreads(threads', changes)
  BY DEF IgnoreExpires, SyncInv, Versions
<1> QED BY <1>1, QuietStep DEF IgnoreExpires, SyncInv, TypeOK, files, counts

-----------------------------------------------------------------------------
(* The commands *)

LEMMA StartStep == ASSUME SyncInv, NEW c \in Threads, Start(c) PROVE SyncInv'
<1> DEFINE th == [threads[c] EXCEPT !.start = TRUE, !.batch = Differs, !.pc = "look"]
           ths == [threads EXCEPT ![c] = th]
           S == {p \in Paths : queue[p].st = "processing"}
<1>1. threads[c] \in Thread /\ Sound(threads[c], changes) /\ threads[c].changed = {}
  BY DEF SyncInv, Versions, SoundThreads, Sound, Start, Free, At
<1>2. Sound(th, changes) /\ th.changed = {}
  <2>1. Differs \subseteq Paths
    BY DEF Differs
  <2> QED BY <1>1, <2>1 DEF Sound, Thread
<1>3. threads' \in Touched(S, ths)
  <2>1. [threads EXCEPT ![c].start = TRUE, ![c].batch = Differs, ![c].pc = "look"] = ths
    BY DEF SyncInv, TypeOK
  <2> QED BY <2>1 DEF Start
<1>4. /\ SoundThreads(ths, changes)
      /\ \A u \in Threads : threads[u].changed \subseteq ths[u].changed
  <2> HIDE DEF th
  <2> QED BY <1>1, <1>2, ThreadUpdate
<1>5. /\ SoundThreads(threads', changes)
      /\ \A u \in Threads : threads[u].changed \subseteq threads'[u].changed
  <2> HIDE DEF ths, S
  <2> QED BY <1>3, <1>4, Touching
<1>6. queue' \in [Paths -> Task]
  <2>1. ASSUME NEW p \in Paths PROVE Reset(queue[p]) \in Task
    <3>1. queue[p] \in Task
      BY DEF SyncInv, TypeOK
    <3> QED BY <3>1 DEF Reset, Task
  <2> QED BY <2>1 DEF Start
<1>7. calls' \in 0..MaxCalls
  BY FileSyncAssumption DEF Start, Call, SyncInv, TypeOK
<1> QED BY <1>5, <1>6, <1>7, QuietStep DEF Start, SyncInv, TypeOK

LEMMA StopStep == ASSUME SyncInv, Stop PROVE SyncInv'
<1>1. SoundThreads(threads', changes)
  BY DEF Stop, SyncInv, Versions
<1> QED BY <1>1, QuietStep DEF Stop, SyncInv, TypeOK, files, counts

LEMMA RescanStep == ASSUME SyncInv, NEW c \in Threads, Rescan(c) PROVE SyncInv'
<1> DEFINE batch == {p \in Paths : disk[p] # Gone \/ snap[p] # Gone}
           th == [threads[c] EXCEPT !.pc = "look", !.batch = batch]
<1>1. threads[c] \in Thread /\ Sound(threads[c], changes) /\ threads[c].changed = {}
  BY DEF SyncInv, Versions, SoundThreads, Sound, Rescan, Free, At
<1>2. Sound(th, changes) /\ th.changed = {}
  <2>1. batch \subseteq Paths
    OBVIOUS
  <2> HIDE DEF batch
  <2> QED BY <1>1, <2>1 DEF Sound, Thread
<1>3. threads' = [threads EXCEPT ![c] = th]
  BY DEF Rescan, SyncInv, TypeOK
<1> HIDE DEF th
<1>4. /\ SoundThreads(threads', changes)
      /\ \A u \in Threads : threads[u].changed \subseteq threads'[u].changed
  BY <1>1, <1>2, <1>3, ThreadUpdate
<1>5. calls' \in 0..MaxCalls
  BY FileSyncAssumption DEF Rescan, Call, SyncInv, TypeOK
<1> QED BY <1>4, <1>5, QuietStep DEF Rescan, SyncInv, TypeOK, files

LEMMA RetryTaskStep ==
    ASSUME SyncInv, NEW c \in Threads, NEW p \in Paths, RetryTask(c, p)
    PROVE  SyncInv'
<1> DEFINE th == [threads[c] EXCEPT !.pc = "pick"]
           ths == [threads EXCEPT ![c] = th]
<1>1. threads[c] \in Thread /\ Sound(threads[c], changes)
  BY DEF SyncInv, Versions, SoundThreads
<1>2. Sound(th, changes) /\ th.changed = threads[c].changed
  BY <1>1 DEF Sound, Thread
<1>3. threads' \in Touched({p}, ths)
  BY DEF RetryTask, Goto
<1>4. /\ SoundThreads(ths, changes)
      /\ \A u \in Threads : threads[u].changed \subseteq ths[u].changed
  <2> HIDE DEF th
  <2> QED BY <1>2, ThreadUpdate
<1>5. /\ SoundThreads(threads', changes)
      /\ \A u \in Threads : threads[u].changed \subseteq threads'[u].changed
  <2> HIDE DEF ths
  <2> QED BY <1>3, <1>4, Touching
<1>6. queue' \in [Paths -> Task]
  <2>1. queue[p] \in Task
    BY DEF SyncInv, TypeOK
  <2>2. [queue[p] EXCEPT !.st = "pending", !.tries = 0, !.rerun = FALSE] \in Task
    BY <2>1 DEF Task
  <2> QED BY <2>2 DEF RetryTask, SyncInv, TypeOK
<1>7. calls' \in 0..MaxCalls
  BY FileSyncAssumption DEF RetryTask, Call, SyncInv, TypeOK
<1> QED BY <1>5, <1>6, <1>7, QuietStep DEF RetryTask, SyncInv, TypeOK

LEMMA IgnoreTaskStep == ASSUME SyncInv, NEW p \in Paths, IgnoreTask(p) PROVE SyncInv'
<1>1. /\ SoundThreads(threads', changes)
      /\ \A u \in Threads : threads[u].changed \subseteq threads'[u].changed
  BY Removing DEF IgnoreTask, SyncInv, Versions
<1>2. queue' \in [Paths -> Task]
  <2>1. NoTask \in Task
    BY DEF NoTask, Task, Kinds
  <2> QED BY <2>1 DEF IgnoreTask, SyncInv, TypeOK
<1>3. calls' \in 0..MaxCalls
  BY FileSyncAssumption DEF IgnoreTask, Call, SyncInv, TypeOK
<1> QED BY <1>1, <1>2, <1>3, QuietStep DEF IgnoreTask, SyncInv, TypeOK

\* What a crash keeps from being told is excused.
LEMMA CrashStep == ASSUME SyncInv, Crash PROVE SyncInv'
<1>1. changes \in Nat
  BY FileSyncAssumption DEF SyncInv, TypeOK
<1>2. SoundThreads(threads', changes)
  <2>1. Sound(Idle, changes) /\ Idle \in Thread
    BY <1>1, SoundIdle DEF Sound
  <2> QED BY <2>1 DEF Crash, SoundThreads
<1>3. Untold \subseteq Paths
  <2>1. ASSUME NEW t \in Threads PROVE {c[1] : c \in threads[t].changed} \subseteq Paths
    <3>1. threads[t].changed \subseteq Paths \X Kinds
      BY DEF SyncInv, TypeOK, Thread
    <3> QED BY <3>1
  <2> QED BY <2>1 DEF Untold
<1>4. /\ snap' \in [Paths -> 0..changes]
      /\ excused' \subseteq Paths /\ excused \cup Untold \subseteq excused'
      /\ \A p \in Paths \ excused' : snap'[p] = snap[p]
  <2>1. CASE UNCHANGED snap /\ excused' = excused \cup Untold
    BY <1>3, <2>1 DEF SyncInv, TypeOK, Versions
  <2>2. ASSUME NEW t \in Threads, CanApply(t), snap' = Applied(t),
               excused' = excused \cup Untold \cup {threads[t].task}
        PROVE  /\ snap' \in [Paths -> 0..changes]
               /\ excused' \subseteq Paths /\ excused \cup Untold \subseteq excused'
               /\ \A p \in Paths \ excused' : snap'[p] = snap[p]
    <3>1. threads[t].task \in Paths /\ threads[t].meta \in 0..changes
      BY <2>2 DEF CanApply, At, Unreadable, SyncInv, Versions, SoundThreads, Sound
    <3> QED BY <1>3, <2>2, <3>1 DEF Applied, SyncInv, TypeOK, Versions
  <2> QED BY <2>1, <2>2 DEF Crash
<1>5. snap' \in [Paths -> 0..MaxChanges]
  BY <1>4, FileSyncAssumption DEF SyncInv, TypeOK
<1>6. TypeOK' /\ Versions'
  BY <1>2, <1>4, <1>5 DEF Crash, SyncInv, TypeOK, Versions, SoundThreads, counts
<1>7. EveryChangeTold'
  BY <1>4 DEF Crash, SyncInv, EveryChangeTold
<1> QED BY <1>6, <1>7 DEF SyncInv

-----------------------------------------------------------------------------
(* Tasks and the threads that end them *)

\* Only a thread that is to end a task has one.
TaskAtFinish == \A t \in Threads : threads[t].pc # "finish" => threads[t].task = NoPath

\* The thread will change the state of the task it has picked: it finds its own
\* time stamp there, or another one and that there was a change meanwhile.
Minds(t, p) ==
    /\ threads[t].task = p
    /\ threads[t].grip = "same" \/ (threads[t].grip = "touched" /\ queue[p].rerun)

\* Since the tasks of the last session were reset no write has failed.
Serving == (watcher # NoWatcher \/ \E t \in Threads : threads[t].start) /\ faults = 0

Minded ==
    Serving => \A p \in Paths : queue[p].st = "processing" => \E t \in Threads : Minds(t, p)

TaskInv == TypeOK /\ TaskAtFinish /\ Minded

\* A thread without a task may do anything that leaves it without one.
LEMMA TasksKept ==
    ASSUME TaskInv, NEW t \in Threads, NEW th, threads' = [threads EXCEPT ![t] = th],
           threads[t].pc # "finish", th.task = NoPath, th.start => threads[t].start,
           queue' = queue, faults' = faults, watcher' = watcher \/ threads[t].start
    PROVE  TaskAtFinish' /\ Minded'
<1>1. \A u \in Threads \ {t} : threads'[u] = threads[u]
  BY DEF TaskInv, TypeOK
<1>2. threads'[t] = th /\ threads[t].task = NoPath
  BY DEF TaskInv, TypeOK, TaskAtFinish
<1>3. TaskAtFinish'
  BY <1>1, <1>2 DEF TaskInv, TaskAtFinish
<1>4. Serving' => Serving
  BY <1>1, <1>2 DEF Serving
<1>5. ASSUME Serving', NEW p \in Paths, queue'[p].st = "processing"
      PROVE  \E u \in Threads : Minds(u, p)'
  <2>1. PICK u \in Threads : Minds(u, p)
    BY <1>5, <1>4 DEF TaskInv, Minded
  <2>2. u # t
    BY <1>2, <2>1, FileSyncAssumption DEF Minds
  <2> QED BY <1>1, <2>1, <2>2 DEF Minds
<1> QED BY <1>3, <1>5 DEF Minded

\* Time stamps change under the hands of those who have the task.
LEMMA TouchedTasks ==
    ASSUME NEW ths \in [Threads -> Thread], NEW S, NEW ths2 \in Touched(S, ths), NEW u \in Threads
    PROVE  /\ ths2 \in [Threads -> Thread]
           /\ ths2[u].task = ths[u].task /\ ths2[u].pc = ths[u].pc /\ ths2[u].start = ths[u].start
           /\ ths2[u].grip = ths[u].grip
              \/ (ths[u].task \in S /\ ths[u].grip = "same" /\ ths2[u].grip = "touched")
<1>1. PICK g \in {"same", "touched"} :
        ths2 = [t \in Threads |->
                  IF ths[t].task \in S /\ ths[t].grip = "same"
                  THEN [ths[t] EXCEPT !.grip = g] ELSE ths[t]]
  BY DEF Touched
<1>2. ASSUME NEW v \in Threads
      PROVE  LET th == [ths[v] EXCEPT !.grip = g] IN
             /\ th.task = ths[v].task /\ th.pc = ths[v].pc /\ th.start = ths[v].start
             /\ th.grip = g /\ th \in Thread
  <2>1. ths[v] \in Thread
    OBVIOUS
  <2> QED BY <2>1 DEF Thread
<1>3. ths2 \in [Threads -> Thread]
  <2>1. ASSUME NEW v \in Threads
        PROVE  (IF ths[v].task \in S /\ ths[v].grip = "same"
                THEN [ths[v] EXCEPT !.grip = g] ELSE ths[v]) \in Thread
    BY <1>2
  <2> QED BY <1>1, <2>1
<1>4. ths2[u] = ths[u] \/ (ths[u].task \in S /\ ths[u].grip = "same"
                           /\ ths2[u] = [ths[u] EXCEPT !.grip = g])
  BY <1>1
<1> QED BY <1>2, <1>3, <1>4

LEMMA RemovedTasks ==
    ASSUME NEW ths \in [Threads -> Thread], NEW S, NEW u \in Threads
    PROVE  LET th == Removed(S, ths)[u] IN
           /\ th.task = ths[u].task /\ th.pc = ths[u].pc /\ th.start = ths[u].start
           /\ ths[u].task \notin S => th.grip = ths[u].grip
<1>1. LET th == [ths[u] EXCEPT !.grip = "gone"] IN
      th.task = ths[u].task /\ th.pc = ths[u].pc /\ th.start = ths[u].start
  BY DEF Thread
<1> QED BY <1>1 DEF Removed

\* What happens to one task leaves the others to their threads.
LEMMA OthersKept ==
    ASSUME TaskInv, Serving, NEW t \in Threads, NEW p \in Paths, threads[t].task # p,
           queue'[p] = queue[p], queue[p].st = "processing",
           \A u \in Threads \ {t} : threads[u].task = p
              => threads'[u].task = p /\ threads'[u].grip = threads[u].grip
    PROVE  \E u \in Threads : Minds(u, p)'
<1>1. PICK u \in Threads : Minds(u, p)
  BY DEF TaskInv, Minded
<1> QED BY <1>1 DEF Minds

\* The steps of threads without a task
LEMMA FreeThreadStep ==
    ASSUME TaskInv, NEW t \in Threads,
           \/ Wake(t) \/ ReadOwn(t) \/ WriteOwn(t) \/ PeriodicRescan(t) \/ Look(t) \/ Read(t)
           \/ Ends(t) \/ Rescan(t)
    PROVE  TaskAtFinish' /\ Minded'
<1>1. threads[t] \in Thread
  BY DEF TaskInv, TypeOK
<1>2. Idle.task = NoPath /\ Idle.start = FALSE
  BY DEF Idle
<1>3. threads[t].pc # "finish" => threads[t].task = NoPath
  BY DEF TaskInv, TaskAtFinish
<1>4. CASE Wake(t)
  <2> DEFINE there == {p \in Paths : disk[p] # Gone}
             batch == ((chan \cap Paths) \cup (IF Root \in chan THEN there ELSE {})) \ ignored
             own == {p \in chan \cap ignored : disk[p] # Gone \/ snap[p] # Gone}
             pc == IF own # {} THEN "own" ELSE IF batch # {} THEN "look" ELSE "idle"
             th == [threads[t] EXCEPT !.batch = batch, !.own = own, !.pc = pc]
  <2>1. threads' = [threads EXCEPT ![t] = th]
    BY <1>4 DEF Wake, TaskInv, TypeOK
  <2>2. threads[t].pc # "finish" /\ queue' = queue /\ faults' = faults /\ watcher' = watcher
    BY <1>4 DEF Wake, At, files, counts
  <2>3. th.task = NoPath /\ th.start = threads[t].start
    <3> HIDE DEF batch, own, pc
    <3> QED BY <1>1, <1>3, <2>2 DEF Thread
  <2> HIDE DEF th
  <2> QED BY <2>1, <2>2, <2>3, TasksKept
<1>5. CASE ReadOwn(t)
  <2> DEFINE th == [threads[t] EXCEPT !.view = disk, !.pc = "ownWrite"]
  <2>1. threads' = [threads EXCEPT ![t] = th]
    BY <1>5 DEF ReadOwn, TaskInv, TypeOK
  <2>2. threads[t].pc # "finish" /\ queue' = queue /\ faults' = faults /\ watcher' = watcher
    BY <1>5 DEF ReadOwn, At, files, counts
  <2>3. th.task = NoPath /\ th.start = threads[t].start
    BY <1>1, <1>3, <2>2 DEF Thread
  <2> HIDE DEF th
  <2> QED BY <2>1, <2>2, <2>3, TasksKept
<1>6. CASE WriteOwn(t)
  <2> DEFINE th == IF threads[t].batch = {} \/ Stale(t) THEN Idle
                   ELSE [Idle EXCEPT !.pc = "look", !.batch = threads[t].batch]
  <2>1. threads' = [threads EXCEPT ![t] = th]
    BY <1>6 DEF WriteOwn
  <2>2. threads[t].pc # "finish" /\ queue' = queue /\ faults' = faults /\ watcher' = watcher
    BY <1>6 DEF WriteOwn, At, counts
  <2>3. th.task = NoPath /\ th.start = FALSE
    <3>1. LET lo == [Idle EXCEPT !.pc = "look", !.batch = threads[t].batch] IN
          lo.task = NoPath /\ lo.start = FALSE
      BY DEF Idle
    <3> QED BY <1>2, <3>1
  <2> HIDE DEF th
  <2> QED BY <2>1, <2>2, <2>3, TasksKept
<1>7. CASE PeriodicRescan(t)
  <2> DEFINE th == [threads[t] EXCEPT !.batch = Differs, !.pc = "look"]
  <2>1. threads' = [threads EXCEPT ![t] = th]
    BY <1>7 DEF PeriodicRescan, TaskInv, TypeOK
  <2>2. threads[t].pc # "finish" /\ queue' = queue /\ faults' = faults /\ watcher' = watcher
    BY <1>7 DEF PeriodicRescan, At, files, counts
  <2>3. th.task = NoPath /\ th.start = threads[t].start
    BY <1>1, <1>3, <2>2 DEF Thread
  <2> HIDE DEF th
  <2> QED BY <2>1, <2>2, <2>3, TasksKept
<1>8. CASE Look(t)
  <2> DEFINE th == [threads[t] EXCEPT !.view = snap, !.pc = "read"]
  <2>1. threads' = [threads EXCEPT ![t] = th]
    BY <1>8 DEF Look, TaskInv, TypeOK
  <2>2. threads[t].pc # "finish" /\ queue' = queue /\ faults' = faults /\ watcher' = watcher
    BY <1>8 DEF Look, At, files, counts
  <2>3. th.task = NoPath /\ th.start = threads[t].start
    BY <1>1, <1>3, <2>2 DEF Thread
  <2> HIDE DEF th
  <2> QED BY <2>1, <2>2, <2>3, TasksKept
<1>9. CASE Read(t)
  <2> DEFINE found == {<<p, KindOf(threads[t].view[p], disk[p])>> :
                         p \in {q \in threads[t].batch : ~ Alike(q, threads[t].view[q], disk[q])}}
             pc == IF found # {} THEN "upsert" ELSE IF Stale(t) THEN "idle" ELSE "pick"
             th == [NextPass(threads[t]) EXCEPT !.found = found, !.pc = pc]
  <2>1. threads' = [threads EXCEPT ![t] = th]
    BY <1>9 DEF Read
  <2>2. threads[t].pc # "finish" /\ queue' = queue /\ faults' = faults /\ watcher' = watcher
    BY <1>9 DEF Read, At, files, counts
  <2>3. th.task = NoPath /\ th.start = threads[t].start
    <3> HIDE DEF found, pc
    <3> QED BY DEF NextPass, Idle
  <2> HIDE DEF th
  <2> QED BY <2>1, <2>2, <2>3, TasksKept
<1>10. CASE Ends(t)
  <2>1. threads' = [threads EXCEPT ![t] = Idle]
    BY <1>10 DEF Ends
  <2>2. threads[t].pc # "finish" /\ queue' = queue /\ faults' = faults
    BY <1>10 DEF Ends, At, files, counts
  <2>3. watcher' = watcher \/ threads[t].start
    BY <1>10 DEF Ends
  <2> QED BY <1>2, <2>1, <2>2, <2>3, TasksKept
<1>11. CASE Rescan(t)
  <2> DEFINE batch == {p \in Paths : disk[p] # Gone \/ snap[p] # Gone}
             th == [threads[t] EXCEPT !.pc = "look", !.batch = batch]
  <2>1. threads' = [threads EXCEPT ![t] = th]
    BY <1>11 DEF Rescan, TaskInv, TypeOK
  <2>2. threads[t].pc # "finish" /\ queue' = queue /\ faults' = faults /\ watcher' = watcher
    BY <1>11 DEF Rescan, Free, At, files
  <2>3. th.task = NoPath /\ th.start = threads[t].start
    <3> HIDE DEF batch
    <3> QED BY <1>1, <1>3, <2>2 DEF Thread
  <2> HIDE DEF th
  <2> QED BY <2>1, <2>2, <2>3, TasksKept
<1> QED BY <1>4, <1>5, <1>6, <1>7, <1>8, <1>9, <1>10, <1>11

\* A change while its task is processed marks the task.
LEMMA UpsertTasks ==
    ASSUME TaskInv, NEW t \in Threads, Upsert(t) PROVE TaskAtFinish' /\ Minded'
<1> DEFINE S == {f[1] : f \in threads[t].found}
           Of(p) == (CHOOSE f \in threads[t].found : f[1] = p)[2]
           pc == IF Stale(t) THEN "idle" ELSE "pick"
           th == [threads[t] EXCEPT !.found = {}, !.pc = pc]
           ths == [threads EXCEPT ![t] = th]
<1>1. threads[t] \in Thread /\ threads[t].task = NoPath
  BY DEF TaskInv, TypeOK, TaskAtFinish, Upsert, At
<1>2. th \in Thread /\ th.task = NoPath /\ th.start = threads[t].start
  BY <1>1 DEF Thread
<1>3. threads' \in Touched(S, ths)
  <2>1. [threads EXCEPT ![t].found = {}, ![t].pc = pc] = ths
    BY DEF TaskInv, TypeOK
  <2> QED BY <2>1 DEF Upsert
<1>4. queue' = [p \in Paths |-> IF p \in S THEN Upserted(queue[p], Of(p)) ELSE queue[p]]
  BY DEF Upsert
<1>5. ths \in [Threads -> Thread] /\ ths[t].task = NoPath /\ ths[t].start = threads[t].start
      /\ \A u \in Threads \ {t} : ths[u] = threads[u]
  <2> HIDE DEF th
  <2> QED BY <1>2 DEF TaskInv, TypeOK
<1> HIDE DEF S, Of, ths
<1>6. \A u \in Threads :
        /\ threads'[u].task = threads[u].task
        /\ threads'[u].start = threads[u].start
        /\ u # t => /\ threads'[u].pc = threads[u].pc
                    /\ threads'[u].grip = threads[u].grip
                       \/ (threads[u].task \in S /\ threads[u].grip = "same"
                           /\ threads'[u].grip = "touched")
  BY <1>1, <1>3, <1>5, TouchedTasks
<1>7. TaskAtFinish'
  BY <1>1, <1>6 DEF TaskInv, TaskAtFinish
<1>8. ASSUME Serving', NEW p \in Paths, queue'[p].st = "processing"
      PROVE  \E u \in Threads : Minds(u, p)'
  <2>1. Serving
    BY <1>6, <1>8 DEF Serving, Upsert, counts
  <2>2. queue[p].st = "processing" /\ (p \in S => queue'[p].rerun) /\ (p \notin S => queue'[p] = queue[p])
    <3>1. CASE p \in S
      <4>1. queue'[p] = Upserted(queue[p], Of(p)) /\ queue[p] \in Task
        BY <1>4, <3>1 DEF TaskInv, TypeOK
      <4> QED BY <1>8, <3>1, <4>1 DEF Upserted, NoTask, Task
    <3>2. CASE p \notin S
      BY <1>4, <1>8, <3>2
    <3> QED BY <3>1, <3>2
  <2>3. PICK u \in Threads : Minds(u, p)
    BY <2>1, <2>2 DEF TaskInv, Minded
  <2>4. u # t
    BY <1>1, <2>3, FileSyncAssumption DEF Minds
  <2> QED BY <1>6, <2>2, <2>3, <2>4 DEF Minds
<1> QED BY <1>7, <1>8 DEF Minded

LEMMA PickTasks == ASSUME TaskInv, NEW t \in Threads, Pick(t) PROVE TaskAtFinish' /\ Minded'
<1>1. PICK p \in Pending :
        /\ queue' = [queue EXCEPT ![p].st = "processing"]
        /\ \E m \in {disk[p], Unreadable} :
              \E ths \in Touched({p}, threads) :
                 threads' = [ths EXCEPT ![t] = Picked(@, p, m)]
  BY DEF Pick
<1>2. PICK m \in {disk[p], Unreadable}, ths \in Touched({p}, threads) :
        threads' = [ths EXCEPT ![t] = Picked(@, p, m)]
  BY <1>1
<1>3. p \in Paths /\ threads[t].task = NoPath
  BY DEF Pending, TaskInv, TaskAtFinish, Pick, At
<1>4. ths \in [Threads -> Thread]
  BY TouchedTasks DEF TaskInv, TypeOK
<1>5. \A u \in Threads :
        /\ ths[u].task = threads[u].task /\ ths[u].pc = threads[u].pc
        /\ ths[u].start = threads[u].start
        /\ threads[u].task # p => ths[u].grip = threads[u].grip
  BY TouchedTasks DEF TaskInv, TypeOK
<1>6. /\ threads'[t] = Picked(ths[t], p, m)
      /\ \A u \in Threads \ {t} : threads'[u] = ths[u]
  BY <1>2, <1>4
<1>7. LET th == Picked(ths[t], p, m) IN
      th.task = p /\ th.pc = "finish" /\ th.grip = "same" /\ th.start = ths[t].start
  <2>1. ths[t] \in Thread
    BY <1>4
  <2> QED BY <2>1 DEF Picked, Thread
<1>8. TaskAtFinish'
  BY <1>5, <1>6, <1>7 DEF TaskInv, TaskAtFinish
<1>9. ASSUME Serving', NEW q \in Paths, queue'[q].st = "processing"
      PROVE  \E u \in Threads : Minds(u, q)'
  <2>1. Serving
    BY <1>5, <1>6, <1>7, <1>9, FileSyncAssumption DEF Serving, Pick, Fault, NoFault, TaskInv, TypeOK
  <2>2. CASE q = p
    BY <1>6, <1>7, <2>2 DEF Minds
  <2>3. CASE q # p
    <3>1. queue'[q] = queue[q]
      BY <1>1, <2>3 DEF TaskInv, TypeOK
    <3>2. threads[t].task # q
      BY <1>3, FileSyncAssumption
    <3> QED BY <1>5, <1>6, <1>9, <2>1, <2>3, <3>1, <3>2, OthersKept
  <2> QED BY <2>2, <2>3
<1> QED BY <1>8, <1>9 DEF Minded

LEMMA FinishOtherTasks ==
    ASSUME SyncInv, TaskInv, NEW t \in Threads, FinishOther(t) PROVE TaskAtFinish' /\ Minded'
<1> DEFINE p == threads[t].task
           ths == [threads EXCEPT ![t] = NextPass(@)]
           other == threads[t].grip # "gone" /\ queue[p].st = "processing" /\ queue[p].rerun
<1>1. threads[t].pc = "finish" /\ p \in Paths /\ queue[p] \in Task
  BY DEF FinishOther, At, SyncInv, TypeOK, Versions, SoundThreads, Sound
<1>2. LET th == NextPass(threads[t]) IN
      th.task = NoPath /\ th.start = threads[t].start /\ th \in Thread
  <2>1. Sound(threads[t], changes) /\ changes \in Nat
    BY FileSyncAssumption DEF SyncInv, TypeOK, Versions, SoundThreads
  <2> QED BY <2>1, SoundNext DEF NextPass, Idle
<1>3. /\ ths \in [Threads -> Thread] /\ ths[t] = NextPass(threads[t])
      /\ \A u \in Threads \ {t} : ths[u] = threads[u]
  BY <1>2 DEF TaskInv, TypeOK
<1> HIDE DEF ths
<1>4. threads' = ths \/ threads' \in Touched({p}, ths)
  BY DEF FinishOther, ths
<1>5. \A u \in Threads :
        /\ threads'[u].task = ths[u].task /\ threads'[u].start = ths[u].start
        /\ threads'[u].pc = ths[u].pc
        /\ ths[u].task # p => threads'[u].grip = ths[u].grip
  BY <1>3, <1>4, TouchedTasks
<1>6. TaskAtFinish'
  BY <1>2, <1>3, <1>5 DEF TaskInv, TaskAtFinish
<1>7. ASSUME Serving', NEW q \in Paths, queue'[q].st = "processing"
      PROVE  \E u \in Threads : Minds(u, q)'
  <2>1. Serving
    BY <1>2, <1>3, <1>5, <1>7 DEF Serving, FinishOther, counts
  <2>2. CASE other
    <3>1. queue' = [queue EXCEPT ![p].st = "pending", ![p].rerun = FALSE]
      BY <2>2 DEF FinishOther
    <3>2. [queue[p] EXCEPT !.st = "pending", !.rerun = FALSE].st = "pending"
      BY <1>1 DEF Task
    <3>3. q # p /\ queue'[q] = queue[q]
      BY <1>1, <1>7, <3>1, <3>2 DEF TaskInv, TypeOK
    <3> QED BY <1>3, <1>5, <1>7, <2>1, <3>3, OthersKept
  <2>3. CASE ~ other
    <3>1. queue' = queue /\ threads' = ths
      BY <2>3 DEF FinishOther, ths
    <3>2. PICK u \in Threads : Minds(u, q)
      BY <1>7, <2>1, <3>1 DEF TaskInv, Minded
    <3>3. u # t
      <4>1. ~ Holds(t)
        BY DEF FinishOther
      <4> QED BY <1>7, <2>3, <3>1, <3>2, <4>1 DEF Holds, Minds
    <3> QED BY <1>3, <3>1, <3>2, <3>3 DEF Minds
  <2> QED BY <2>2, <2>3
<1> QED BY <1>6, <1>7 DEF Minded

LEMMA FinishTasks ==
    ASSUME SyncInv, TaskInv, NEW t \in Threads, Finish(t) PROVE TaskAtFinish' /\ Minded'
<1> DEFINE p == threads[t].task
           ok == threads[t].meta # Unreadable
           task == IF ok THEN Done(queue[p])
                   ELSE [queue[p] EXCEPT !.st = "failed", !.tries = @ + 1]
           ths == [threads EXCEPT ![t] = Ended(@)]
<1>1. threads[t].pc = "finish" /\ p \in Paths /\ queue[p] \in Task
  BY DEF Finish, At, SyncInv, TypeOK, Versions, SoundThreads, Sound
<1>2. LET th == Ended(threads[t]) IN
      th.task = NoPath /\ th.start = threads[t].start /\ th \in Thread
  <2>1. Sound(threads[t], changes) /\ changes \in Nat
    BY FileSyncAssumption DEF SyncInv, TypeOK, Versions, SoundThreads
  <2>2. Sound(Ended(threads[t]), changes)
    BY <1>1, <2>1, SoundEnded
  <2> QED BY <2>2 DEF Ended, NextPass, Idle, Sound
<1>3. /\ ths \in [Threads -> Thread] /\ ths[t] = Ended(threads[t])
      /\ \A u \in Threads \ {t} : ths[u] = threads[u]
  BY <1>2 DEF TaskInv, TypeOK
<1>4. task.st # "processing"
  BY <1>1 DEF Done, NoTask, Task
<1>5. queue' = [queue EXCEPT ![p] = task]
  BY DEF Finish
<1>6. threads' = Removed({p}, ths) \/ threads' \in Touched({p}, ths)
  BY DEF Finish
<1> HIDE DEF ths, task
<1>7. \A u \in Threads :
        /\ threads'[u].task = ths[u].task /\ threads'[u].start = ths[u].start
        /\ threads'[u].pc = ths[u].pc
        /\ ths[u].task # p => threads'[u].grip = ths[u].grip
  BY <1>3, <1>6, TouchedTasks, RemovedTasks
<1>8. TaskAtFinish'
  BY <1>2, <1>3, <1>7 DEF TaskInv, TaskAtFinish
<1>9. ASSUME Serving', NEW q \in Paths, queue'[q].st = "processing"
      PROVE  \E u \in Threads : Minds(u, q)'
  <2>1. Serving
    BY <1>2, <1>3, <1>7, <1>9 DEF Serving, Finish, counts
  <2>2. q # p /\ queue'[q] = queue[q]
    BY <1>1, <1>4, <1>5, <1>9 DEF TaskInv, TypeOK
  <2> QED BY <1>3, <1>7, <1>9, <2>1, <2>2, OthersKept
<1> QED BY <1>8, <1>9 DEF Minded

LEMMA RetryTaskTasks ==
    ASSUME TaskInv, NEW c \in Threads, NEW p \in Paths, RetryTask(c, p)
    PROVE  TaskAtFinish' /\ Minded'
<1> DEFINE th == [threads[c] EXCEPT !.pc = "pick"]
           ths == [threads EXCEPT ![c] = th]
<1>1. threads[c] \in Thread /\ threads[c].task = NoPath
  BY DEF TaskInv, TypeOK, TaskAtFinish, RetryTask, Free, At
<1>2. th \in Thread /\ th.task = NoPath /\ th.start = threads[c].start
  BY <1>1 DEF Thread
<1>3. threads' \in Touched({p}, ths)
  BY DEF RetryTask, Goto
<1> HIDE DEF th
<1>4. ths \in [Threads -> Thread] /\ ths[c] = th /\ \A u \in Threads \ {c} : ths[u] = threads[u]
  BY <1>2 DEF TaskInv, TypeOK
<1> HIDE DEF ths
<1>5. \A u \in Threads :
        /\ threads'[u].task = ths[u].task /\ threads'[u].start = ths[u].start
        /\ threads'[u].pc = ths[u].pc
        /\ ths[u].task # p => threads'[u].grip = ths[u].grip
  BY <1>3, <1>4, TouchedTasks
<1>6. TaskAtFinish'
  BY <1>2, <1>4, <1>5 DEF TaskInv, TaskAtFinish
<1>7. ASSUME Serving', NEW q \in Paths, queue'[q].st = "processing"
      PROVE  \E u \in Threads : Minds(u, q)'
  <2>1. Serving
    BY <1>2, <1>4, <1>5, <1>7 DEF Serving, RetryTask
  <2>2. queue[p] \in Task
    BY DEF TaskInv, TypeOK
  <2>3. [queue[p] EXCEPT !.st = "pending", !.tries = 0, !.rerun = FALSE].st = "pending"
    BY <2>2 DEF Task
  <2>4. q # p /\ queue'[q] = queue[q]
    BY <1>7, <2>3 DEF RetryTask, TaskInv, TypeOK
  <2>5. threads[c].task # q
    BY <1>1, FileSyncAssumption
  <2> QED BY <1>4, <1>5, <1>7, <2>1, <2>4, <2>5, OthersKept
<1> QED BY <1>6, <1>7 DEF Minded

LEMMA IgnoreTaskTasks ==
    ASSUME TaskInv, NEW p \in Paths, IgnoreTask(p) PROVE TaskAtFinish' /\ Minded'
<1>1. \A u \in Threads :
        /\ threads'[u].task = threads[u].task /\ threads'[u].start = threads[u].start
        /\ threads'[u].pc = threads[u].pc
        /\ threads[u].task # p => threads'[u].grip = threads[u].grip
  BY RemovedTasks DEF IgnoreTask, TaskInv, TypeOK
<1>2. TaskAtFinish'
  BY <1>1 DEF TaskInv, TaskAtFinish
<1>3. ASSUME Serving', NEW q \in Paths, queue'[q].st = "processing"
      PROVE  \E u \in Threads : Minds(u, q)'
  <2>1. Serving
    BY <1>1, <1>3 DEF Serving, IgnoreTask
  <2>2. q # p /\ queue'[q] = queue[q]
    BY <1>3 DEF IgnoreTask, NoTask, TaskInv, TypeOK
  <2>3. PICK u \in Threads : Minds(u, q)
    BY <1>3, <2>1, <2>2 DEF TaskInv, Minded
  <2> QED BY <1>1, <2>2, <2>3 DEF Minds
<1> QED BY <1>2, <1>3 DEF Minded

\* After the start of a watcher nothing is in processing.
LEMMA StartTasks ==
    ASSUME TaskInv, NEW c \in Threads, Start(c) PROVE TaskAtFinish' /\ Minded'
<1> DEFINE th == [threads[c] EXCEPT !.start = TRUE, !.batch = Differs, !.pc = "look"]
           ths == [threads EXCEPT ![c] = th]
           S == {p \in Paths : queue[p].st = "processing"}
<1>1. threads[c] \in Thread /\ threads[c].task = NoPath
  BY DEF TaskInv, TypeOK, TaskAtFinish, Start, Free, At
<1>2. th \in Thread /\ th.task = NoPath
  <2>1. Differs \subseteq Paths
    BY DEF Differs
  <2> QED BY <1>1, <2>1 DEF Thread
<1>3. threads' \in Touched(S, ths)
  <2>1. [threads EXCEPT ![c].start = TRUE, ![c].batch = Differs, ![c].pc = "look"] = ths
    BY DEF TaskInv, TypeOK
  <2> QED BY <2>1 DEF Start
<1> HIDE DEF th
<1>4. ths \in [Threads -> Thread] /\ ths[c] = th /\ \A u \in Threads \ {c} : ths[u] = threads[u]
  BY <1>2 DEF TaskInv, TypeOK
<1> HIDE DEF ths, S
<1>5. \A u \in Threads : threads'[u].task = ths[u].task /\ threads'[u].pc = ths[u].pc
  BY <1>3, <1>4, TouchedTasks
<1>6. TaskAtFinish'
  BY <1>2, <1>4, <1>5 DEF TaskInv, TaskAtFinish
<1>7. ASSUME NEW p \in Paths PROVE queue'[p].st # "processing"
  <2>1. queue[p] \in Task /\ queue'[p] = Reset(queue[p])
    BY DEF Start, TaskInv, TypeOK
  <2> QED BY <2>1 DEF Reset, Task
<1> QED BY <1>6, <1>7 DEF Minded

\* A failure or a crash ends what Minded speaks of.
LEMMA FailureTasks ==
    ASSUME TaskInv, Crash \/ \E t \in Threads : BatchFails(t) \/ PassFails(t)
    PROVE  TaskAtFinish' /\ Minded'
<1>1. Idle.task = NoPath /\ Idle.start = FALSE
  BY DEF Idle
<1>2. CASE Crash
  BY <1>1, <1>2 DEF Crash, TaskAtFinish, Minded, Serving
<1>3. ASSUME NEW t \in Threads, BatchFails(t) \/ PassFails(t)
      PROVE  TaskAtFinish' /\ Minded'
  <2>1. threads' = [threads EXCEPT ![t] = Idle] /\ faults' = faults + 1 /\ faults \in Nat
    BY <1>3, FileSyncAssumption DEF BatchFails, PassFails, GivesUp, Fault, TaskInv, TypeOK
  <2>2. TaskAtFinish'
    BY <1>1, <2>1 DEF TaskInv, TypeOK, TaskAtFinish
  <2> QED BY <2>1, <2>2 DEF Minded, Serving
<1> QED BY <1>2, <1>3

\* Changes of files, and the end of the watcher, concern no task.
LEMMA QuietTasks ==
    ASSUME TaskInv, UNCHANGED <<threads, queue, faults>>, watcher' \in {watcher, NoWatcher}
    PROVE  TaskAtFinish' /\ Minded'
BY DEF TaskInv, TaskAtFinish, Minded, Serving, Minds

-----------------------------------------------------------------------------
(* The theorems *)

LEMMA InitInv == Init => SyncInv
<1> SUFFICES ASSUME Init PROVE SyncInv
  OBVIOUS
<1> USE FileSyncAssumption DEF Init
<1>1. Sound(Idle, 0) /\ Idle \in Thread
  BY SoundIdle DEF Sound
<1>2. SoundThreads(threads, 0)
  BY <1>1 DEF SoundThreads
<1>3. NoTask \in Task
  BY DEF NoTask, Task, Kinds
<1>4. disk \in [Paths -> 0..0] /\ disk \in [Paths -> 0..MaxChanges]
  BY DEF Gone
<1>5. TypeOK
  <2>1. threads \in [Threads -> Thread] /\ queue \in [Paths -> Task]
    BY <1>2, <1>3 DEF SoundThreads
  <2>2. changes \in 0..MaxChanges /\ faults \in 0..MaxFaults /\ calls \in 0..MaxCalls
    OBVIOUS
  <2> QED BY <1>4, <2>1, <2>2 DEF TypeOK
<1>6. Versions
  BY <1>2, <1>4 DEF Versions
<1> QED BY <1>5, <1>6 DEF SyncInv, EveryChangeTold

LEMMA StepInv == SyncInv /\ [Next]_vars => SyncInv'
<1> SUFFICES ASSUME SyncInv, [Next]_vars PROVE SyncInv'
  OBVIOUS
<1>1. ASSUME NEW p \in Paths, Write(p) \/ Delete(p) \/ AppWrite(p) \/ IgnoreExpires(p)
      PROVE  SyncInv'
  BY <1>1, WriteStep, DeleteStep, AppWriteStep, IgnoreExpiresStep
<1>2. CASE CommandStep
  <2>1. Commands \subseteq Threads
    BY DEF Threads
  <2> QED BY <1>2, <2>1, StartStep, RescanStep, RetryTaskStep, IgnoreTaskStep, StopStep, CrashStep
          DEF CommandStep
<1>3. ASSUME NEW t \in Threads, ThreadStep(t) PROVE SyncInv'
  BY <1>3, ReadOwnStep, WriteOwnStep, LookStep, BatchFailsStep, ReadStep, UpsertStep, PickStep,
     FinishOtherStep, FinishStep, PassFailsStep, EndsStep, WakeStep, PeriodicRescanStep
  DEF ThreadStep, Working
<1>4. CASE UNCHANGED vars
  <2>1. SoundThreads(threads', changes)
    BY <1>4 DEF vars, SyncInv, Versions
  <2> QED BY <1>4, <2>1, QuietStep DEF vars, files, counts, SyncInv, TypeOK
<1> QED BY <1>1, <1>2, <1>3, <1>4 DEF Next, FileStep

LEMMA StepTasks == SyncInv /\ TaskInv /\ [Next]_vars => TaskAtFinish' /\ Minded'
<1> SUFFICES ASSUME SyncInv, TaskInv, [Next]_vars PROVE TaskAtFinish' /\ Minded'
  OBVIOUS
<1>1. Commands \subseteq Threads
  BY DEF Threads
<1>2. CASE FileStep
  BY <1>2, QuietTasks DEF FileStep, Write, Delete, AppWrite, IgnoreExpires, files, counts
<1>3. CASE Stop
  BY <1>3, QuietTasks DEF Stop, files, counts
<1>4. CASE CommandStep /\ ~ Stop
  BY <1>1, <1>4, StartTasks, FreeThreadStep, RetryTaskTasks, IgnoreTaskTasks, FailureTasks
  DEF CommandStep
<1>5. ASSUME NEW t \in Threads, ThreadStep(t) PROVE TaskAtFinish' /\ Minded'
  BY <1>5, FreeThreadStep, UpsertTasks, PickTasks, FinishOtherTasks, FinishTasks, FailureTasks
  DEF ThreadStep, Working
<1>6. CASE UNCHANGED vars
  BY <1>6, QuietTasks DEF vars, files, counts
<1> QED BY <1>2, <1>3, <1>4, <1>5, <1>6 DEF Next

\* The invariant holds, with any number of files, threads and changes.
THEOREM SyncInvariance == Spec => []SyncInv
BY InitInv, StepInv, PTL DEF Spec

\* Every variable of the watcher keeps its type.
THEOREM SyncTyping == Spec => []TypeOK
<1>1. SyncInv => TypeOK
  BY DEF SyncInv
<1> QED BY <1>1, SyncInvariance, PTL

\* No change is swallowed (process_queue_inner, sync_snapshot_paths): whatever
\* the snapshot knows of a file the front end was told, or will be.
THEOREM NoChangeSwallowed == Spec => []EveryChangeTold
<1>1. SyncInv => EveryChangeTold
  BY DEF SyncInv
<1> QED BY <1>1, SyncInvariance, PTL

\* No task is left in processing without a thread (process_queue_inner,
\* reset_processing_tasks), whichever commands and sessions touch it, unless a
\* write has failed.
THEOREM NoTaskOrphaned == Spec => []NoOrphan
<1>1. Init => TaskAtFinish /\ Minded
  BY DEF Init, TaskAtFinish, Minded, Idle, NoTask
<1>2. TypeOK /\ TaskAtFinish /\ Minded => TaskInv /\ NoOrphan
  BY DEF TaskInv, Minded, Serving, Minds, NoOrphan, Orphan
<1>3. SyncInv => TypeOK
  BY DEF SyncInv
<1>4. TaskInv => TaskAtFinish /\ Minded
  BY DEF TaskInv
<1> QED BY <1>1, <1>2, <1>3, <1>4, SyncInvariance, StepTasks, PTL DEF Spec
=============================================================================
