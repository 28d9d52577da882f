--------------------------- MODULE IngestQueueRuns ---------------------------
(***************************************************************************)
(* Theorems about the runs of the ingest queue, its scheduler and its      *)
(* files, as long as no call of the user overlaps with the opening or the  *)
(* closing of a project, and no save or lookup with the start of a         *)
(* closing.                                                                *)
(***************************************************************************)
EXTENDS IngestQueueProofs

NoSched == \A i \in SchedIds : scheds[i].pc = "none"

\* What is to be done after the saves that are waiting.
Due == {writes[j].k : j \in DOMAIN writes}
OpenDue == \E b \in BOOLEAN : <<"open", b>> \in Due
RunDue(r) == \E b \in BOOLEAN : <<"run", r, b>> \in Due

\* A run that is finished waits for the one save that forgets it.
RunWrites ==
    /\ \A r \in RunIds : RunDue(r) <=> runs[r].stage = "finish"
    /\ \A r \in RunIds, j, k \in DOMAIN writes :
          (\E a, b \in BOOLEAN : writes[j].k = <<"run", r, a>> /\ writes[k].k = <<"run", r, b>>)
             => j = k

\* While a project is opened or closed nothing else goes on in the queue.
Quiet ==
    /\ cur = NoProject => queue = << >> /\ ~ Switching
    /\ cur = NoProject \/ Switching => NoSched /\ timer = NoProject
    /\ cur = NoProject \/ closing.pc = "commits" \/ opening.pc = "load" => writes = << >>
    /\ closing.pc # "idle" => cur = closing.proj
    /\ opening.pc # "idle" => cur = opening.proj
    /\ closing.pc \in {"save1", "save2"} => Len(writes) = 1 /\ writes[1].k = <<"close">>
    /\ opening.pc = "save" => Len(writes) = 1
    /\ OpenDue <=> opening.pc = "save"

\* One call of processNext at a time is between its look at the queue and the
\* save of what it started, and the flag `scheduling` tells.
OneSched ==
    /\ \A i, j \in SchedIds : scheds[i].pc # "none" /\ scheds[j].pc # "none" => i = j
    /\ scheduling <=> ~ NoSched
    /\ \A i \in SchedIds : scheds[i].pc # "none" =>
          scheds[i].fresh /\ scheds[i].own /\ scheds[i].proj = cur
    /\ \A i \in SchedIds : scheds[i].pc = "registry" => active[scheds[i].task] = NoRun
    /\ \A i \in SchedIds : scheds[i].pc = "start" =>
          /\ scheds[i].run \in RunIds /\ runs[scheds[i].run].stage = "save"
          /\ runs[scheds[i].run].task = scheds[i].task
    /\ \A r \in RunIds : runs[r].stage = "save" =>
          \E i \in SchedIds : scheds[i].pc = "start" /\ scheds[i].run = r

\* activeRuns has the runs of this session, and a run of an earlier one is
\* aborted, and awaited while it commits.
Fresh(r) ==
    /\ cur = runs[r].proj /\ active[runs[r].task] = r /\ runs[r].own
    /\ ~ Switching
Outlived(r) ==
    /\ runs[r].stage \in {"prepare", "commit"} /\ runs[r].aborted
    /\ runs[r].stage = "commit" =>
          closing.pc = "commits" /\ r \in closing.waiting /\ cur = runs[r].proj
ActiveRuns ==
    /\ \A r \in RunIds : Live(r) => IF runs[r].fresh THEN Fresh(r) ELSE Outlived(r)
    /\ \A id \in TaskIds : active[id] # NoRun =>
          /\ Live(active[id]) /\ runs[active[id]].task = id
          /\ runs[active[id]].fresh \/ closing.pc = "commits"

Calm == RunWrites /\ Quiet /\ OneSched /\ ActiveRuns

-----------------------------------------------------------------------------
(* What is due after the saves *)

LEMMA KindsDiffer ==
  ASSUME NEW r, NEW x, NEW i, NEW a \in BOOLEAN, NEW b \in BOOLEAN
  PROVE  /\ <<"run", r, a>> # <<"open", b>> /\ <<"run", r, a>> # <<"sched", i>>
         /\ <<"run", r, a>> # <<"next">> /\ <<"run", r, a>> # <<"none">>
         /\ <<"run", r, a>> # <<"close">>
         /\ <<"open", b>> # <<"sched", i>> /\ <<"open", b>> # <<"next">>
         /\ <<"open", b>> # <<"none">> /\ <<"open", b>> # <<"close">>
         /\ <<"next">> # <<"none">> /\ <<"next">> # <<"close">>
         /\ <<"next">> # <<"sched", i>>
         /\ <<"sched", i>> # <<"close">> /\ <<"sched", i>> # <<"none">>
         /\ <<"none">> # <<"close">>
         /\ <<"run", r, a>> = <<"run", x, b>> => r = x
  OBVIOUS

LEMMA DueSaved ==
  ASSUME NEW p, NEW k, Saved(writes, p, k)
  PROVE  Due' = Due \cup {k}
<1>1. /\ DOMAIN writes' = DOMAIN writes \cup {Len(writes) + 1}
      /\ \A j \in DOMAIN writes : writes'[j] = writes[j]
      /\ writes'[Len(writes) + 1].k = k
  BY DEF Saved
<1> QED BY <1>1 DEF Due

LEMMA DuePopped ==
  ASSUME TypeInv, Landed, Popped
  PROVE  /\ writes[1].k \in Due /\ Due' \subseteq Due
         /\ \A k \in Due : k \in Due' \/ k = writes[1].k
<1>1. /\ 1 \in DOMAIN writes /\ Len(writes') = Len(writes) - 1 /\ writes' \in Seq(Write)
      /\ \A j \in DOMAIN writes' : /\ j \in Nat /\ j + 1 \in DOMAIN writes
                                   /\ writes'[j] = writes[j + 1]
  BY DEF Landed, Popped
<1>2. Due' \subseteq Due /\ writes[1].k \in Due
  BY <1>1 DEF Due
<1>3. \A j \in DOMAIN writes : j = 1 \/ (j - 1 \in DOMAIN writes' /\ writes'[j - 1] = writes[j])
  <2>1. writes \in Seq(Write)
    BY DEF TypeInv, FilesTyped
  <2>2. \A j \in DOMAIN writes : j = 1 \/ j - 1 \in DOMAIN writes'
    BY <1>1, <2>1
  <2>3. \A j \in DOMAIN writes : j - 1 + 1 = j
    BY <2>1
  <2> QED BY <1>1, <2>2, <2>3
<1> QED BY <1>2, <1>3 DEF Due

\* A save of a call, of the scheduler or of a closing.
LEMMA DueOther ==
  ASSUME NEW p, NEW k, Saved(writes, p, k),
         k \in {<<"next">>, <<"none">>, <<"close">>} \/ \E i : k = <<"sched", i>>
  PROVE  /\ OpenDue' <=> OpenDue
         /\ \A r : RunDue(r)' <=> RunDue(r)
<1>1. \A r, b \in BOOLEAN : k # <<"run", r, b>>
  BY KindsDiffer
<1>2. \A b \in BOOLEAN : k # <<"open", b>>
  BY KindsDiffer
<1>3. Due' = Due \cup {k}
  BY DueSaved
<1>4. OpenDue' <=> OpenDue
  BY <1>2, <1>3 DEF OpenDue
<1>5. ASSUME NEW r PROVE RunDue(r)' <=> RunDue(r)
  BY <1>1, <1>3 DEF RunDue
<1> QED BY <1>4, <1>5

FinishKept == \A r \in RunIds : runs'[r].stage = "finish" <=> runs[r].stage = "finish"

LEMMA RunWritesSame ==
  ASSUME RunWrites, FinishKept, UNCHANGED writes
  PROVE  RunWrites'
<1>1. \A r \in RunIds : RunDue(r)' <=> RunDue(r)
  BY DEF RunDue, Due
<1> QED BY <1>1 DEF RunWrites, FinishKept

LEMMA RunWritesNone ==
  ASSUME \A r \in RunIds : runs'[r].stage # "finish" /\ ~ RunDue(r)'
  PROVE  RunWrites'
<1>1. \A r \in RunIds, j \in DOMAIN writes', a \in BOOLEAN : writes'[j].k # <<"run", r, a>>
  BY DEF RunDue, Due
<1>2. \A r \in RunIds, j, k \in DOMAIN writes' :
        ~ \E a, b \in BOOLEAN : writes'[j].k = <<"run", r, a>> /\ writes'[k].k = <<"run", r, b>>
  BY <1>1
<1> QED BY <1>2 DEF RunWrites

LEMMA RunWritesSaved ==
  ASSUME RunWrites, FinishKept, NEW p, NEW k, Saved(writes, p, k),
         k \in {<<"next">>, <<"none">>, <<"close">>} \/ \E i : k = <<"sched", i>>
  PROVE  RunWrites'
<1>1. \A r \in RunIds : RunDue(r)' <=> RunDue(r)
  BY DueOther
<1>2. \A r, b \in BOOLEAN : k # <<"run", r, b>>
  BY KindsDiffer
<1>3. \A j \in DOMAIN writes' : (j \in DOMAIN writes /\ writes'[j] = writes[j]) \/ writes'[j].k = k
  BY DEF Saved
<1>4. \A r \in RunIds, j, l \in DOMAIN writes' :
        (\E a, b \in BOOLEAN : writes'[j].k = <<"run", r, a>> /\ writes'[l].k = <<"run", r, b>>)
           => j = l
  BY <1>2, <1>3 DEF RunWrites
<1> QED BY <1>1, <1>4 DEF RunWrites, FinishKept

\* The places of the writes that are left.
LEMMA PoppedRuns ==
  ASSUME RunWrites, Popped
  PROVE  \A r \in RunIds, j, l \in DOMAIN writes' :
           (\E a, b \in BOOLEAN : writes'[j].k = <<"run", r, a>> /\ writes'[l].k = <<"run", r, b>>)
              => j = l
<1> TAKE r \in RunIds, j, l \in DOMAIN writes'
<1> HAVE \E a, b \in BOOLEAN : writes'[j].k = <<"run", r, a>> /\ writes'[l].k = <<"run", r, b>>
<1>1. /\ j \in Nat /\ l \in Nat /\ j + 1 \in DOMAIN writes /\ l + 1 \in DOMAIN writes
      /\ writes'[j] = writes[j + 1] /\ writes'[l] = writes[l + 1]
  BY DEF Popped
<1>2. j + 1 = l + 1
  BY <1>1 DEF RunWrites
<1> QED BY <1>1, <1>2

LEMMA RunWritesPopped ==
  ASSUME TypeInv, RunWrites, FinishKept, Landed, Popped,
         \A r \in RunIds, b \in BOOLEAN : writes[1].k # <<"run", r, b>>
  PROVE  RunWrites'
<1>1. /\ Due' \subseteq Due
      /\ \A k \in Due : k \in Due' \/ k = writes[1].k
  BY DuePopped
<1>2. \A r \in RunIds : RunDue(r)' <=> RunDue(r)
  BY <1>1 DEF RunDue
<1> QED BY <1>2, PoppedRuns DEF RunWrites, FinishKept

LEMMA RunWritesFinish ==
  ASSUME TypeInv, RunWrites, NEW r \in RunIds, Finishes(r)
  PROVE  RunWrites'
<1>1. PICK b \in BOOLEAN : Saved(writes, cur, <<"run", r, b>>)
  BY DEF Finishes
<1>2. runs[r].stage # "finish" /\ runs'[r].stage = "finish"
      /\ \A x \in RunIds \ {r} : runs'[x].stage = runs[x].stage
  BY DEF Finishes, Flagged
<1>3. Due' = Due \cup {<<"run", r, b>>}
  BY <1>1, DueSaved
<1>4. RunDue(r)' /\ ~ RunDue(r)
  BY <1>2, <1>3 DEF RunDue, RunWrites
<1>5. ASSUME NEW x \in RunIds, x # r PROVE RunDue(x)' <=> RunDue(x)
  <2>1. \A a \in BOOLEAN : <<"run", x, a>> # <<"run", r, b>>
    BY <1>5, KindsDiffer
  <2> QED BY <1>3, <2>1 DEF RunDue
<1>6. \A j \in DOMAIN writes' :
         \/ j \in DOMAIN writes /\ writes'[j] = writes[j]
         \/ j = Len(writes) + 1 /\ writes'[j].k = <<"run", r, b>>
  BY <1>1 DEF Saved
<1>7. \A x \in RunIds, j, l \in DOMAIN writes' :
        (\E a, c \in BOOLEAN : writes'[j].k = <<"run", x, a>> /\ writes'[l].k = <<"run", x, c>>)
           => j = l
  <2> TAKE x \in RunIds, j, l \in DOMAIN writes'
  <2> HAVE \E a, c \in BOOLEAN : writes'[j].k = <<"run", x, a>> /\ writes'[l].k = <<"run", x, c>>
  <2> PICK a \in BOOLEAN, c \in BOOLEAN :
             writes'[j].k = <<"run", x, a>> /\ writes'[l].k = <<"run", x, c>>
    OBVIOUS
  <2>1. CASE x = r
    <3>1. \A m \in DOMAIN writes, d \in BOOLEAN : writes[m].k # <<"run", r, d>>
      BY <1>4 DEF RunDue, Due
    <3> QED BY <1>6, <2>1, <3>1
  <2>2. CASE x # r
    <3>1. <<"run", x, a>> # <<"run", r, b>> /\ <<"run", x, c>> # <<"run", r, b>>
      BY <2>2, KindsDiffer
    <3>2. /\ j \in DOMAIN writes /\ writes[j].k = <<"run", x, a>>
          /\ l \in DOMAIN writes /\ writes[l].k = <<"run", x, c>>
      BY <1>6, <3>1
    <3> QED BY <3>2 DEF RunWrites
  <2> QED BY <2>1, <2>2
<1> QED BY <1>2, <1>4, <1>5, <1>7 DEF RunWrites

LEMMA RunWritesRun ==
  ASSUME TypeInv, RunWrites, NEW r \in RunIds, RunSaved(r)
  PROVE  RunWrites' /\ runs[r].stage = "finish"
<1>1. Landed /\ Popped /\ RunBecomes(r, FreeRun)
  BY DEF RunSaved
<1>2. PICK b \in BOOLEAN : writes[1].k = <<"run", r, b>>
  BY DEF RunSaved
<1>3. 1 \in DOMAIN writes /\ Due' \subseteq Due /\ \A k \in Due : k \in Due' \/ k = writes[1].k
  BY <1>1, DuePopped DEF Landed
<1>4. ~ RunDue(r)'
  <2> SUFFICES ASSUME NEW a \in BOOLEAN, NEW j \in DOMAIN writes', writes'[j].k = <<"run", r, a>>
               PROVE  FALSE
    BY DEF RunDue, Due
  <2>1. j \in Nat /\ j + 1 \in DOMAIN writes /\ writes'[j] = writes[j + 1]
    BY <1>1 DEF Popped
  <2>2. DOMAIN writes' \subseteq Nat \ {0}
    BY <1>1 DEF Popped
  <2>3. 1 = j + 1
    BY <1>2, <1>3, <2>1 DEF RunWrites
  <2> QED BY <2>1, <2>2, <2>3
<1>5. ASSUME NEW x \in RunIds, x # r PROVE RunDue(x)' <=> RunDue(x)
  <2>1. \A a \in BOOLEAN : <<"run", x, a>> # writes[1].k
    BY <1>2, <1>5, KindsDiffer
  <2> QED BY <1>3, <2>1 DEF RunDue
<1>6. runs'[r].stage = "none" /\ \A x \in RunIds \ {r} : runs'[x] = runs[x]
  BY <1>1 DEF RunBecomes, FreeRun
<1>7. RunDue(r)
  BY <1>2, <1>3 DEF RunDue, Due
<1>8. RunWrites'
  BY <1>1, <1>4, <1>5, <1>6, PoppedRuns DEF RunWrites
<1> QED BY <1>7, <1>8 DEF RunWrites

-----------------------------------------------------------------------------
(* What goes on in a queue that is neither opened nor closed *)

Ready == cur \in Projects /\ ~ Switching

LEMMA SchedReady ==
  ASSUME TypeInv, Quiet, NEW i \in SchedIds, scheds[i].pc # "none"
  PROVE  Ready
  BY DEF TypeInv, MemTyped, Quiet, NoSched, Ready

LEMMA RunReady ==
  ASSUME TypeInv, ActiveRuns, NEW r \in RunIds, Live(r), runs[r].fresh
  PROVE  Ready /\ Fresh(r)
<1>1. runs[r].proj \in Projects
  BY DEF TypeInv, RunsTyped, Run
<1> QED BY <1>1 DEF ActiveRuns, Fresh, Ready

LEMMA FinishReady ==
  ASSUME TypeInv, ActiveRuns, NEW r \in RunIds, runs[r].stage = "finish"
  PROVE  Ready /\ Fresh(r) /\ ~ RunStale(r) /\ Live(r)
<1>1. Live(r) /\ runs[r].fresh
  BY DEF ActiveRuns, Outlived, Live
<1> QED BY <1>1, RunReady DEF RunStale, Fresh

\* A run whose result counts.
LEMMA EndReady ==
  ASSUME TypeInv, ActiveRuns, NEW r \in RunIds, Finishes(r)
  PROVE  Ready /\ Fresh(r) /\ Live(r) /\ runs[r].fresh
<1>1. Live(r) /\ runs[r].fresh
  BY DEF Finishes, RunStale, Live
<1> QED BY <1>1, RunReady

LEMMA FirstSave ==
  ASSUME TypeInv, Quiet, Landed, \A b \in BOOLEAN : writes[1].k # <<"open", b>>,
         writes[1].k # <<"close">>
  PROVE  Ready /\ ~ OpenDue
<1>1. 1 \in DOMAIN writes /\ writes # << >> /\ writes \in Seq(Write)
  BY DEF Landed, TypeInv, FilesTyped
<1>2. cur # NoProject /\ closing.pc # "commits" /\ opening.pc # "load"
  BY <1>1 DEF Quiet
<1>3. closing.pc \notin {"save1", "save2"}
  BY DEF Quiet
<1>4. opening.pc # "save"
  <2>1. SUFFICES ASSUME OpenDue, Len(writes) = 1 PROVE FALSE
    BY DEF Quiet
  <2>2. DOMAIN writes = {1}
    BY <1>1, <2>1
  <2> QED BY <2>1, <2>2 DEF OpenDue, Due
<1>5. /\ closing.pc \in {"idle", "commits", "save1", "save2"}
      /\ opening.pc \in {"idle", "load", "save"}
      /\ cur \in Projects \cup {NoProject}
  BY DEF TypeInv, SwitchTyped, MemTyped
<1> QED BY <1>2, <1>3, <1>4, <1>5 DEF Quiet, Ready, Switching

LEMMA ReadyCalls ==
  ASSUME TypeInv, Quiet, Alone
  PROVE  /\ Edit => Ready
         /\ Nudge => ~ Switching
         /\ CallSaved => Ready
<1>1. Edit => Ready
  BY DEF Edit, Alone, Ready
<1>2. Nudge => ~ Switching
  BY DEF Nudge, Alone, Quiet
<1>3. ASSUME CallSaved PROVE Ready
  <2>1. Landed /\ writes[1].k \in {<<"next">>, <<"none">>}
    BY <1>3 DEF CallSaved
  <2> QED BY <2>1, FirstSave, KindsDiffer
<1> QED BY <1>1, <1>2, <1>3

-----------------------------------------------------------------------------
(* Nothing else goes on while a project is opened or closed *)

LEMMA QuietReady ==
  ASSUME Ready, cur' = cur, closing'.pc = closing.pc, opening'.pc = opening.pc, ~ OpenDue'
  PROVE  Quiet'
<1>1. cur' # NoProject /\ closing'.pc = "idle" /\ opening'.pc = "idle"
  BY QueueAssumption DEF Ready, Switching
<1> QED BY <1>1 DEF Quiet, Switching

LEMMA ReadyOpen ==
  ASSUME Quiet, Ready
  PROVE  ~ OpenDue
  BY DEF Quiet, Ready, Switching

LEMMA QuietSame ==
  ASSUME Quiet, UNCHANGED <<cur, queue, writes, scheds>>, timer' \in {timer, NoProject},
         closing'.pc = closing.pc, closing'.proj = closing.proj,
         opening'.pc = opening.pc, opening'.proj = opening.proj
  PROVE  Quiet'
<1>1. (NoSched' <=> NoSched) /\ (Switching' <=> Switching) /\ (OpenDue' <=> OpenDue)
  BY DEF NoSched, Switching, OpenDue, Due
<1> QED BY <1>1 DEF Quiet

\* A save in a queue that is ready is not the one of an opening.
LEMMA QuietSaved ==
  ASSUME TypeInv, Quiet, Ready, cur' = cur, closing'.pc = closing.pc, opening'.pc = opening.pc,
         \/ UNCHANGED writes
         \/ Landed /\ Popped
         \/ \E p, k : /\ Saved(writes, p, k)
                      /\ \A b \in BOOLEAN : k # <<"open", b>>
  PROVE  Quiet'
<1>1. ~ OpenDue
  BY ReadyOpen
<1>2. CASE UNCHANGED writes
  BY <1>1, <1>2, QuietReady DEF OpenDue, Due
<1>3. CASE Landed /\ Popped
  <2>1. Due' \subseteq Due
    BY <1>3, DuePopped
  <2> QED BY <1>1, <2>1, QuietReady DEF OpenDue
<1>4. ASSUME NEW p, NEW k, Saved(writes, p, k), \A b \in BOOLEAN : k # <<"open", b>>
      PROVE  Quiet'
  <2>1. Due' = Due \cup {k}
    BY <1>4, DueSaved
  <2> QED BY <1>1, <1>4, <2>1, QuietReady DEF OpenDue
<1> QED BY <1>2, <1>3, <1>4

\* The steps that neither open nor close a project.
AtWork ==
    \/ Edit \/ Nudge \/ CallSaved
    \/ \E i \in SchedIds : Impossible(i) \/ ImpossibleSaved(i) \/ StartSaved(i, scheds[i].run)
    \/ \E i \in SchedIds, r \in RunIds : Starts(i, r, scheds[i].task)
    \/ \E r \in RunIds : Begins(r) \/ Ignored(r) \/ Finishes(r) \/ RunSaved(r)
    \/ \E p \in Projects : Asks(p)
    \/ Imports \/ ImportSaved

LEMMA QuietWork ==
  ASSUME TypeInv, Alone, Calm, AtWork
  PROVE  Quiet'
<1>0. Quiet /\ RunWrites /\ ActiveRuns
  BY DEF Calm
<1>1. CASE Edit
  <2>1. Ready
    BY <1>0, <1>1, ReadyCalls
  <2>2. \A b \in BOOLEAN : <<"next">> # <<"open", b>> /\ <<"none">> # <<"open", b>>
    BY KindsDiffer
  <2>3. \/ UNCHANGED writes
        \/ \E p, k : Saved(writes, p, k) /\ \A b \in BOOLEAN : k # <<"open", b>>
    BY <1>1, <2>2 DEF Edit
  <2>4. UNCHANGED <<cur, closing, opening>>
    BY <1>1 DEF Edit, switch
  <2> QED BY <1>0, <2>1, <2>3, <2>4, QuietSaved
<1>2. CASE Nudge
  <2>1. /\ UNCHANGED <<cur, queue, switch, writes>> /\ timer' \in {timer, NoProject}
        /\ Kick(cur) \/ UNCHANGED sched
    BY <1>2 DEF Nudge
  <2>2. CASE Ready
    BY <1>0, <2>1, <2>2, QuietSaved DEF switch
  <2>3. CASE ~ Ready
    <3>1. cur = NoProject
      BY <1>0, <1>2, <2>3, ReadyCalls DEF Ready, TypeInv, MemTyped
    <3>2. UNCHANGED sched
      BY <2>1, <3>1 DEF Kick
    <3> QED BY <1>0, <2>1, <3>2, QuietSame DEF switch, sched
  <2> QED BY <2>2, <2>3
<1>3. CASE CallSaved
  BY <1>0, <1>3, ReadyCalls, QuietSaved DEF CallSaved, mem, switch
<1>4. ASSUME NEW i \in SchedIds,
             \/ Impossible(i) \/ ImpossibleSaved(i) \/ StartSaved(i, scheds[i].run)
             \/ \E r \in RunIds : Starts(i, r, scheds[i].task)
      PROVE  Quiet'
  <2>1. scheds[i].pc # "none" /\ UNCHANGED <<cur, switch>>
    BY <1>4 DEF Impossible, ImpossibleSaved, StartSaved, Starts, mem
  <2>2. Ready
    BY <1>0, <2>1, SchedReady
  <2>3. \A b \in BOOLEAN : <<"sched", i>> # <<"open", b>>
    BY KindsDiffer
  <2>4. (Landed /\ Popped) \/ Saved(writes, cur, <<"sched", i>>)
    BY <1>4 DEF Impossible, ImpossibleSaved, StartSaved, Starts
  <2> QED BY <1>0, <2>1, <2>2, <2>3, <2>4, QuietSaved DEF switch
<1>5. ASSUME NEW r \in RunIds, Finishes(r) PROVE Quiet'
  <2>1. PICK b \in BOOLEAN : Saved(writes, cur, <<"run", r, b>>)
    BY <1>5 DEF Finishes
  <2>2. \A c \in BOOLEAN : <<"run", r, b>> # <<"open", c>>
    BY KindsDiffer
  <2>3. Ready /\ UNCHANGED <<cur, switch>>
    BY <1>0, <1>5, EndReady DEF Finishes
  <2> QED BY <1>0, <2>1, <2>2, <2>3, QuietSaved DEF switch
<1>6. ASSUME NEW r \in RunIds, RunSaved(r) PROVE Quiet'
  <2>1. Ready
    BY <1>0, <1>6, RunWritesRun, FinishReady
  <2>2. /\ Landed /\ Popped /\ UNCHANGED <<cur, opening>>
        /\ closing'.pc = closing.pc
    BY <1>6 DEF RunSaved, Awaited
  <2> QED BY <1>0, <2>1, <2>2, QuietSaved
<1>7. CASE \E r \in RunIds : Begins(r) \/ Ignored(r)
  BY <1>0, <1>7, QuietSame DEF Begins, Ignored, Awaited, mem, sched, switch
<1>8. CASE \E p \in Projects : Asks(p)
  BY <1>0, <1>8, QuietSame DEF Asks, mem, sched, switch
<1>9. CASE Imports \/ ImportSaved
  <2>1. UNCHANGED <<mem, sched, closing, writes>> /\ opening'.pc = opening.pc
        /\ opening'.proj = opening.proj
    BY <1>9 DEF Imports, ImportSaved, TypeInv, SwitchTyped
  <2> QED BY <1>0, <2>1, QuietSame DEF mem, sched
<1> QED BY <1>1, <1>2, <1>3, <1>4, <1>5, <1>6, <1>7, <1>8, <1>9 DEF AtWork

-----------------------------------------------------------------------------
(* One call of processNext at a time *)

SaveKept ==
    \A r \in RunIds : /\ runs'[r].stage = "save" <=> runs[r].stage = "save"
                      /\ runs[r].stage = "save" => runs'[r].task = runs[r].task
Fewer == \A id \in TaskIds : active[id] = NoRun => active'[id] = NoRun

LEMMA OneSchedSame ==
  ASSUME TypeInv, OneSched, UNCHANGED <<cur, scheduling, scheds>>, SaveKept, Fewer
  PROVE  OneSched'
<1>1. \A i \in SchedIds : scheds[i].task \in TaskIds
  BY DEF TypeInv, SchedTyped, Sched
<1> QED BY <1>1 DEF OneSched, NoSched, SaveKept, Fewer

LEMMA OneSchedNone ==
  ASSUME NoSched', ~ scheduling', \A r \in RunIds : runs'[r].stage # "save"
  PROVE  OneSched'
  BY DEF OneSched, NoSched

\* The scheduler's only call has looked at the queue again.
LEMMA OneSchedLooks ==
  ASSUME TypeInv, cur \in Projects, cur' = cur, queue' \in Queues, NEW i \in SchedIds,
         \A j \in SchedIds \ {i} : scheds[j].pc = "none",
         \A r \in RunIds : runs'[r].stage # "save",
         (LooksUp(i, cur) /\ scheduling' = TRUE) \/ Stops(i, cur)
  PROVE  OneSched'
<1>1. scheds \in [SchedIds -> Sched]
  BY DEF TypeInv, SchedTyped
<1>2. CASE LooksUp(i, cur) /\ scheduling' = TRUE
  <2>1. PICK k \in DOMAIN queue' : /\ active'[queue'[k].id] = NoRun
                                   /\ scheds' = [scheds EXCEPT ![i] = Waiting(queue'[k].id, cur)]
    BY <1>2 DEF LooksUp
  <2>2. scheds'[i] = Waiting(queue'[k].id, cur) /\ \A j \in SchedIds \ {i} : scheds'[j] = scheds[j]
    BY <1>1, <2>1
  <2>3. /\ scheds'[i].pc = "registry" /\ scheds'[i].task = queue'[k].id /\ scheds'[i].own
        /\ scheds'[i].proj = cur /\ scheds'[i].fresh
        /\ \A j \in SchedIds : scheds'[j].pc # "none" => j = i
    BY <2>2 DEF Waiting
  <2> QED BY <1>2, <2>1, <2>3 DEF OneSched, NoSched
<1>3. CASE Stops(i, cur)
  <2>1. scheds'[i] = FreeSched /\ \A j \in SchedIds \ {i} : scheds'[j] = scheds[j]
    BY <1>1, <1>3 DEF Stops
  <2>2. NoSched' /\ ~ scheduling'
    BY <1>3, <2>1 DEF NoSched, FreeSched, Stops
  <2> QED BY <2>2, OneSchedNone
<1> QED BY <1>2, <1>3

\* What a call of processNext for the open project does.
LEMMA KickCalls ==
  ASSUME TypeInv, OneSched, queue' \in Queues, Kick(cur), cur' = cur
  PROVE  \/ UNCHANGED sched /\ (~ NoSched \/ cur = NoProject \/ paused')
         \/ cur \in Projects /\ NoSched
            /\ \E i \in SchedIds : (LooksUp(i, cur) /\ scheduling' = TRUE) \/ Stops(i, cur)
<1>1. SchedTyped /\ cur \in Projects \cup {NoProject}
  BY DEF TypeInv, MemTyped
<1>2. scheduling <=> ~ NoSched
  BY DEF OneSched
<1> QED BY <1>1, <1>2, KickFacts DEF Idles

LEMMA OneSchedKick ==
  ASSUME TypeInv, OneSched, queue' \in Queues, Kick(cur), cur' = cur, SaveKept, Fewer
  PROVE  OneSched'
<1>1. CASE UNCHANGED sched
  BY <1>1, OneSchedSame DEF sched
<1>2. ASSUME cur \in Projects, NoSched, NEW i \in SchedIds,
             (LooksUp(i, cur) /\ scheduling' = TRUE) \/ Stops(i, cur)
      PROVE  OneSched'
  <2>1. \A j \in SchedIds : scheds[j].pc = "none"
    BY <1>2 DEF NoSched
  <2>2. \A r \in RunIds : runs'[r].stage # "save"
    BY <2>1 DEF OneSched, SaveKept
  <2> QED BY <1>2, <2>1, <2>2, OneSchedLooks
<1> QED BY <1>1, <1>2, KickCalls

LEMMA OneSchedGoOn ==
  ASSUME TypeInv, OneSched, queue' \in Queues, cur' = cur, cur \in Projects,
         NEW i \in SchedIds, scheds[i].pc # "none", GoOn(i),
         \A r \in RunIds : runs'[r].stage # "save"
  PROVE  OneSched'
<1>1. SchedTyped
  BY DEF TypeInv
<1>2. LET p == scheds[i].proj IN
      p \in Projects /\ ((LooksUp(i, p) /\ UNCHANGED scheduling) \/ Stops(i, p))
  BY <1>1, GoOnFacts
<1>3. /\ scheds[i].proj = cur /\ scheduling
      /\ \A j \in SchedIds \ {i} : scheds[j].pc = "none"
  BY DEF OneSched, NoSched
<1>4. scheduling = TRUE
  BY <1>1, <1>3 DEF SchedTyped
<1>5. (LooksUp(i, cur) /\ scheduling' = TRUE) \/ Stops(i, cur)
  BY <1>2, <1>3, <1>4
<1> QED BY <1>3, <1>5, OneSchedLooks

\* The run that begins is one of this session: nothing is stale here.
LEMMA StartReady ==
  ASSUME TypeInv, Calm, NEW i \in SchedIds, StartSaved(i, scheds[i].run)
  PROVE  LET r == scheds[i].run IN
         /\ Ready /\ r \in RunIds /\ runs[r].stage = "save" /\ runs[r].fresh
         /\ RunBecomes(r, [runs[r] EXCEPT !.stage = "prepare"])
         /\ \A x \in RunIds : runs'[x].stage # "save"
         /\ UNCHANGED <<cur, queue, active>> /\ GoOn(i)
<1> DEFINE r == scheds[i].run
<1>0. Quiet /\ OneSched /\ ActiveRuns
  BY DEF Calm
<1>1. scheds[i].pc = "start" /\ UNCHANGED <<cur, queue>> /\ GoOn(i)
  BY DEF StartSaved
<1>2. r \in RunIds /\ runs[r].stage = "save" /\ Live(r)
  BY <1>0, <1>1 DEF OneSched, Live
<1>3. runs[r].fresh /\ cur = scheds[i].proj
  BY <1>0, <1>1, <1>2 DEF ActiveRuns, Outlived, OneSched
<1>4. runs' = [runs EXCEPT ![r].stage = "prepare"] /\ UNCHANGED active
  BY <1>3 DEF StartSaved
<1>5. runs \in [RunIds -> Run]
  BY DEF TypeInv, RunsTyped
<1> HIDE DEF r
<1>6. /\ runs'[r] = [runs[r] EXCEPT !.stage = "prepare"]
      /\ \A x \in RunIds \ {r} : runs'[x] = runs[x]
  BY <1>2, <1>4, <1>5
<1>7. runs'[r].stage = "prepare" /\ [runs[r] EXCEPT !.stage = "prepare"] \in Run
  BY <1>2, <1>5, <1>6 DEF Run
<1>8. runs' \in [RunIds -> Run]
  BY <1>2, <1>4, <1>5, <1>7
<1>9. \A x \in RunIds \ {r} : runs[x].stage # "save"
  BY <1>0, <1>1 DEF OneSched, r
<1>10. \A x \in RunIds : runs'[x].stage # "save"
  BY <1>6, <1>7, <1>9
<1>11. Ready
  BY <1>0, <1>1, SchedReady
<1> QED BY <1>1, <1>2, <1>3, <1>4, <1>6, <1>8, <1>10, <1>11 DEF RunBecomes, r

LEMMA OneSchedWork ==
  ASSUME TypeInv, Alone, Calm, AtWork
  PROVE  OneSched'
<1>0. Quiet /\ RunWrites /\ OneSched /\ ActiveRuns
  BY DEF Calm
<1>1. queue \in Queues /\ runs \in [RunIds -> Run] /\ scheds \in [SchedIds -> Sched]
      /\ NoRun \notin RunIds
  BY QueueAssumption DEF TypeInv, MemTyped, RunsTyped, SchedTyped, NoRun
<1>2. CASE Edit
  <2>1. UNCHANGED <<cur, sched, active>> /\ Flagged({})
    BY <1>2 DEF Edit
  <2>2. SaveKept /\ Fewer
    BY <2>1 DEF Flagged, SaveKept, Fewer
  <2> QED BY <1>0, <2>1, <2>2, OneSchedSame DEF sched
<1>3. CASE Nudge \/ CallSaved
  <2>1. UNCHANGED <<cur, queue, active, runs>> /\ (Kick(cur) \/ UNCHANGED sched)
    BY <1>3 DEF Nudge, CallSaved, mem
  <2>2. SaveKept /\ Fewer
    BY <2>1 DEF SaveKept, Fewer
  <2> QED BY <1>0, <1>1, <2>1, <2>2, OneSchedSame, OneSchedKick DEF sched
<1>4. ASSUME NEW i \in SchedIds, Impossible(i) PROVE OneSched'
  <2>1. /\ scheds[i].pc = "registry" /\ UNCHANGED <<cur, scheduling, active, runs>>
        /\ scheds' = [scheds EXCEPT ![i].pc = "failed"]
    BY <1>4 DEF Impossible
  <2>2. /\ scheds'[i].pc = "failed" /\ scheds'[i].fresh = scheds[i].fresh
        /\ scheds'[i].own = scheds[i].own /\ scheds'[i].proj = scheds[i].proj
        /\ \A j \in SchedIds \ {i} : scheds'[j] = scheds[j]
    BY <1>1, <2>1 DEF Sched
  <2> QED BY <1>0, <2>1, <2>2 DEF OneSched, NoSched
<1>5. ASSUME NEW i \in SchedIds, NEW r \in RunIds, Starts(i, r, scheds[i].task) PROVE OneSched'
  <2>1. /\ scheds[i].pc = "registry" /\ UNCHANGED <<cur, scheduling>>
        /\ scheds' = [scheds EXCEPT ![i].pc = "start", ![i].run = r]
        /\ runs'[r].stage = "save" /\ runs'[r].task = scheds[i].task
        /\ \A x \in RunIds \ {r} : runs'[x] = runs[x]
    BY <1>5 DEF Starts
  <2>2. /\ scheds'[i].pc = "start" /\ scheds'[i].fresh = scheds[i].fresh
        /\ scheds'[i].own = scheds[i].own /\ scheds'[i].proj = scheds[i].proj
        /\ scheds'[i].run = r /\ scheds'[i].task = scheds[i].task
        /\ \A j \in SchedIds \ {i} : scheds'[j] = scheds[j]
    BY <1>1, <2>1 DEF Sched
  <2>3. \A j \in SchedIds \ {i} : scheds[j].pc = "none"
    BY <1>0, <2>1 DEF OneSched
  <2>4. \A x \in RunIds \ {r} : runs'[x].stage # "save"
    BY <1>0, <2>1, <2>3 DEF OneSched
  <2>5. \A j \in SchedIds : scheds'[j].pc # "none" => j = i
    BY <2>2, <2>3
  <2>6. ~ NoSched' /\ scheduling'
    <3>1. ~ NoSched
      BY <2>1 DEF NoSched
    <3>2. scheduling
      BY <1>0, <3>1 DEF OneSched
    <3> QED BY <2>1, <2>2, <3>2 DEF NoSched
  <2>8. scheds[i].fresh /\ scheds[i].own /\ scheds[i].proj = cur
    BY <1>0, <2>1 DEF OneSched
  <2>9. \A j \in SchedIds : scheds'[j].pc # "none" =>
           scheds'[j].fresh /\ scheds'[j].own /\ scheds'[j].proj = cur'
    BY <2>1, <2>2, <2>5, <2>8
  <2>10. \A j \in SchedIds : scheds'[j].pc = "registry" => active'[scheds'[j].task] = NoRun
    BY <2>2, <2>5
  <2>11. \A j \in SchedIds : scheds'[j].pc = "start" =>
          /\ scheds'[j].run \in RunIds /\ runs'[scheds'[j].run].stage = "save"
          /\ runs'[scheds'[j].run].task = scheds'[j].task
    BY <2>1, <2>2, <2>5, ZenonT(60)
  <2>7. \A x \in RunIds : runs'[x].stage = "save" => x = r
    BY <2>4
  <2> QED BY <2>2, <2>5, <2>6, <2>7, <2>9, <2>10, <2>11 DEF OneSched
<1>6. ASSUME NEW i \in SchedIds, ImpossibleSaved(i) PROVE OneSched'
  <2>1. scheds[i].pc = "failed" /\ UNCHANGED <<cur, queue, runs>> /\ GoOn(i)
    BY <1>6 DEF ImpossibleSaved, mem
  <2>2. Ready
    BY <1>0, <2>1, SchedReady
  <2>3. \A r \in RunIds : runs'[r].stage # "save"
    BY <1>0, <2>1 DEF OneSched
  <2> QED BY <1>0, <1>1, <2>1, <2>2, <2>3, OneSchedGoOn DEF Ready
<1>7. ASSUME NEW i \in SchedIds, StartSaved(i, scheds[i].run) PROVE OneSched'
  <2>1. /\ Ready /\ UNCHANGED <<cur, queue>> /\ GoOn(i)
        /\ \A x \in RunIds : runs'[x].stage # "save"
    BY <1>7, StartReady
  <2>2. scheds[i].pc # "none"
    BY <1>7 DEF StartSaved
  <2> QED BY <1>0, <1>1, <2>1, <2>2, OneSchedGoOn DEF Ready
<1>8. ASSUME NEW r \in RunIds, Begins(r) \/ Finishes(r) PROVE OneSched'
  <2>1. UNCHANGED <<cur, scheduling, scheds, active>>
    BY <1>8 DEF Begins, Finishes, mem, sched
  <2>2. SaveKept /\ Fewer
    BY <1>1, <1>8, <2>1 DEF Begins, Finishes, RunBecomes, Flagged, SaveKept, Fewer, Run
  <2> QED BY <1>0, <2>1, <2>2, OneSchedSame
<1>9. ASSUME NEW r \in RunIds, Ignored(r) \/ RunSaved(r) PROVE OneSched'
  <2>1. /\ RunBecomes(r, FreeRun) /\ Forgotten(r) /\ UNCHANGED <<cur, queue>>
        /\ runs[r].stage # "save"
    BY <1>0, <1>9, RunWritesRun DEF Ignored, RunSaved
  <2>2. SaveKept /\ Fewer
    BY <1>1, <2>1 DEF RunBecomes, Forgotten, SaveKept, Fewer, FreeRun
  <2>3. UNCHANGED <<scheduling, scheds>> \/ Kick(cur)
    <3>1. CASE Ignored(r)
      BY <3>1 DEF Ignored, sched
    <3>2. CASE RunSaved(r)
      <4>1. runs[r].stage = "finish"
        BY <1>0, <3>2, RunWritesRun
      <4>2. ~ RunStale(r) /\ cur = runs[r].proj
        BY <1>0, <4>1, FinishReady DEF Fresh
      <4> QED BY <3>2, <4>2 DEF RunSaved
    <3> QED BY <1>9, <3>1, <3>2
  <2> QED BY <1>0, <1>1, <2>1, <2>2, <2>3, OneSchedSame, OneSchedKick
<1>10. CASE (\E p \in Projects : Asks(p)) \/ Imports \/ ImportSaved
  <2>1. UNCHANGED <<cur, sched, active, runs>>
    BY <1>10 DEF Asks, Imports, ImportSaved, mem
  <2>2. SaveKept /\ Fewer
    BY <2>1 DEF SaveKept, Fewer
  <2> QED BY <1>0, <2>1, <2>2, OneSchedSame DEF sched
<1> QED BY <1>2, <1>3, <1>4, <1>5, <1>6, <1>7, <1>8, <1>9, <1>10 DEF AtWork

-----------------------------------------------------------------------------
(* activeRuns and the runs *)

\* The runs go on, those of S with another stage.
Agree(S) ==
    \A r \in RunIds :
       /\ runs'[r].task = runs[r].task /\ runs'[r].own = runs[r].own
       /\ runs'[r].proj = runs[r].proj /\ runs'[r].fresh = runs[r].fresh
       /\ runs[r].aborted => runs'[r].aborted
       /\ IF r \in S THEN Live(r) /\ Live(r)' /\ runs[r].fresh
          ELSE runs'[r].stage = runs[r].stage

LEMMA ActiveAgree ==
  ASSUME TypeInv, ActiveRuns, NEW S, Agree(S), UNCHANGED <<cur, active>>,
         closing'.pc = closing.pc, closing'.waiting = closing.waiting, opening'.pc = opening.pc
  PROVE  ActiveRuns'
<1>1. Switching' <=> Switching
  BY DEF Switching
<1>2. ASSUME NEW r \in RunIds, Live(r)'
      PROVE  IF runs'[r].fresh THEN Fresh(r)' ELSE Outlived(r)'
  <2>1. Live(r)
    BY <1>2 DEF Agree, Live
  <2>2. CASE runs'[r].fresh
    <3>1. Fresh(r)
      BY <2>1, <2>2 DEF Agree, ActiveRuns
    <3> QED BY <1>1, <2>2, <3>1 DEF Agree, Fresh
  <2>3. CASE ~ runs'[r].fresh
    <3>1. Outlived(r) /\ runs'[r].stage = runs[r].stage
      BY <2>1, <2>3 DEF Agree, ActiveRuns
    <3> QED BY <2>3, <3>1 DEF Agree, Outlived
  <2> QED BY <2>2, <2>3
<1>3. ASSUME NEW id \in TaskIds, active'[id] # NoRun
      PROVE  /\ Live(active[id])' /\ runs'[active'[id]].task = id
             /\ runs'[active'[id]].fresh \/ closing'.pc = "commits"
  <2>1. active[id] \in RunIds
    BY <1>3 DEF TypeInv, MemTyped
  <2>2. /\ Live(active[id]) /\ runs[active[id]].task = id
        /\ runs[active[id]].fresh \/ closing.pc = "commits"
    BY <1>3 DEF ActiveRuns
  <2> QED BY <2>1, <2>2 DEF Agree, Live
<1> QED BY <1>2, <1>3 DEF ActiveRuns

LEMMA ActiveSame ==
  ASSUME TypeInv, ActiveRuns, UNCHANGED <<cur, active, runs, closing>>,
         opening'.pc = opening.pc
  PROVE  ActiveRuns'
<1>1. Agree({})
  BY DEF Agree
<1> QED BY <1>1, ActiveAgree

\* One run goes on to its next stage.
LEMMA StageAgree ==
  ASSUME TypeInv, NEW r \in RunIds, NEW st, st # "none", Live(r), runs[r].fresh,
         RunBecomes(r, [runs[r] EXCEPT !.stage = st])
  PROVE  Agree({r})
<1>1. runs[r] \in Run /\ runs'[r] = [runs[r] EXCEPT !.stage = st]
      /\ \A x \in RunIds \ {r} : runs'[x] = runs[x]
  BY DEF TypeInv, RunsTyped, RunBecomes
<1>2. /\ runs'[r].stage = st /\ runs'[r].task = runs[r].task /\ runs'[r].own = runs[r].own
      /\ runs'[r].proj = runs[r].proj /\ runs'[r].fresh = runs[r].fresh
      /\ runs'[r].aborted = runs[r].aborted
  BY <1>1, ZenonT(60) DEF Run
<1> QED BY <1>1, <1>2 DEF Agree, Live

\* A run is over.
LEMMA ActiveFreed ==
  ASSUME TypeInv, ActiveRuns, NEW r \in RunIds, RunBecomes(r, FreeRun), Forgotten(r), Awaited(r),
         UNCHANGED <<cur, opening>>
  PROVE  ActiveRuns'
<1>0. active \in [TaskIds -> RunIds \cup {NoRun}] /\ runs \in [RunIds -> Run]
  BY DEF TypeInv, MemTyped, RunsTyped
<1>1. runs'[r].stage = "none" /\ \A x \in RunIds \ {r} : runs'[x] = runs[x]
  BY DEF RunBecomes, FreeRun
<1>2. Switching' <=> Switching
  BY DEF Switching, Awaited
<1>3. ASSUME NEW x \in RunIds, Live(x)'
      PROVE  IF runs'[x].fresh THEN Fresh(x)' ELSE Outlived(x)'
  <2>1. x # r /\ runs'[x] = runs[x] /\ Live(x)
    BY <1>1, <1>3 DEF Live
  <2>2. CASE runs[x].fresh
    <3>1. Fresh(x)
      BY <2>1, <2>2 DEF ActiveRuns
    <3>2. runs[x].task \in TaskIds
      BY <1>0 DEF Run
    <3>3. active'[runs[x].task] = x
      BY <2>1, <3>1, <3>2 DEF Fresh, Forgotten
    <3> QED BY <1>2, <2>1, <2>2, <3>1, <3>3 DEF Fresh
  <2>3. CASE ~ runs[x].fresh
    <3>1. Outlived(x)
      BY <2>1, <2>3 DEF ActiveRuns
    <3> QED BY <2>1, <2>3, <3>1 DEF Outlived, Awaited
  <2> QED BY <2>1, <2>2, <2>3
<1>4. ASSUME NEW id \in TaskIds, active'[id] # NoRun
      PROVE  /\ Live(active[id])' /\ runs'[active'[id]].task = id
             /\ runs'[active'[id]].fresh \/ closing'.pc = "commits"
  <2>1. active'[id] = active[id] /\ active[id] # r
    BY <1>4 DEF Forgotten
  <2>2. active[id] \in RunIds
    BY <1>0, <1>4, <2>1
  <2>3. runs'[active[id]] = runs[active[id]]
    BY <1>1, <2>1, <2>2
  <2>4. /\ Live(active[id]) /\ runs[active[id]].task = id
        /\ runs[active[id]].fresh \/ closing.pc = "commits"
    BY <1>4, <2>1 DEF ActiveRuns
  <2> QED BY <2>1, <2>3, <2>4 DEF Live, Awaited
<1> QED BY <1>3, <1>4 DEF ActiveRuns

LEMMA ActiveStarts ==
  ASSUME TypeInv, Calm, NEW i \in SchedIds, NEW r \in RunIds, Starts(i, r, scheds[i].task)
  PROVE  ActiveRuns'
<1> DEFINE t == scheds[i].task
<1>0. Quiet /\ OneSched /\ ActiveRuns
  BY DEF Calm
<1>1. active \in [TaskIds -> RunIds \cup {NoRun}] /\ runs \in [RunIds -> Run]
  BY DEF TypeInv, MemTyped, RunsTyped
<1>2. /\ t \in TaskIds /\ active' = [active EXCEPT ![t] = r] /\ runs[r].stage = "none"
      /\ scheds[i].pc = "registry" /\ UNCHANGED <<cur, switch>>
      /\ \A x \in RunIds \ {r} : runs'[x] = runs[x]
      /\ runs'[r].stage = "save" /\ runs'[r].task = t /\ runs'[r].own = scheds[i].own
      /\ runs'[r].proj = cur /\ runs'[r].fresh
  BY DEF Starts
<1>3. active[t] = NoRun /\ scheds[i].own
  BY <1>0, <1>2 DEF OneSched
<1>4. ~ Switching'
  BY <1>0, <1>2, SchedReady DEF Ready, Switching, switch
<1> HIDE DEF t
<1>5. active'[t] = r /\ \A id \in TaskIds \ {t} : active'[id] = active[id]
  BY <1>1, <1>2
<1>6. Fresh(r)'
  BY <1>2, <1>3, <1>4, <1>5 DEF Fresh
<1>7. ASSUME NEW x \in RunIds, x # r, Live(x)'
      PROVE  IF runs'[x].fresh THEN Fresh(x)' ELSE Outlived(x)'
  <2>1. Live(x) /\ runs'[x] = runs[x]
    BY <1>2, <1>7 DEF Live
  <2>2. CASE runs[x].fresh
    <3>1. Fresh(x) /\ runs[x].task \in TaskIds
      BY <1>0, <1>1, <2>1, <2>2 DEF ActiveRuns, Run
    <3>2. NoRun # x
      BY QueueAssumption DEF NoRun
    <3>3. runs[x].task # t
      BY <1>3, <3>1, <3>2 DEF Fresh
    <3>4. active'[runs[x].task] = x
      BY <1>5, <3>1, <3>3 DEF Fresh
    <3> QED BY <1>2, <1>4, <2>1, <2>2, <3>1, <3>4 DEF Fresh
  <2>3. CASE ~ runs[x].fresh
    <3>1. Outlived(x)
      BY <1>0, <2>1, <2>3 DEF ActiveRuns
    <3> QED BY <1>2, <2>1, <2>3, <3>1 DEF Outlived, switch
  <2> QED BY <2>1, <2>2, <2>3
<1>8. ASSUME NEW id \in TaskIds, active'[id] # NoRun
      PROVE  /\ Live(active[id])' /\ runs'[active'[id]].task = id
             /\ runs'[active'[id]].fresh \/ closing'.pc = "commits"
  <2>1. CASE id = t
    BY <1>2, <1>5, <2>1 DEF Live
  <2>2. CASE id # t
    <3>1. active'[id] = active[id] /\ active[id] \in RunIds
      BY <1>1, <1>5, <1>8, <2>2
    <3>2. /\ Live(active[id]) /\ runs[active[id]].task = id
          /\ runs[active[id]].fresh \/ closing.pc = "commits"
      BY <1>0, <1>8, <3>1 DEF ActiveRuns
    <3>3. active[id] # r
      BY <1>2, <3>2 DEF Live
    <3>4. runs'[active[id]] = runs[active[id]]
      BY <1>2, <3>1, <3>3
    <3> QED BY <1>2, <3>1, <3>2, <3>4 DEF Live, switch
  <2> QED BY <2>1, <2>2
<1> QED BY <1>2, <1>6, <1>7, <1>8 DEF ActiveRuns

LEMMA ActiveWork ==
  ASSUME TypeInv, Alone, Calm, AtWork
  PROVE  ActiveRuns'
<1>0. Quiet /\ RunWrites /\ OneSched /\ ActiveRuns
  BY DEF Calm
<1>1. CASE Edit
  <2>1. UNCHANGED <<cur, active, closing, opening>> /\ Flagged({})
    BY <1>1 DEF Edit, switch
  <2>2. Agree({})
    BY <2>1 DEF Flagged, Agree
  <2> QED BY <1>0, <2>1, <2>2, ActiveAgree
<1>2. CASE Nudge \/ CallSaved \/ (\E p \in Projects : Asks(p))
  BY <1>0, <1>2, ActiveSame DEF Nudge, CallSaved, Asks, mem, switch
<1>3. CASE Imports \/ ImportSaved
  <2>1. UNCHANGED <<cur, active, runs, closing>> /\ opening'.pc = opening.pc
    BY <1>3 DEF Imports, ImportSaved, mem, TypeInv, SwitchTyped
  <2> QED BY <1>0, <2>1, ActiveSame
<1>4. CASE \E i \in SchedIds : Impossible(i) \/ ImpossibleSaved(i)
  BY <1>0, <1>4, ActiveSame DEF Impossible, ImpossibleSaved, mem, switch
<1>5. ASSUME NEW i \in SchedIds, StartSaved(i, scheds[i].run) PROVE ActiveRuns'
  <2> DEFINE r == scheds[i].run
  <2>1. /\ r \in RunIds /\ runs[r].stage = "save" /\ runs[r].fresh
        /\ RunBecomes(r, [runs[r] EXCEPT !.stage = "prepare"])
        /\ UNCHANGED <<cur, active>>
    BY <1>5, StartReady
  <2>2. UNCHANGED <<closing, opening>>
    BY <1>5 DEF StartSaved, switch
  <2> HIDE DEF r
  <2>4. Live(r)
    BY <2>1 DEF Live
  <2>3. Agree({r})
    BY <2>1, <2>4, StageAgree
  <2> QED BY <1>0, <2>1, <2>2, <2>3, ActiveAgree
<1>6. ASSUME NEW r \in RunIds, Begins(r) PROVE ActiveRuns'
  <2>1. /\ RunBecomes(r, [runs[r] EXCEPT !.stage = "commit"]) /\ Live(r) /\ ~ runs[r].aborted
        /\ UNCHANGED <<cur, active, closing, opening>>
    BY <1>6 DEF Begins, mem, switch, Live
  <2>2. runs[r].fresh
    BY <1>0, <2>1 DEF ActiveRuns, Outlived
  <2>3. Agree({r})
    BY <2>1, <2>2, StageAgree
  <2> QED BY <1>0, <2>1, <2>3, ActiveAgree
<1>7. ASSUME NEW r \in RunIds, Finishes(r) PROVE ActiveRuns'
  <2>1. Live(r) /\ runs[r].fresh
    BY <1>0, <1>7, EndReady
  <2>2. UNCHANGED <<cur, active, closing, opening>> /\ Flagged({r}) /\ runs'[r].stage = "finish"
        /\ runs'[r].task = runs[r].task /\ runs'[r].proj = runs[r].proj
        /\ runs'[r].own = runs[r].own /\ runs'[r].fresh = runs[r].fresh
    BY <1>7 DEF Finishes, switch
  <2>3. \A x \in RunIds \ {r} :
           /\ runs'[x].stage = runs[x].stage /\ runs'[x].task = runs[x].task
           /\ runs'[x].own = runs[x].own /\ runs'[x].proj = runs[x].proj
           /\ runs'[x].fresh = runs[x].fresh /\ (runs[x].aborted => runs'[x].aborted)
    BY <2>2 DEF Flagged
  <2>4. ASSUME NEW x \in RunIds, Live(x)'
        PROVE  IF runs'[x].fresh THEN Fresh(x)' ELSE Outlived(x)'
    <3>1. Live(x) /\ runs'[x].fresh = runs[x].fresh
      BY <2>1, <2>2, <2>3, <2>4 DEF Live
    <3>2. CASE runs[x].fresh
      <4>1. Fresh(x)
        BY <1>0, <3>1, <3>2 DEF ActiveRuns
      <4>2. /\ runs'[x].proj = runs[x].proj /\ runs'[x].task = runs[x].task
            /\ runs'[x].own = runs[x].own
        BY <2>2, <2>3
      <4> QED BY <2>2, <3>1, <3>2, <4>1, <4>2 DEF Fresh, Switching
    <3>3. CASE ~ runs[x].fresh
      <4>1. Outlived(x) /\ x # r
        BY <1>0, <2>1, <3>1, <3>3 DEF ActiveRuns
      <4> QED BY <2>2, <2>3, <3>1, <3>3, <4>1 DEF Outlived
    <3> QED BY <3>1, <3>2, <3>3
  <2>5. ASSUME NEW id \in TaskIds, active'[id] # NoRun
        PROVE  /\ Live(active[id])' /\ runs'[active'[id]].task = id
               /\ runs'[active'[id]].fresh \/ closing'.pc = "commits"
    <3>1. active[id] \in RunIds /\ active'[id] = active[id]
      BY <2>2, <2>5 DEF TypeInv, MemTyped
    <3>2. /\ Live(active[id]) /\ runs[active[id]].task = id
          /\ runs[active[id]].fresh \/ closing.pc = "commits"
      BY <1>0, <2>5, <3>1 DEF ActiveRuns
    <3> QED BY <2>2, <2>3, <3>1, <3>2 DEF Live
  <2> QED BY <2>4, <2>5 DEF ActiveRuns
<1>8. CASE \E r \in RunIds : Ignored(r) \/ RunSaved(r)
  BY <1>0, <1>8, ActiveFreed DEF Ignored, RunSaved
<1> QED BY <1>1, <1>2, <1>3, <1>4, <1>5, <1>6, <1>7, <1>8, ActiveStarts DEF AtWork

LEMMA RunWritesWork ==
  ASSUME TypeInv, Alone, Calm, AtWork
  PROVE  RunWrites'
<1>0. RunWrites
  BY DEF Calm
<1>1. CASE Edit
  <2>1. FinishKept
    BY <1>1 DEF Edit, Flagged, FinishKept
  <2> QED BY <1>0, <1>1, <2>1, RunWritesSame, RunWritesSaved DEF Edit
<1>2. CASE Nudge \/ (\E p \in Projects : Asks(p)) \/ Imports \/ ImportSaved
  <2>1. UNCHANGED <<runs, writes>>
    BY <1>2 DEF Nudge, Asks, Imports, ImportSaved
  <2> QED BY <1>0, <2>1, RunWritesSame DEF FinishKept
<1>3. CASE CallSaved
  <2>1. \A r \in RunIds, b \in BOOLEAN : writes[1].k # <<"run", r, b>>
    BY <1>3, KindsDiffer DEF CallSaved
  <2>2. FinishKept
    BY <1>3 DEF CallSaved, FinishKept
  <2> QED BY <1>0, <1>3, <2>1, <2>2, RunWritesPopped DEF CallSaved
<1>4. ASSUME NEW i \in SchedIds, NEW r \in RunIds,
             Impossible(i) \/ Starts(i, r, scheds[i].task)
      PROVE  RunWrites'
  <2>1. FinishKept
    BY <1>4 DEF Impossible, Starts, FinishKept
  <2>2. Saved(writes, cur, <<"sched", i>>)
    BY <1>4 DEF Impossible, Starts
  <2> QED BY <1>0, <2>1, <2>2, RunWritesSaved
<1>5. ASSUME NEW i \in SchedIds, ImpossibleSaved(i) \/ StartSaved(i, scheds[i].run)
      PROVE  RunWrites'
  <2>1. Landed /\ Popped /\ writes[1].k = <<"sched", i>>
    BY <1>5 DEF ImpossibleSaved, StartSaved
  <2>2. \A r \in RunIds, b \in BOOLEAN : writes[1].k # <<"run", r, b>>
    BY <2>1, KindsDiffer
  <2>3. FinishKept
    <3>1. CASE ImpossibleSaved(i)
      BY <3>1 DEF ImpossibleSaved, FinishKept
    <3>2. CASE StartSaved(i, scheds[i].run)
      <4> DEFINE r == scheds[i].run
      <4>1. r \in RunIds /\ runs[r].stage = "save"
            /\ RunBecomes(r, [runs[r] EXCEPT !.stage = "prepare"])
        BY <3>2, StartReady
      <4> HIDE DEF r
      <4>2. runs'[r].stage = "prepare"
        BY <4>1 DEF RunBecomes, TypeInv, RunsTyped, Run
      <4> QED BY <4>1, <4>2 DEF RunBecomes, FinishKept
    <3> QED BY <1>5, <3>1, <3>2
  <2> QED BY <1>0, <2>1, <2>2, <2>3, RunWritesPopped
<1>6. ASSUME NEW r \in RunIds, Begins(r) \/ Ignored(r) PROVE RunWrites'
  <2>1. runs'[r].stage \in {"commit", "none"} /\ runs[r].stage \in {"prepare", "commit"}
        /\ (\A x \in RunIds \ {r} : runs'[x] = runs[x]) /\ UNCHANGED writes
    BY <1>6 DEF Begins, Ignored, RunBecomes, FreeRun, TypeInv, RunsTyped, Run
  <2>2. FinishKept
    BY <2>1 DEF FinishKept
  <2> QED BY <1>0, <2>1, <2>2, RunWritesSame
<1>7. CASE \E r \in RunIds : Finishes(r) \/ RunSaved(r)
  BY <1>0, <1>7, RunWritesFinish, RunWritesRun
<1>8. CASE \E i \in SchedIds : Impossible(i)
  <2>1. PICK i \in SchedIds : Impossible(i)
    BY <1>8
  <2>2. FinishKept /\ Saved(writes, cur, <<"sched", i>>)
    BY <2>1 DEF Impossible, FinishKept
  <2> QED BY <1>0, <2>2, RunWritesSaved
<1> QED BY <1>1, <1>2, <1>3, <1>4, <1>5, <1>6, <1>7, <1>8 DEF AtWork

LEMMA CalmWork ==
  ASSUME TypeInv, Alone, Calm, AtWork
  PROVE  Calm'
  BY QuietWork, OneSchedWork, ActiveWork, RunWritesWork DEF Calm

-----------------------------------------------------------------------------
(* The opening and the closing of a project *)

\* Nothing waits where nothing is saved and no task is looked up.
LEMMA NoneDue ==
  ASSUME writes = << >>
  PROVE  Due = {}
  BY DEF Due

\* No run has more to do than its LLM calls and its commit.
LEMMA NoFinish ==
  ASSUME TypeInv, Calm, NoSched, \A r \in RunIds : ~ RunDue(r)
  PROVE  \A r \in RunIds : runs[r].stage \notin {"save", "finish"}
  BY DEF Calm, RunWrites, OneSched, NoSched

\* While a project is opened or closed, the one save there can be is the save
\* of that.
LEMMA SwitchWrites ==
  ASSUME TypeInv, Calm, Switching
  PROVE  /\ \A r \in RunIds : ~ RunDue(r)
         /\ NoSched /\ timer = NoProject /\ <<"next">> \notin Due
         /\ ~ scheduling
         /\ cur \in Projects
<1>0. Quiet /\ RunWrites /\ OneSched
  BY DEF Calm
<1>1. /\ closing.pc \in {"idle", "commits", "save1", "save2"}
      /\ opening.pc \in {"idle", "load", "save"}
      /\ writes \in Seq(Write) /\ cur \in Projects \cup {NoProject}
  BY DEF TypeInv, SwitchTyped, FilesTyped, MemTyped
<1>2. NoSched /\ timer = NoProject /\ cur \in Projects /\ ~ scheduling
  BY <1>0, <1>1 DEF Quiet, OneSched
<1>3. \/ Due = {}
      \/ Due = {<<"close">>}
      \/ \E b \in BOOLEAN : Due = {<<"open", b>>}
  <2>1. CASE closing.pc = "commits" \/ opening.pc = "load"
    BY <1>0, <2>1, NoneDue DEF Quiet
  <2>2. CASE closing.pc \in {"save1", "save2"}
    <3>1. Len(writes) = 1 /\ writes[1].k = <<"close">>
      BY <1>0, <2>2 DEF Quiet
    <3>2. DOMAIN writes = {1}
      BY <1>1, <3>1
    <3> QED BY <3>1, <3>2 DEF Due
  <2>3. CASE opening.pc = "save"
    <3>1. Len(writes) = 1 /\ OpenDue
      BY <1>0, <2>3 DEF Quiet
    <3>2. DOMAIN writes = {1}
      BY <1>1, <3>1
    <3>3. Due = {writes[1].k}
      BY <3>2 DEF Due
    <3> QED BY <3>1, <3>3 DEF OpenDue
  <2> QED BY <1>1, <2>1, <2>2, <2>3 DEF Switching
<1>4. (\A r \in RunIds : ~ RunDue(r)) /\ <<"next">> \notin Due
  BY <1>3, KindsDiffer DEF RunDue
<1> QED BY <1>2, <1>4

\* Runs of earlier sessions alone, none of them at its commit.
Prepared == \A r \in RunIds : Live(r) => /\ ~ runs[r].fresh /\ runs[r].aborted
                                         /\ runs[r].stage = "prepare"
Inactive == \A id \in TaskIds : active[id] = NoRun

LEMMA AllPrepared ==
  ASSUME TypeInv, Calm, Switching, closing.pc # "commits"
  PROVE  Prepared /\ Inactive
<1>0. ActiveRuns
  BY DEF Calm
<1>1. ASSUME NEW r \in RunIds, Live(r)
      PROVE  ~ runs[r].fresh /\ runs[r].aborted /\ runs[r].stage = "prepare"
  <2>1. ~ runs[r].fresh
    BY <1>0, <1>1 DEF ActiveRuns, Fresh
  <2>2. Outlived(r)
    BY <1>0, <1>1, <2>1 DEF ActiveRuns
  <2> QED BY <2>1, <2>2 DEF Outlived
<1>2. ASSUME NEW id \in TaskIds, active[id] # NoRun PROVE FALSE
  <2>1. active[id] \in RunIds
    BY <1>2 DEF TypeInv, MemTyped
  <2>2. Live(active[id]) /\ runs[active[id]].fresh
    BY <1>0, <1>2 DEF ActiveRuns
  <2> QED BY <1>1, <2>1, <2>2
<1> QED BY <1>1, <1>2 DEF Prepared, Inactive

LEMMA PreparedActive ==
  ASSUME Prepared', Inactive'
  PROVE  ActiveRuns' /\ \A r \in RunIds : runs'[r].stage \notin {"save", "finish"}
<1>1. \A r \in RunIds : Live(r)' => ~ runs'[r].fresh /\ Outlived(r)'
  BY DEF Prepared, Outlived
<1>2. \A r \in RunIds : runs'[r].stage \notin {"save", "finish"}
  BY DEF Prepared, Live
<1> QED BY <1>1, <1>2 DEF Inactive, ActiveRuns

\* The one save of an opening or a closing, and none of a run.
LEMMA LoneSave ==
  ASSUME NEW ws, NEW p, NEW k, Saved(ws, p, k), Len(ws) = 0
  PROVE  Len(writes') = 1 /\ writes'[1].k = k /\ Due' = {k}
<1>1. /\ writes' \in Seq(Write) /\ Len(writes') = 1 /\ writes'[1].k = k
  BY DEF Saved
<1>2. DOMAIN writes' = {1}
  BY <1>1
<1> QED BY <1>1, <1>2 DEF Due

LEMMA NoWrites ==
  ASSUME writes \in Seq(Write), Len(writes) = 0
  PROVE  writes = << >>
  OBVIOUS

LEMMA CalmLone ==
  ASSUME NoSched', ~ scheduling', ActiveRuns',
         \A r \in RunIds : runs'[r].stage \notin {"save", "finish"},
         \A r \in RunIds : ~ RunDue(r)', Quiet'
  PROVE  Calm'
<1>1. OneSched'
  BY OneSchedNone
<1>2. RunWrites'
  BY RunWritesNone
<1> QED BY <1>1, <1>2 DEF Calm

LEMMA FlushQuiet ==
  ASSUME Flushed(cur), cur' = cur, cur \in Projects, writes = << >>, NoSched', timer' = NoProject,
         opening'.pc = "idle"
  PROVE  Quiet' /\ \A r \in RunIds : ~ RunDue(r)'
<1>1. Len(writes') = 1 /\ writes'[1].k = <<"close">> /\ Due' = {<<"close">>}
  BY LoneSave DEF Flushed
<1>2. ~ OpenDue' /\ \A r \in RunIds : ~ RunDue(r)'
  BY <1>1, KindsDiffer DEF OpenDue, RunDue
<1>3. closing'.pc = "save1" /\ closing'.proj = cur
  BY DEF Flushed
<1>4. cur' # NoProject
  BY QueueAssumption
<1> QED BY <1>1, <1>2, <1>3, <1>4 DEF Quiet

LEMMA PausesCalm ==
  ASSUME SwitchInv, Alone, Calm, Pauses, ~ overlapped'
  PROVE  Calm'
<1>0. TypeInv /\ Quiet /\ OneSched /\ RunWrites /\ ActiveRuns
  BY DEF SwitchInv, Calm
<1>1. /\ writes = << >> /\ NoSched /\ ~ Switching /\ cur \in Projects /\ timer' = NoProject
      /\ UNCHANGED <<cur, opening>> /\ OutOfDate
  BY DEF Pauses, Alone, Suspended, NoSched
<1>2. opening'.pc = "idle"
  BY <1>1 DEF Switching
<1>3. NoSched' /\ ~ scheduling'
  BY <1>1 DEF OutOfDate, NoSched
<1>4. \A r \in RunIds : ~ RunDue(r)
  BY <1>1, NoneDue DEF RunDue
<1>5. \A r \in RunIds : runs[r].stage \notin {"save", "finish"}
  BY <1>0, <1>1, <1>4, NoFinish
<1>6. \A r \in RunIds : /\ runs'[r].stage = runs[r].stage /\ runs'[r].task = runs[r].task
                        /\ runs'[r].proj = runs[r].proj /\ ~ runs'[r].fresh
                        /\ (runs[r].aborted => runs'[r].aborted)
                        /\ (r \in RunsOf(TaskIds) => runs'[r].aborted)
  BY <1>1 DEF OutOfDate, Pauses
<1>7. ASSUME NEW r \in RunIds, Live(r)
      PROVE  /\ runs'[r].aborted
             /\ runs[r].stage = "commit" => cur = runs[r].proj /\ r \in Committing
  <2>1. CASE runs[r].fresh
    <3>1. cur = runs[r].proj /\ active[runs[r].task] = r /\ runs[r].task \in TaskIds
      BY <1>0, <1>7, <2>1 DEF ActiveRuns, Fresh, TypeInv, RunsTyped, Run
    <3>2. r \in RunsOf(TaskIds)
      BY <3>1, QueueAssumption DEF RunsOf, NoRun
    <3> QED BY <1>6, <3>1, <3>2 DEF Committing
  <2>2. CASE ~ runs[r].fresh
    <3>1. Outlived(r)
      BY <1>0, <1>7, <2>2 DEF ActiveRuns
    <3> QED BY <1>1, <1>6, <3>1 DEF Outlived, Switching
  <2> QED BY <2>1, <2>2
<1>8. \A r \in RunIds : Live(r) => runs[r].stage \in {"prepare", "commit"}
  BY <1>0, <1>5 DEF Live, TypeInv, RunsTyped, Run
<1>9. CASE Committing = {} /\ Flushed(cur)
  <2>1. Prepared'
    BY <1>6, <1>7, <1>8, <1>9 DEF Prepared, Live
  <2>2. Inactive'
    BY <1>9 DEF Inactive, Flushed
  <2>3. ActiveRuns' /\ \A r \in RunIds : runs'[r].stage \notin {"save", "finish"}
    BY <2>1, <2>2, PreparedActive
  <2>4. Quiet' /\ \A r \in RunIds : ~ RunDue(r)'
    BY <1>1, <1>2, <1>3, <1>9, FlushQuiet
  <2> QED BY <1>3, <2>3, <2>4, CalmLone
<1>10. CASE /\ closing' = [pc |-> "commits", proj |-> cur, waiting |-> Committing]
            /\ UNCHANGED <<active, queue, writes>>
  <2>1. \A r \in RunIds : Live(r)' => ~ runs'[r].fresh /\ Outlived(r)'
    BY <1>1, <1>6, <1>7, <1>8, <1>10 DEF Live, Outlived
  <2>2. ASSUME NEW id \in TaskIds, active'[id] # NoRun
        PROVE  /\ Live(active[id])' /\ runs'[active'[id]].task = id
               /\ runs'[active'[id]].fresh \/ closing'.pc = "commits"
    <3>1. active[id] \in RunIds
      BY <1>0, <1>10, <2>2 DEF TypeInv, MemTyped
    <3>2. Live(active[id]) /\ runs[active[id]].task = id
      BY <1>0, <1>10, <2>2 DEF ActiveRuns
    <3> QED BY <1>6, <1>10, <3>1, <3>2 DEF Live
  <2>3. ActiveRuns'
    BY <2>1, <2>2 DEF ActiveRuns
  <2>4. Due' = {}
    BY <1>1, <1>10 DEF Due
  <2>5. (\A r \in RunIds : ~ RunDue(r)') /\ ~ OpenDue'
    BY <2>4 DEF RunDue, OpenDue
  <2>6. Quiet'
    <3>1. cur' # NoProject /\ writes' = << >> /\ timer' = NoProject
      BY <1>1, <1>10, QueueAssumption
    <3>2. closing'.pc = "commits" /\ closing'.proj = cur'
      BY <1>1, <1>10
    <3> QED BY <1>2, <1>3, <2>5, <3>1, <3>2 DEF Quiet
  <2>7. \A r \in RunIds : runs'[r].stage \notin {"save", "finish"}
    BY <1>5, <1>6
  <2> QED BY <1>3, <2>3, <2>5, <2>6, <2>7, CalmLone
<1> QED BY <1>9, <1>10 DEF Pauses

LEMMA FlushesCalm ==
  ASSUME SwitchInv, Calm, Flushes
  PROVE  Calm'
<1>0. TypeInv /\ Quiet /\ ActiveRuns /\ Phases
  BY DEF SwitchInv, Calm
<1>1. /\ closing.pc = "commits" /\ closing.waiting = {} /\ Flushed(closing.proj)
      /\ UNCHANGED <<cur, timer, sched, opening, runs>>
  BY DEF Flushes
<1>2. Switching /\ cur = closing.proj /\ writes = << >> /\ opening.pc = "idle"
  BY <1>0, <1>1 DEF Switching, Quiet, Phases
<1>3. NoSched /\ timer = NoProject /\ ~ scheduling /\ cur \in Projects
  BY <1>0, <1>2, SwitchWrites
<1>4. NoSched' /\ ~ scheduling' /\ timer' = NoProject
  BY <1>1, <1>3 DEF sched, NoSched
<1>5. Prepared'
  <2>1. ASSUME NEW r \in RunIds, Live(r)
        PROVE  ~ runs[r].fresh /\ runs[r].aborted /\ runs[r].stage = "prepare"
    <3>1. ~ runs[r].fresh
      BY <1>0, <1>2, <2>1 DEF ActiveRuns, Fresh
    <3>2. Outlived(r)
      BY <1>0, <2>1, <3>1 DEF ActiveRuns
    <3> QED BY <1>1, <3>1, <3>2 DEF Outlived
  <2> QED BY <1>1, <2>1 DEF Prepared, Live
<1>6. Inactive'
  BY <1>1 DEF Inactive, Flushed
<1>7. ActiveRuns' /\ \A r \in RunIds : runs'[r].stage \notin {"save", "finish"}
  BY <1>5, <1>6, PreparedActive
<1>8. Quiet' /\ \A r \in RunIds : ~ RunDue(r)'
  BY <1>1, <1>2, <1>3, <1>4, FlushQuiet
<1> QED BY <1>4, <1>7, <1>8, CalmLone

LEMMA CloseCalm ==
  ASSUME SwitchInv, Calm, CloseSaved
  PROVE  Calm'
<1>0. TypeInv /\ Quiet /\ ActiveRuns /\ Phases
  BY DEF SwitchInv, Calm
<1>1. /\ 1 \in DOMAIN writes /\ writes[1].k = <<"close">> /\ (FlushedAgain \/ Wiped)
      /\ UNCHANGED <<active, timer, scheduling, scheds, opening, runs>>
  BY DEF CloseSaved, Landed
<1>2. closing.pc \in {"save1", "save2"}
  BY <1>0, <1>1 DEF Phases, IsClose
<1>3. Switching /\ cur = closing.proj /\ Len(writes) = 1 /\ opening.pc = "idle"
  BY <1>0, <1>2 DEF Switching, Quiet, Phases
<1>4. NoSched /\ timer = NoProject /\ ~ scheduling /\ cur \in Projects
  BY <1>0, <1>3, SwitchWrites
<1>5. Prepared /\ Inactive
  BY <1>0, <1>2, <1>3, AllPrepared
<1>6. Prepared' /\ Inactive'
  BY <1>1, <1>5 DEF Prepared, Inactive, Live
<1>7. ActiveRuns' /\ \A r \in RunIds : runs'[r].stage \notin {"save", "finish"}
  BY <1>6, PreparedActive
<1>8. NoSched' /\ ~ scheduling' /\ timer' = NoProject /\ opening'.pc = "idle"
  BY <1>1, <1>3, <1>4 DEF NoSched
<1>9. CASE FlushedAgain
  <2>1. /\ Saved(Tail(writes), closing.proj, <<"close">>) /\ Len(Tail(writes)) = Len(writes) - 1
        /\ closing' = [closing EXCEPT !.pc = "save2"] /\ UNCHANGED cur
    BY <1>9 DEF FlushedAgain
  <2>2. Len(Tail(writes)) = 0
    BY <1>3, <2>1
  <2>3. Len(writes') = 1 /\ writes'[1].k = <<"close">> /\ Due' = {<<"close">>}
    BY <2>1, <2>2, LoneSave
  <2>4. ~ OpenDue' /\ \A r \in RunIds : ~ RunDue(r)'
    BY <2>3, KindsDiffer DEF OpenDue, RunDue
  <2>5. closing'.pc = "save2" /\ closing'.proj = closing.proj /\ cur' # NoProject
    BY <1>0, <1>4, <2>1, QueueAssumption DEF TypeInv, SwitchTyped
  <2>6. Quiet'
    BY <1>3, <1>8, <2>1, <2>3, <2>4, <2>5 DEF Quiet
  <2> QED BY <1>7, <1>8, <2>4, <2>6, CalmLone
<1>10. CASE Wiped
  <2>1. /\ queue' = << >> /\ cur' = NoProject /\ closing' = IdleClosing /\ Popped
    BY <1>10 DEF Wiped
  <2>2. writes' = << >>
    BY <1>3, <2>1 DEF Popped
  <2>3. Due' = {}
    BY <2>2 DEF Due
  <2>4. ~ OpenDue' /\ \A r \in RunIds : ~ RunDue(r)'
    BY <2>3 DEF OpenDue, RunDue
  <2>5. closing'.pc = "idle"
    BY <2>1 DEF IdleClosing
  <2>6. Quiet'
    BY <1>8, <2>1, <2>2, <2>4, <2>5 DEF Quiet, Switching
  <2> QED BY <1>7, <1>8, <2>4, <2>6, CalmLone
<1> QED BY <1>1, <1>9, <1>10

LEMMA OpensCalm ==
  ASSUME SwitchInv, Alone, Calm, NEW p \in Projects, Opens(p)
  PROVE  Calm'
<1>0. TypeInv /\ Quiet /\ ActiveRuns
  BY DEF SwitchInv, Calm
<1>1. /\ cur = NoProject /\ ~ Switching /\ OutOfDate /\ timer' = NoProject
      /\ active' = [id \in TaskIds |-> NoRun] /\ cur' = p
      /\ opening' = [pc |-> "load", proj |-> p, waits |-> InactiveBusy]
      /\ UNCHANGED <<closing, writes>>
  BY DEF Opens, Alone
<1>2. writes = << >> /\ NoSched /\ closing.pc = "idle"
  BY <1>0, <1>1 DEF Quiet, Switching
<1>3. NoSched' /\ ~ scheduling'
  BY <1>1, <1>2 DEF OutOfDate, NoSched
<1>4. ASSUME NEW r \in RunIds, Live(r) PROVE runs[r].stage = "prepare" /\ runs[r].aborted
  <2>1. ~ runs[r].fresh
    <3>1. runs[r].proj \in Projects
      BY <1>0 DEF TypeInv, RunsTyped, Run
    <3> QED BY <1>0, <1>1, <1>4, <3>1, QueueAssumption DEF ActiveRuns, Fresh
  <2>2. Outlived(r)
    BY <1>0, <1>4, <2>1 DEF ActiveRuns
  <2> QED BY <1>2, <2>2 DEF Outlived
<1>5. Prepared'
  BY <1>1, <1>4 DEF OutOfDate, Prepared, Live
<1>6. Inactive'
  BY <1>1 DEF Inactive
<1>7. ActiveRuns' /\ \A r \in RunIds : runs'[r].stage \notin {"save", "finish"}
  BY <1>5, <1>6, PreparedActive
<1>8. Due' = {}
  BY <1>1, <1>2 DEF Due
<1>9. ~ OpenDue' /\ \A r \in RunIds : ~ RunDue(r)'
  BY <1>8 DEF OpenDue, RunDue
<1>10. Quiet'
  <2>1. cur' # NoProject /\ writes' = << >> /\ opening'.pc = "load" /\ opening'.proj = cur'
        /\ closing'.pc = "idle"
    BY <1>1, <1>2, QueueAssumption
  <2> QED BY <1>1, <1>3, <1>9, <2>1 DEF Quiet
<1> QED BY <1>3, <1>7, <1>9, <1>10, CalmLone

LEMMA LoadedCalm ==
  ASSUME SwitchInv, Calm, Loaded
  PROVE  Calm'
<1>0. TypeInv /\ Quiet /\ ActiveRuns /\ Phases
  BY DEF SwitchInv, Calm
<1>1. /\ opening.pc = "load" /\ UNCHANGED <<cur, active, timer, scheduling, closing>>
  BY DEF Loaded
<1>2. Switching /\ cur = opening.proj /\ writes = << >> /\ closing.pc = "idle"
  BY <1>0, <1>1 DEF Switching, Quiet, Phases
<1>3. NoSched /\ timer = NoProject /\ ~ scheduling /\ cur \in Projects
  BY <1>0, <1>2, SwitchWrites
<1>4. Prepared /\ Inactive
  BY <1>0, <1>2, AllPrepared
<1>5. Inactive' /\ ~ scheduling' /\ timer' = NoProject
  BY <1>1, <1>3, <1>4 DEF Inactive
<1>6. cur' # NoProject /\ cur' = cur /\ closing'.pc = "idle"
  BY <1>1, <1>2, <1>3, QueueAssumption
<1>7. CASE opening' = IdleOpening /\ UNCHANGED <<queue, restored, writes, runs, scheds>>
  <2>1. Prepared' /\ NoSched'
    BY <1>3, <1>4, <1>7 DEF Prepared, Live, NoSched
  <2>2. ActiveRuns' /\ \A r \in RunIds : runs'[r].stage \notin {"save", "finish"}
    BY <1>5, <2>1, PreparedActive
  <2>3. Due' = {}
    BY <1>2, <1>7 DEF Due
  <2>4. ~ OpenDue' /\ \A r \in RunIds : ~ RunDue(r)'
    BY <2>3 DEF OpenDue, RunDue
  <2>5. opening'.pc = "idle"
    BY <1>7 DEF IdleOpening
  <2>6. Quiet'
    BY <1>6, <2>4, <2>5 DEF Quiet, Switching
  <2> QED BY <1>5, <2>1, <2>2, <2>4, <2>6, CalmLone
<1>8. CASE Loads
  <2>1. NoSched'
    BY <1>3, <1>8 DEF Loads, NoSched
  <2>2. Prepared'
    BY <1>4, <1>8 DEF Loads, Prepared, Live
  <2>3. ActiveRuns' /\ \A r \in RunIds : runs'[r].stage \notin {"save", "finish"}
    BY <1>5, <2>2, PreparedActive
  <2>4. PICK b \in BOOLEAN : Saved(writes, opening.proj, <<"open", b>>)
    BY <1>8 DEF Loads
  <2>5. Len(writes') = 1 /\ writes'[1].k = <<"open", b>> /\ Due' = {<<"open", b>>}
    <3>1. Len(writes) = 0
      BY <1>2
    <3> QED BY <2>4, <3>1, LoneSave
  <2>6. OpenDue'
    BY <2>5 DEF OpenDue
  <2>7. \A r \in RunIds : ~ RunDue(r)'
    BY <2>5, KindsDiffer DEF RunDue
  <2>8. opening'.pc = "save" /\ opening'.proj = opening.proj
    BY <1>0, <1>8 DEF Loads, TypeInv, SwitchTyped
  <2>9. Quiet'
    BY <1>2, <1>5, <1>6, <2>1, <2>5, <2>6, <2>8 DEF Quiet
  <2> QED BY <1>5, <2>1, <2>3, <2>7, <2>9, CalmLone
<1> QED BY <1>7, <1>8 DEF Loaded

LEMMA OpenSavedCalm ==
  ASSUME SwitchInv, Calm, OpenSaved
  PROVE  Calm' /\ cur = opening.proj /\ writes' = << >>
<1>0. TypeInv /\ Quiet /\ OneSched /\ ActiveRuns /\ Phases
  BY DEF SwitchInv, Calm
<1>1. /\ Landed /\ Popped /\ opening' = IdleOpening /\ UNCHANGED <<mem, closing, runs>>
      /\ Kick(opening.proj) \/ UNCHANGED sched
  BY DEF OpenSaved
<1>2. OpenDue
  BY DEF OpenSaved, Landed, OpenDue, Due
<1>3. opening.pc = "save" /\ Len(writes) = 1 /\ cur = opening.proj
  BY <1>0, <1>2 DEF Quiet
<1>4. Switching /\ closing.pc = "idle"
  BY <1>0, <1>3 DEF Switching, Phases
<1>5. NoSched /\ cur \in Projects
  BY <1>0, <1>4, SwitchWrites
<1>6. Prepared /\ Inactive
  BY <1>0, <1>4, AllPrepared
<1>7. Prepared' /\ Inactive'
  BY <1>1, <1>6 DEF Prepared, Inactive, Live, mem
<1>8. ActiveRuns' /\ \A r \in RunIds : runs'[r].stage \notin {"save", "finish"}
  BY <1>7, PreparedActive
<1>9. writes' = << >>
  BY <1>1, <1>3 DEF Popped
<1>10. Due' = {}
  BY <1>9 DEF Due
<1>11. ~ OpenDue' /\ \A r \in RunIds : ~ RunDue(r)'
  BY <1>10 DEF OpenDue, RunDue
<1>12. Quiet'
  <2>1. cur' # NoProject /\ closing'.pc = "idle" /\ opening'.pc = "idle"
    BY <1>1, <1>4, <1>5, QueueAssumption DEF IdleOpening, mem
  <2> QED BY <1>11, <2>1 DEF Quiet, Switching
<1>13. OneSched'
  <2>1. SaveKept /\ Fewer
    BY <1>1 DEF SaveKept, Fewer, mem
  <2>2. queue' \in Queues /\ cur' = cur
    BY <1>0, <1>1 DEF TypeInv, MemTyped, mem
  <2> QED BY <1>0, <1>1, <1>3, <2>1, <2>2, OneSchedSame, OneSchedKick DEF sched
<1>14. RunWrites'
  BY <1>8, <1>11, RunWritesNone
<1> QED BY <1>3, <1>8, <1>9, <1>12, <1>13, <1>14 DEF Calm

LEMMA StartCalm ==
  ASSUME ProcessStart
  PROVE  Calm
<1>1. /\ cur = NoProject /\ queue = << >> /\ writes = << >> /\ timer = NoProject
      /\ closing.pc = "idle" /\ opening.pc = "idle" /\ scheduling = FALSE
      /\ \A i \in SchedIds : scheds[i].pc = "none"
      /\ \A r \in RunIds : runs[r].stage = "none"
      /\ \A id \in TaskIds : active[id] = NoRun
  BY DEF ProcessStart, IdleClosing, IdleOpening, FreeSched, FreeRun
<1>2. Due = {}
  BY <1>1, NoneDue
<1>3. ~ OpenDue /\ \A r \in RunIds : ~ RunDue(r)
  BY <1>2 DEF OpenDue, RunDue
<1>4. NoSched /\ Quiet
  BY <1>1, <1>3 DEF NoSched, Quiet, Switching
<1>5. OneSched
  BY <1>1, <1>4 DEF OneSched
<1>6. ActiveRuns
  BY <1>1 DEF ActiveRuns, Live
<1>7. RunWrites
  BY <1>1, <1>3 DEF RunWrites
<1> QED BY <1>4, <1>5, <1>6, <1>7 DEF Calm

LEMMA StartCalmNext == ProcessStart' => Calm'
<1>1. ProcessStart => Calm
  BY StartCalm
<1> QED BY <1>1, PTL

LEMMA CrashCalm ==
  ASSUME Crashes
  PROVE  Calm'
<1>1. ProcessStart'
  BY DEF Crashes, ProcessStart
<1> QED BY <1>1, StartCalmNext

\* Every step is one of these when nothing has overlapped.
CalmStep ==
    \/ AtWork \/ CloseSaved \/ OpenSaved \/ Pauses \/ Flushes \/ Loaded \/ Crashes
    \/ \E p \in Projects : Opens(p)

LEMMA EffectCalm ==
  ASSUME TypeInv, Calm, Effect
  PROVE  CalmStep
<1>1. ASSUME NEW i \in SchedIds, StartStale(i) PROVE FALSE
  BY <1>1 DEF Calm, OneSched, StartStale, SchedulerStale
<1>2. CASE \E i \in SchedIds : StartStale(i) \/ Impossible(i) \/ ImpossibleSaved(i)
                               \/ StartSaved(i, scheds[i].run)
  BY <1>1, <1>2 DEF AtWork, CalmStep
<1>3. CASE \E p \in Projects : Opens(p) \/ Asks(p)
  BY <1>3 DEF AtWork, CalmStep
<1>4. CASE \E r \in RunIds : Begins(r) \/ Ignored(r) \/ Finishes(r) \/ RunSaved(r)
  BY <1>4 DEF AtWork, CalmStep
<1>5. CASE \E i \in SchedIds, r \in RunIds : Starts(i, r, scheds[i].task)
  BY <1>5 DEF AtWork, CalmStep
<1>6. CASE Edit \/ Nudge \/ CallSaved \/ CloseSaved \/ OpenSaved \/ Pauses \/ Flushes \/ Loaded
           \/ Imports \/ ImportSaved \/ Crashes
  BY <1>6 DEF AtWork, CalmStep
<1> QED BY <1>2, <1>3, <1>4, <1>5, <1>6 DEF Effect

LEMMA OverlapStays ==
  ASSUME TypeInv, Effect, overlapped
  PROVE  overlapped'
<1>1. CASE UNCHANGED overlapped
  BY <1>1
<1>2. CASE Edit \/ Nudge \/ CallSaved \/ CloseSaved \/ OpenSaved \/ Pauses \/ Flushes \/ Loaded
           \/ Imports \/ ImportSaved \/ Crashes
  BY <1>2 DEF Edit, Nudge, CallSaved, CloseSaved, OpenSaved, Pauses, Flushes, Loaded, Imports,
              ImportSaved, Crashes, switch
<1>3. CASE \E i \in SchedIds : StartStale(i) \/ Impossible(i) \/ ImpossibleSaved(i)
                               \/ StartSaved(i, scheds[i].run)
  BY <1>3 DEF StartStale, Impossible, ImpossibleSaved, StartSaved, switch
<1>4. CASE \E i \in SchedIds, r \in RunIds : Starts(i, r, scheds[i].task)
  BY <1>4 DEF Starts, switch
<1>5. CASE \E r \in RunIds : Begins(r) \/ Ignored(r) \/ Finishes(r) \/ RunSaved(r)
  BY <1>5 DEF Begins, Ignored, Finishes, RunSaved, switch
<1>6. CASE \E p \in Projects : Opens(p) \/ Asks(p)
  BY <1>6 DEF Opens, Asks, switch
<1> QED BY <1>2, <1>3, <1>4, <1>5, <1>6 DEF Effect

LEMMA CalmNext ==
  ASSUME SwitchInv, Alone, Calm, CalmStep, ~ overlapped'
  PROVE  Calm'
<1>1. CASE AtWork
  BY <1>1, CalmWork DEF SwitchInv
<1>2. CASE CloseSaved \/ OpenSaved \/ Pauses \/ Flushes
  BY <1>2, CloseCalm, OpenSavedCalm, PausesCalm, FlushesCalm
<1>3. CASE Loaded \/ Crashes \/ \E p \in Projects : Opens(p)
  BY <1>3, LoadedCalm, CrashCalm, OpensCalm
<1> QED BY <1>1, <1>2, <1>3 DEF CalmStep

\* The invariant that the theorems below are drawn from.
CalmInv == SwitchInv /\ (~ overlapped => Calm)

LEMMA CalmInvStep ==
  ASSUME CalmInv, Alone, [Next]_vars
  PROVE  CalmInv'
<1>1. SwitchInv' /\ (Effect \/ UNCHANGED vars)
  BY SwitchInvStep DEF CalmInv
<1>2. CASE Effect
  <2>1. SUFFICES ASSUME ~ overlapped' PROVE Calm'
    BY <1>1 DEF CalmInv
  <2>2. TypeInv /\ ~ overlapped /\ Calm
    BY <1>2, <2>1, OverlapStays DEF CalmInv, SwitchInv
  <2> QED BY <1>2, <2>1, <2>2, EffectCalm, CalmNext DEF CalmInv
<1>3. CASE UNCHANGED vars
  <2>1. UNCHANGED <<mem, sched, switch, writes, runs>>
    BY <1>3 DEF vars
  <2>2. SaveKept /\ Fewer /\ FinishKept
    BY <2>1 DEF SaveKept, Fewer, FinishKept, mem
  <2>3. CASE Calm
    <3>1. OneSched' /\ RunWrites' /\ ActiveRuns'
      BY <2>1, <2>2, <2>3, OneSchedSame, RunWritesSame, ActiveSame
         DEF CalmInv, SwitchInv, Calm, mem, sched, switch
    <3>2. Quiet'
      BY <2>1, <2>3, QuietSame DEF Calm, mem, sched, switch
    <3> QED BY <1>1, <3>1, <3>2 DEF CalmInv, Calm
  <2> QED BY <1>1, <2>1, <2>3 DEF CalmInv, switch
<1> QED BY <1>1, <1>2, <1>3

\* As long as no call or lookup waited when a project was closed, one call of
\* processNext at a time is between its look at the queue and the save of what
\* it started, activeRuns has exactly the runs of the session, and the opening
\* and the closing of a project are alone with the queue.
THEOREM IngestCalmInvariance ==
  ASSUME Alone
  PROVE  Spec => []CalmInv
<1>1. Init => CalmInv
  BY SwitchInvInit, StartCalm DEF Init, CalmInv
<1>2. CalmInv /\ [Next]_vars => CalmInv'
  BY CalmInvStep
<1> QED BY <1>1, <1>2, PTL DEF Spec

\* pauseQueue waits for the commits under way: when no call of the user
\* overlaps with it and no save or lookup was waited for at its start, no run
\* commits to a project the queue has left.
THEOREM IngestUndisturbedCommits ==
  ASSUME Alone
  PROVE  Spec => []UndisturbedCommits
<1>1. CalmInv => UndisturbedCommits
  <2>1. SUFFICES ASSUME CalmInv, ~ overlapped, NEW r \in RunIds, runs[r].stage = "commit"
                 PROVE  cur = runs[r].proj
    BY DEF UndisturbedCommits, CommitsInOpenProject
  <2>2. ActiveRuns /\ Live(r)
    BY <2>1 DEF CalmInv, Calm, Live
  <2> QED BY <2>1, <2>2 DEF ActiveRuns, Fresh, Outlived
<1>2. Spec => []CalmInv
  BY IngestCalmInvariance
<1> QED BY <1>1, <1>2, PTL

-----------------------------------------------------------------------------
(* Every task is of the open project *)

OwnProject ==
    /\ \A k \in DOMAIN queue : queue[k].proj = cur
    /\ \A j \in DOMAIN writes : writes[j].proj = cur

LEMMA OwnSaved ==
  ASSUME NEW ws, NEW k, Saved(ws, cur, k), \A j \in DOMAIN ws : ws[j].proj = cur,
         cur' = cur, \A l \in DOMAIN queue' : queue'[l].proj = cur
  PROVE  OwnProject'
<1>1. \A j \in DOMAIN writes' : writes'[j].proj = cur
  BY DEF Saved
<1> QED BY <1>1 DEF OwnProject

LEMMA OwnPopped ==
  ASSUME OwnProject, Popped, UNCHANGED <<queue, cur>>
  PROVE  OwnProject'
<1>1. \A j \in DOMAIN writes' : writes'[j].proj = cur
  BY DEF Popped, OwnProject
<1> QED BY <1>1 DEF OwnProject

LEMMA OwnNext ==
  ASSUME SwitchInv, Alone, Calm, OwnProject, CalmStep
  PROVE  OwnProject'
<1>0. TypeInv /\ Quiet /\ Phases
  BY DEF SwitchInv, Calm
<1>1. \A j \in DOMAIN writes : writes[j].proj = cur
  BY DEF OwnProject
<1>2. CASE UNCHANGED <<queue, writes, cur>>
  BY <1>2 DEF OwnProject
<1>3. CASE Edit
  <2>1. cur' = cur
    BY <1>3 DEF Edit
  <2>2. \A k \in DOMAIN queue' : queue'[k].proj = cur
    <3>1. Tracked
      BY <1>3 DEF Edit
    <3> QED BY <3>1 DEF Tracked, OwnProject
  <2>3. UNCHANGED writes \/ \E k : Saved(writes, cur, k)
    BY <1>3 DEF Edit
  <2> QED BY <1>1, <2>1, <2>2, <2>3, OwnSaved DEF OwnProject
<1>4. ASSUME NEW i \in SchedIds, NEW r \in RunIds,
             Impossible(i) \/ Starts(i, r, scheds[i].task)
      PROVE  OwnProject'
  <2>1. /\ cur' = cur /\ Saved(writes, cur, <<"sched", i>>)
        /\ \E st : OwnSet(scheds[i].own, scheds[i].task, st)
    BY <1>4 DEF Impossible, Starts
  <2>2. \A k \in DOMAIN queue' : queue'[k].proj = cur
    BY <2>1 DEF OwnSet, OwnProject
  <2> QED BY <1>1, <2>1, <2>2, OwnSaved
<1>5. ASSUME NEW i \in SchedIds, Impossible(i) PROVE OwnProject'
  <2>1. /\ cur' = cur /\ Saved(writes, cur, <<"sched", i>>)
        /\ OwnSet(scheds[i].own, scheds[i].task, "failed")
    BY <1>5 DEF Impossible
  <2>2. \A k \in DOMAIN queue' : queue'[k].proj = cur
    BY <2>1 DEF OwnSet, OwnProject
  <2> QED BY <1>1, <2>1, <2>2, OwnSaved
<1>6. ASSUME NEW r \in RunIds, Finishes(r) PROVE OwnProject'
  <2>1. cur' = cur /\ Decided(r) /\ \E k : Saved(writes, cur, k)
    BY <1>6 DEF Finishes
  <2>2. \A k \in DOMAIN queue' : queue'[k].proj = cur
    BY <2>1 DEF Decided, OwnProject
  <2> QED BY <1>1, <2>1, <2>2, OwnSaved
<1>7. CASE AtWork
  <2>1. CASE Nudge \/ (\E p \in Projects : Asks(p)) \/ Imports \/ ImportSaved
    BY <1>2, <2>1 DEF Nudge, Asks, Imports, ImportSaved, mem
  <2>2. CASE CallSaved
    BY <2>2, OwnPopped DEF CallSaved, mem
  <2>3. CASE \E i \in SchedIds : ImpossibleSaved(i) \/ StartSaved(i, scheds[i].run)
    BY <2>3, OwnPopped DEF ImpossibleSaved, StartSaved, mem
  <2>4. CASE \E r \in RunIds : Begins(r) \/ Ignored(r) \/ RunSaved(r)
    BY <1>2, <2>4, OwnPopped DEF Begins, Ignored, RunSaved, mem
  <2> QED BY <1>3, <1>4, <1>5, <1>6, <1>7, <2>1, <2>2, <2>3, <2>4 DEF AtWork
<1>8. CASE Pauses \/ Flushes
  <2>1. /\ cur' = cur
        /\ UNCHANGED <<queue, writes>> \/ Flushed(cur)
    BY <1>0, <1>8 DEF Pauses, Flushes, Quiet
  <2>2. CASE Flushed(cur)
    <3>1. Saved(writes, cur, <<"close">>) /\ \A k \in DOMAIN queue' : queue'[k].proj = cur
      BY <2>2 DEF Flushed, OwnProject
    <3> QED BY <1>1, <2>1, <3>1, OwnSaved
  <2> QED BY <1>2, <2>1, <2>2
<1>9. CASE CloseSaved
  <2>1. closing.pc \in {"save1", "save2"}
    BY <1>0, <1>9 DEF CloseSaved, Landed, Phases, IsClose
  <2>2. Len(writes) = 1 /\ cur = closing.proj
    BY <1>0, <2>1 DEF Quiet
  <2>3. CASE FlushedAgain
    <3>1. /\ Saved(Tail(writes), cur, <<"close">>) /\ cur' = cur
          /\ \A k \in DOMAIN queue' : queue'[k].proj = cur
          /\ \A j \in DOMAIN Tail(writes) : j + 1 \in DOMAIN writes
                                            /\ Tail(writes)[j] = writes[j + 1]
      BY <2>2, <2>3 DEF FlushedAgain, OwnProject
    <3>2. \A j \in DOMAIN Tail(writes) : Tail(writes)[j].proj = cur
      BY <1>1, <3>1
    <3> QED BY <3>1, <3>2, OwnSaved
  <2>4. CASE Wiped
    <3>1. queue' = << >> /\ writes' = << >>
      BY <2>2, <2>4 DEF Wiped, Popped
    <3> QED BY <3>1 DEF OwnProject
  <2> QED BY <1>9, <2>3, <2>4 DEF CloseSaved
<1>10. CASE OpenSaved
  BY <1>10, OwnPopped DEF OpenSaved, mem
<1>11. CASE Crashes \/ \E p \in Projects : Opens(p)
  <2>1. queue' = << >> /\ writes' = << >>
    BY <1>0, <1>11 DEF Crashes, Opens, Alone, Quiet
  <2> QED BY <2>1 DEF OwnProject
<1>12. CASE Loaded
  <2>1. cur = opening.proj /\ cur' = cur
    BY <1>0, <1>12 DEF Loaded, Quiet
  <2>2. CASE Loads
    <3>1. (\E k : Saved(writes, cur, k)) /\ \A k \in DOMAIN queue' : queue'[k].proj = cur
      BY <2>1, <2>2 DEF Loads
    <3> QED BY <1>1, <2>1, <3>1, OwnSaved
  <2> QED BY <1>2, <1>12, <2>1, <2>2 DEF Loaded
<1> QED BY <1>7, <1>8, <1>9, <1>10, <1>11, <1>12 DEF CalmStep

-----------------------------------------------------------------------------
(* A task that is processing has a run that will decide about it *)

Attended(id) == active[id] # NoRun /\ Working(active[id])

\* Only tasks that are at work are noted as cancelled in flight.
Processing ==
    closing.pc = "idle" =>
       /\ \A k \in DOMAIN queue : queue[k].st = "processing" =>
             queue[k].id \notin cancelling /\ Attended(queue[k].id)
       /\ \A id \in cancelling : Attended(id)

\* The same of the next state.
AttendedNext(id) ==
    /\ active'[id] # NoRun
    /\ runs'[active'[id]].stage \in {"save", "prepare", "commit"} /\ runs'[active'[id]].fresh

AttendedKept == \A id \in TaskIds : Attended(id) => AttendedNext(id)

LEMMA ProcessingBy ==
  ASSUME closing'.pc = "idle" =>
            /\ \A k \in DOMAIN queue' : queue'[k].st = "processing" =>
                  queue'[k].id \notin cancelling' /\ AttendedNext(queue'[k].id)
            /\ \A id \in cancelling' : AttendedNext(id)
  PROVE  Processing'
  BY DEF Processing, Attended, AttendedNext, Working

LEMMA ProcessingLess ==
  ASSUME TypeInv, Processing, AttendedKept, closing'.pc = "idle" => closing.pc = "idle",
         cancelling' \subseteq cancelling \cup Having(queue, "processing"),
         \A k \in DOMAIN queue' : queue'[k].st = "processing" =>
            /\ \E l \in DOMAIN queue : queue[l].id = queue'[k].id /\ queue[l].st = "processing"
            /\ queue'[k].id \in cancelling' => queue'[k].id \in cancelling
  PROVE  Processing'
<1>1. queue \in Queues /\ cancelling \subseteq TaskIds
  BY DEF TypeInv, MemTyped
<1>2. ASSUME closing'.pc = "idle", NEW id,
             \E l \in DOMAIN queue : queue[l].id = id /\ queue[l].st = "processing"
      PROVE  id \notin cancelling /\ AttendedNext(id)
  <2>1. PICK l \in DOMAIN queue : queue[l].id = id /\ queue[l].st = "processing"
    BY <1>2
  <2>2. id \in TaskIds
    BY <1>1, <2>1, QueueTasks
  <2>3. queue[l].id \notin cancelling /\ Attended(queue[l].id)
    BY <1>2, <2>1 DEF Processing
  <2> QED BY <2>1, <2>2, <2>3 DEF AttendedKept
<1>3. ASSUME closing'.pc = "idle", NEW id \in cancelling' PROVE AttendedNext(id)
  <2>1. CASE id \in cancelling
    BY <1>1, <1>3, <2>1 DEF Processing, AttendedKept
  <2>2. CASE id \in Having(queue, "processing")
    <3>1. \E l \in DOMAIN queue : queue[l].id = id /\ queue[l].st = "processing"
      BY <1>1, <2>2, HavingFacts
    <3> QED BY <1>2, <1>3, <3>1
  <2> QED BY <1>3, <2>1, <2>2
<1>4. ASSUME closing'.pc = "idle", NEW k \in DOMAIN queue', queue'[k].st = "processing"
      PROVE  queue'[k].id \notin cancelling' /\ AttendedNext(queue'[k].id)
  BY <1>2, <1>4
<1> QED BY <1>3, <1>4, ProcessingBy

\* A step that leaves the queue and the notes alone.
LEMMA ProcessingSame ==
  ASSUME TypeInv, Processing, AttendedKept, closing'.pc = closing.pc,
         UNCHANGED <<queue, cancelling>>
  PROVE  Processing'
  BY ProcessingLess

LEMMA AttendedSame ==
  ASSUME TypeInv, UNCHANGED active,
         \A r \in RunIds : Working(r) => runs'[r].stage \in {"save", "prepare", "commit"}
                                         /\ runs'[r].fresh
  PROVE  AttendedKept
<1>1. active \in [TaskIds -> RunIds \cup {NoRun}]
  BY DEF TypeInv, MemTyped
<1> QED BY <1>1 DEF AttendedKept, Attended, AttendedNext, Working

\* The run r goes, and was not at work.
LEMMA AttendedLost ==
  ASSUME TypeInv, NEW r \in RunIds, Forgotten(r), ~ Working(r),
         \A x \in RunIds \ {r} : runs'[x] = runs[x]
  PROVE  AttendedKept
<1>1. active \in [TaskIds -> RunIds \cup {NoRun}]
  BY DEF TypeInv, MemTyped
<1>2. ASSUME NEW id \in TaskIds, Attended(id) PROVE AttendedNext(id)
  <2>1. active[id] \in RunIds \ {r}
    BY <1>1, <1>2 DEF Attended
  <2> QED BY <1>2, <2>1 DEF Attended, AttendedNext, Working, Forgotten
<1> QED BY <1>2 DEF AttendedKept

LEMMA ProcessingEdit ==
  ASSUME TypeInv, Processing, Edit
  PROVE  Processing'
<1>1. AttendedKept
  <2>1. /\ UNCHANGED active
        /\ \A r \in RunIds : runs'[r].stage = runs[r].stage /\ runs'[r].fresh = runs[r].fresh
    BY DEF Edit, Flagged
  <2> QED BY <2>1, AttendedSame DEF Working
<1>2. closing' = closing /\ Tracked
  BY DEF Edit, switch
<1>3. cancelling' \subseteq cancelling \cup Having(queue, "processing")
  BY <1>2 DEF Tracked
<1>4. ASSUME NEW k \in DOMAIN queue', queue'[k].st = "processing"
      PROVE  /\ \E l \in DOMAIN queue : queue[l].id = queue'[k].id /\ queue[l].st = "processing"
             /\ queue'[k].id \in cancelling' => queue'[k].id \in cancelling
  BY <1>2, <1>4 DEF Tracked
<1> QED BY <1>1, <1>2, <1>3, <1>4, ProcessingLess

LEMMA ProcessingFails ==
  ASSUME TypeInv, Processing, NEW i \in SchedIds, Impossible(i)
  PROVE  Processing'
<1>1. AttendedKept
  BY AttendedSame DEF Impossible, Working
<1>2. closing' = closing /\ cancelling' = cancelling
      /\ OwnSet(scheds[i].own, scheds[i].task, "failed")
  BY DEF Impossible, switch
<1>3. ASSUME NEW k \in DOMAIN queue', queue'[k].st = "processing"
      PROVE  /\ \E l \in DOMAIN queue : queue[l].id = queue'[k].id /\ queue[l].st = "processing"
             /\ queue'[k].id \in cancelling' => queue'[k].id \in cancelling
  BY <1>2, <1>3 DEF OwnSet
<1> QED BY <1>1, <1>2, <1>3, ProcessingLess

LEMMA ProcessingStarts ==
  ASSUME TypeInv, Calm, Processing, NEW i \in SchedIds, NEW r \in RunIds,
         Starts(i, r, scheds[i].task)
  PROVE  Processing'
<1> DEFINE t == scheds[i].task
<1>1. /\ scheds[i].pc = "registry" /\ t \in TaskIds /\ runs[r].stage = "none"
      /\ runs'[r].stage = "save" /\ runs'[r].fresh
      /\ \A x \in RunIds \ {r} : runs'[x] = runs[x]
  BY DEF Starts
<1>2. /\ active' = [active EXCEPT ![t] = r] /\ cancelling' = cancelling /\ closing' = closing
      /\ OwnSet(scheds[i].own, t, "processing")
  BY DEF Starts, switch
<1>3. scheds[i].own /\ active[t] = NoRun /\ closing.pc = "idle"
  <2>1. Ready
    BY <1>1, SchedReady DEF Calm
  <2>2. scheds[i].pc # "none"
    BY <1>1
  <2> QED BY <1>1, <2>1, <2>2 DEF Calm, OneSched, Ready, Switching
<1>4. active \in [TaskIds -> RunIds \cup {NoRun}] /\ queue \in Queues /\ cancelling \subseteq TaskIds
      /\ NoRun \notin RunIds
  BY QueueAssumption DEF TypeInv, MemTyped, NoRun
<1> HIDE DEF t
<1>5. AttendedNext(t)
  BY <1>1, <1>2, <1>4 DEF AttendedNext
<1>6. ASSUME NEW id \in TaskIds, Attended(id) PROVE AttendedNext(id) /\ id # t
  <2>1. id # t
    BY <1>3, <1>6 DEF Attended
  <2>2. active'[id] = active[id] /\ active[id] \in RunIds
    BY <1>2, <1>4, <1>6, <2>1 DEF Attended
  <2>3. active[id] # r
    BY <1>1, <1>6 DEF Attended, Working
  <2> QED BY <1>1, <1>6, <2>1, <2>2, <2>3 DEF Attended, AttendedNext, Working
<1>7. ASSUME NEW id \in cancelling PROVE AttendedNext(id) /\ id # t
  BY <1>3, <1>4, <1>6, <1>7 DEF Processing
<1>8. ASSUME NEW k \in DOMAIN queue', queue'[k].st = "processing"
      PROVE  queue'[k].id \notin cancelling' /\ AttendedNext(queue'[k].id)
  <2>1. k \in DOMAIN queue /\ queue'[k].id = queue[k].id
        /\ (queue[k].id = t \/ queue[k].st = "processing") /\ queue[k].id \in TaskIds
    BY <1>2, <1>4, <1>8, QueueTasks DEF OwnSet
  <2>2. CASE queue[k].id = t
    BY <1>2, <1>5, <1>7, <2>1, <2>2
  <2>3. CASE queue[k].st = "processing"
    BY <1>2, <1>3, <1>6, <2>1, <2>3 DEF Processing
  <2> QED BY <2>1, <2>2, <2>3
<1> QED BY <1>2, <1>7, <1>8, ProcessingBy

LEMMA ProcessingEnds ==
  ASSUME TypeInv, Calm, Processing, NEW r \in RunIds, Finishes(r)
  PROVE  Processing'
<1> DEFINE t == runs[r].task
<1>1. /\ Ready /\ active[t] = r /\ runs[r].own /\ t \in TaskIds
  BY EndReady DEF Fresh, Calm, TypeInv, RunsTyped, Run
<1>2. /\ UNCHANGED active /\ closing' = closing /\ cancelling' = cancelling \ {t}
      /\ \A x \in RunIds \ {r} : runs'[x].stage = runs[x].stage /\ runs'[x].fresh = runs[x].fresh
      /\ Decided(r)
  BY DEF Finishes, Flagged, Decided, switch
<1>3. closing.pc = "idle"
  BY <1>1 DEF Ready, Switching
<1>4. active \in [TaskIds -> RunIds \cup {NoRun}] /\ queue \in Queues /\ cancelling \subseteq TaskIds
  BY DEF TypeInv, MemTyped
<1>5. ASSUME NEW id \in TaskIds, Attended(id), id # t PROVE AttendedNext(id)
  <2>1. active[id] \in RunIds /\ runs[active[id]].task = id
    BY <1>4, <1>5 DEF Attended, Calm, ActiveRuns
  <2>2. active[id] # r
    BY <1>5, <2>1
  <2> QED BY <1>2, <1>5, <2>1, <2>2 DEF Attended, AttendedNext, Working
<1>6. ASSUME NEW id \in cancelling' PROVE AttendedNext(id)
  <2>1. id \in cancelling /\ id # t /\ id \in TaskIds
    BY <1>2, <1>4, <1>6
  <2>2. Attended(id)
    BY <1>3, <2>1 DEF Processing
  <2> QED BY <1>5, <2>1, <2>2
<1>7. ASSUME NEW k \in DOMAIN queue', queue'[k].st = "processing"
      PROVE  queue'[k].id \notin cancelling' /\ AttendedNext(queue'[k].id)
  <2>1. PICK l \in DOMAIN queue : /\ queue[l].id = queue'[k].id /\ queue[l].st = "processing"
                                  /\ queue[l].id = t => t \in cancelling
    BY <1>1, <1>2, <1>7 DEF Decided
  <2>2. queue[l].id \notin cancelling /\ Attended(queue[l].id) /\ queue[l].id \in TaskIds
    BY <1>3, <1>4, <2>1, QueueTasks DEF Processing
  <2>3. queue[l].id # t
    BY <2>1, <2>2
  <2> QED BY <1>2, <1>5, <2>1, <2>2, <2>3
<1> QED BY <1>6, <1>7, ProcessingBy

LEMMA ProcessingWork ==
  ASSUME TypeInv, Alone, Calm, Processing, AtWork
  PROVE  Processing'
<1>1. CASE Edit
  BY <1>1, ProcessingEdit
<1>2. CASE Nudge \/ CallSaved \/ (\E p \in Projects : Asks(p)) \/ Imports \/ ImportSaved
  <2>1. UNCHANGED <<queue, cancelling, active, runs, closing>>
    BY <1>2 DEF Nudge, CallSaved, Asks, Imports, ImportSaved, mem, switch
  <2> QED BY <2>1, AttendedSame, ProcessingSame DEF Working
<1>3. ASSUME NEW i \in SchedIds, Impossible(i) \/ ImpossibleSaved(i) PROVE Processing'
  <2>1. CASE ImpossibleSaved(i)
    <3>1. UNCHANGED <<queue, cancelling, active, runs, closing>>
      BY <2>1 DEF ImpossibleSaved, mem, switch
    <3> QED BY <3>1, AttendedSame, ProcessingSame DEF Working
  <2> QED BY <1>3, <2>1, ProcessingFails
<1>4. ASSUME NEW i \in SchedIds, StartSaved(i, scheds[i].run) PROVE Processing'
  <2> DEFINE r == scheds[i].run
  <2>1. /\ UNCHANGED <<queue, cancelling, active, closing>>
        /\ r \in RunIds /\ runs[r].fresh /\ RunBecomes(r, [runs[r] EXCEPT !.stage = "prepare"])
    BY <1>4, StartReady DEF StartSaved, switch
  <2> HIDE DEF r
  <2>2. runs[r] \in Run
    BY <2>1 DEF TypeInv, RunsTyped
  <2>3. runs'[r].stage = "prepare" /\ runs'[r].fresh
    BY <2>1, <2>2 DEF RunBecomes, Run
  <2>4. AttendedKept
    BY <2>1, <2>3, AttendedSame DEF RunBecomes, Working
  <2> QED BY <2>1, <2>4, ProcessingSame
<1>5. ASSUME NEW i \in SchedIds, NEW r \in RunIds, Starts(i, r, scheds[i].task)
      PROVE  Processing'
  BY <1>5, ProcessingStarts
<1>6. ASSUME NEW r \in RunIds, Begins(r) PROVE Processing'
  <2>1. /\ UNCHANGED <<queue, cancelling, active, closing>>
        /\ RunBecomes(r, [runs[r] EXCEPT !.stage = "commit"])
    BY <1>6 DEF Begins, mem, switch
  <2>2. runs[r] \in Run
    BY DEF TypeInv, RunsTyped
  <2>3. runs'[r].stage = "commit" /\ runs'[r].fresh = runs[r].fresh
    BY <2>1, <2>2 DEF RunBecomes, Run
  <2>4. AttendedKept
    BY <2>1, <2>3, AttendedSame DEF RunBecomes, Working
  <2> QED BY <2>1, <2>4, ProcessingSame
<1>7. ASSUME NEW r \in RunIds, Ignored(r) \/ RunSaved(r) PROVE Processing'
  <2>1. /\ UNCHANGED <<queue, cancelling>> /\ closing'.pc = closing.pc
        /\ Forgotten(r) /\ \A x \in RunIds \ {r} : runs'[x] = runs[x]
    BY <1>7 DEF Ignored, RunSaved, Awaited, RunBecomes
  <2>2. ~ Working(r)
    <3>1. CASE Ignored(r)
      <4>1. Live(r) /\ RunStale(r)
        BY <3>1 DEF Ignored, Live
      <4> QED BY <4>1, RunReady DEF Calm, Working, RunStale, Fresh
    <3>2. CASE RunSaved(r)
      <4>1. RunDue(r)
        BY <3>2 DEF RunSaved, Landed, RunDue, Due
      <4> QED BY <4>1 DEF Calm, RunWrites, Working
    <3> QED BY <1>7, <3>1, <3>2
  <2> QED BY <2>1, <2>2, AttendedLost, ProcessingSame
<1>8. ASSUME NEW r \in RunIds, Finishes(r) PROVE Processing'
  BY <1>8, ProcessingEnds
<1> QED BY <1>1, <1>2, <1>3, <1>4, <1>5, <1>6, <1>7, <1>8 DEF AtWork

LEMMA ProcessingNext ==
  ASSUME SwitchInv, Alone, Calm, Processing, CalmStep
  PROVE  Processing'
<1>0. TypeInv /\ Phases /\ Loading
  BY DEF SwitchInv
<1>1. CASE AtWork
  BY <1>0, <1>1, ProcessingWork
<1>2. CASE Pauses \/ Flushes \/ (CloseSaved /\ FlushedAgain)
  <2>1. closing'.pc \in {"commits", "save1"} \/ closing' = [closing EXCEPT !.pc = "save2"]
    BY <1>2 DEF Pauses, Flushes, Flushed, FlushedAgain
  <2>2. closing'.pc # "idle"
    BY <1>0, <2>1 DEF TypeInv, SwitchTyped
  <2> QED BY <2>2, ProcessingBy
<1>3. CASE Wiped \/ Crashes \/ \E p \in Projects : Opens(p)
  <2>1. queue' = << >> /\ cancelling' = {}
    BY <1>3 DEF Wiped, Crashes, Opens
  <2> QED BY <2>1, ProcessingBy
<1>4. CASE OpenSaved
  <2>1. UNCHANGED <<queue, cancelling, active, runs, closing>>
    BY <1>4 DEF OpenSaved, mem
  <2> QED BY <1>0, <2>1, AttendedSame, ProcessingSame DEF Working
<1>5. CASE Loaded
  <2>1. opening.pc = "load" /\ UNCHANGED <<cancelling, active, closing>>
    BY <1>5 DEF Loaded
  <2>2. closing.pc = "idle" /\ \A r \in RunIds : ~ runs[r].fresh
    BY <1>0, <2>1 DEF Phases, Loading
  <2>3. cancelling = {}
    <3>1. ASSUME NEW id \in cancelling PROVE FALSE
      <4>1. active[id] \in RunIds
        BY <1>0, <2>2 DEF Processing, Attended, TypeInv, MemTyped
      <4> QED BY <2>2, <4>1 DEF Processing, Attended, Working
    <3> QED BY <3>1
  <2>4. CASE UNCHANGED <<queue, runs>>
    BY <1>0, <2>1, <2>4, AttendedSame, ProcessingSame DEF Working
  <2>5. CASE Loads
    BY <2>1, <2>3, <2>5, ProcessingBy DEF Loads
  <2> QED BY <1>5, <2>4, <2>5 DEF Loaded
<1> QED BY <1>1, <1>2, <1>3, <1>4, <1>5 DEF CalmStep, CloseSaved

-----------------------------------------------------------------------------
(* The number of runs keeps to the limit *)

Busy == {id \in TaskIds : active[id] # NoRun}

\* The limit that the number of runs keeps to, however it is changed.
Cap == IF "limit" \in Calls THEN 5 ELSE limit

Workers ==
    /\ Cardinality(Busy) <= Cap
    /\ (\E i \in SchedIds : scheds[i].pc = "registry") => Cardinality(Busy) < Cap

LEMMA BusyFinite == IsFiniteSet(Busy) /\ Cardinality(Busy) \in Nat
  BY QueueAssumption, FS_Subset, FS_CardinalityType DEF Busy

LEMMA CapFacts ==
  ASSUME TypeInv
  PROVE  Cap \in Nat /\ limit <= Cap /\ limit \in Nat
  BY QueueAssumption DEF Cap, TypeInv, MemTyped

\* The number of runs after the step.
LEMMA BusyCount == Cardinality(Busy)' = ActiveCount
  BY DEF Busy, ActiveCount

LEMMA FewerBusy ==
  ASSUME TypeInv, Fewer
  PROVE  ActiveCount \in Nat /\ ActiveCount <= Cardinality(Busy)
<1> DEFINE S == {id \in TaskIds : active'[id] # NoRun}
<1>1. S \subseteq Busy
  BY DEF Fewer, Busy
<1>2. IsFiniteSet(Busy)
  BY BusyFinite
<1> HIDE DEF S
<1>3. IsFiniteSet(S) /\ Cardinality(S) <= Cardinality(Busy)
  BY <1>1, <1>2, FS_Subset
<1>4. Cardinality(S) \in Nat
  BY <1>3, FS_CardinalityType
<1> QED BY <1>3, <1>4 DEF ActiveCount, S

\* No run begins, and a task is looked up only when there is a worker for it.
LEMMA WorkersFewer ==
  ASSUME TypeInv, TypeInv', Workers, Fewer, "limit" \in Calls \/ UNCHANGED limit,
         (\E i \in SchedIds : scheds'[i].pc = "registry")
            => (\E i \in SchedIds : scheds[i].pc = "registry") \/ ActiveCount < limit'
  PROVE  Workers'
<1>1. Cap \in Nat /\ limit \in Nat /\ Cardinality(Busy) \in Nat
  BY CapFacts, BusyFinite
<1>2. Cap' = Cap
  BY DEF Cap
<1>3. limit' \in Nat /\ limit' <= Cap
  <2>1. limit' \in Limits
    BY DEF TypeInv, MemTyped
  <2>2. limit' \in 1..5
    BY <2>1, QueueAssumption
  <2> QED BY <2>2, <1>1 DEF Cap
<1>4. ActiveCount \in Nat /\ ActiveCount <= Cardinality(Busy)
  BY FewerBusy
<1>5. Cardinality(Busy) <= Cap
      /\ ((\E i \in SchedIds : scheds[i].pc = "registry") => Cardinality(Busy) < Cap)
  BY DEF Workers
<1>6. ActiveCount <= Cap
  BY <1>1, <1>4, <1>5
<1>7. (\E i \in SchedIds : scheds'[i].pc = "registry") => ActiveCount < Cap
  <2>1. CASE \E i \in SchedIds : scheds[i].pc = "registry"
    BY <1>1, <1>4, <1>5, <2>1
  <2>2. CASE ActiveCount < limit'
    BY <1>1, <1>3, <1>4, <2>2
  <2> QED BY <2>1, <2>2
<1>8. Cardinality(Busy') = ActiveCount
  BY DEF Busy, ActiveCount
<1> QED BY <1>2, <1>6, <1>7, <1>8 DEF Workers

LEMMA RescheduledLooks ==
  ASSUME TypeInv, Rescheduled
  PROVE  (\E i \in SchedIds : scheds'[i].pc = "registry")
            => (\E i \in SchedIds : scheds[i].pc = "registry") \/ ActiveCount < limit'
<1>1. scheds \in [SchedIds -> Sched]
  BY DEF TypeInv, SchedTyped
<1>2. CASE UNCHANGED scheds
  BY <1>2
<1>3. ASSUME NEW i \in SchedIds, NEW p \in Projects, LooksUp(i, p) PROVE ActiveCount < limit'
  BY <1>3 DEF LooksUp
<1>4. ASSUME NEW i \in SchedIds, NEW p \in Projects, Stops(i, p)
      PROVE  \A j \in SchedIds : scheds'[j].pc = "registry" => scheds[j].pc = "registry"
  <2>1. scheds' = [scheds EXCEPT ![i] = FreeSched]
    BY <1>4 DEF Stops
  <2> QED BY <1>1, <2>1 DEF FreeSched
<1> QED BY <1>2, <1>3, <1>4 DEF Rescheduled

LEMMA WorkersSame ==
  ASSUME TypeInv, TypeInv', Workers, Fewer, Rescheduled, UNCHANGED limit
  PROVE  Workers'
  BY WorkersFewer, RescheduledLooks

LEMMA WorkersStarts ==
  ASSUME TypeInv, Calm, Workers, NEW i \in SchedIds, NEW r \in RunIds,
         Starts(i, r, scheds[i].task)
  PROVE  Workers'
<1> DEFINE t == scheds[i].task
<1>1. /\ scheds[i].pc = "registry" /\ t \in TaskIds
      /\ active' = [active EXCEPT ![t] = r] /\ limit' = limit
      /\ scheds' = [scheds EXCEPT ![i].pc = "start", ![i].run = r]
  BY DEF Starts
<1> HIDE DEF t
<1>2. /\ active \in [TaskIds -> RunIds \cup {NoRun}] /\ scheds \in [SchedIds -> Sched]
      /\ NoRun \notin RunIds
  BY QueueAssumption DEF TypeInv, MemTyped, SchedTyped, NoRun
<1>3. Cap \in Nat /\ Cardinality(Busy) \in Nat /\ IsFiniteSet(Busy)
  BY CapFacts, BusyFinite
<1>4. Cardinality(Busy) < Cap
  BY <1>1 DEF Workers
<1>5. Busy' = Busy \cup {t}
  BY <1>1, <1>2 DEF Busy
<1>6. Cardinality(Busy') <= Cardinality(Busy) + 1 /\ Cardinality(Busy') \in Nat
  <2>1. Cardinality(Busy \cup {t}) = IF t \in Busy THEN Cardinality(Busy) ELSE Cardinality(Busy) + 1
    BY <1>3, FS_AddElement
  <2> QED BY <1>3, <1>5, <2>1
<1>7. Cap' = Cap
  BY <1>1 DEF Cap
<1>8. \A j \in SchedIds : scheds'[j].pc # "registry"
  <2>1. scheds[i].pc # "none"
    BY <1>1
  <2>2. ASSUME NEW j \in SchedIds, j # i PROVE scheds'[j].pc = "none"
    <3>1. scheds[j].pc = "none"
      BY <2>1, <2>2 DEF Calm, OneSched
    <3> QED BY <1>1, <1>2, <2>2, <3>1
  <2>3. scheds'[i].pc = "start"
    BY <1>1, <1>2 DEF Sched
  <2> QED BY <2>2, <2>3
<1> QED BY <1>3, <1>4, <1>6, <1>7, <1>8 DEF Workers

LEMMA WorkersWork ==
  ASSUME TypeInv, TypeInv', Alone, Calm, Workers, AtWork
  PROVE  Workers'
<1>0. queue \in Queues /\ cur \in Projects \cup {NoProject}
  BY DEF TypeInv, MemTyped
<1>00. queue' \in Queues
  BY DEF TypeInv, MemTyped
<1>1. CASE Edit \/ (\E p \in Projects : Asks(p)) \/ Imports \/ ImportSaved
  <2>1. UNCHANGED <<active, limit, scheds>>
    BY <1>1 DEF Edit, Asks, Imports, ImportSaved, mem, sched
  <2> QED BY <2>1, WorkersSame DEF Fewer, Rescheduled
<1>2. CASE Nudge
  <2>1. UNCHANGED active /\ ("limit" \in Calls \/ UNCHANGED limit)
    BY <1>2 DEF Nudge
  <2>2. Kick(cur) \/ UNCHANGED scheds
    BY <1>2 DEF Nudge, sched
  <2>3. Rescheduled
    BY <1>0, <1>00, <2>2, KickReschedules DEF Rescheduled
  <2> QED BY <2>1, <2>3, RescheduledLooks, WorkersFewer DEF Fewer
<1>3. CASE CallSaved
  <2>1. UNCHANGED <<active, limit>> /\ (Kick(cur) \/ UNCHANGED scheds)
    BY <1>3 DEF CallSaved, mem, sched
  <2>2. Rescheduled
    BY <1>0, <1>00, <2>1, KickReschedules DEF Rescheduled
  <2> QED BY <2>1, <2>2, WorkersSame DEF Fewer
<1>4. ASSUME NEW i \in SchedIds, Impossible(i) PROVE Workers'
  <2>1. UNCHANGED <<active, limit>> /\ scheds' = [scheds EXCEPT ![i].pc = "failed"]
        /\ scheds \in [SchedIds -> Sched]
    BY <1>4 DEF Impossible, TypeInv, SchedTyped
  <2>2. \A j \in SchedIds : scheds'[j].pc = "registry" => scheds[j].pc = "registry"
    BY <2>1 DEF Sched
  <2> QED BY <2>1, <2>2, WorkersFewer DEF Fewer
<1>5. ASSUME NEW i \in SchedIds, ImpossibleSaved(i) \/ StartSaved(i, scheds[i].run)
      PROVE  Workers'
  <2>1. UNCHANGED <<active, limit>> /\ GoOn(i)
    BY <1>5, StartReady DEF ImpossibleSaved, StartSaved, mem
  <2>2. Rescheduled
    BY <1>00, <2>1, GoOnReschedules
  <2> QED BY <2>1, <2>2, WorkersSame DEF Fewer
<1>6. ASSUME NEW i \in SchedIds, NEW r \in RunIds, Starts(i, r, scheds[i].task) PROVE Workers'
  BY <1>6, WorkersStarts
<1>7. ASSUME NEW r \in RunIds, Begins(r) \/ Finishes(r) PROVE Workers'
  <2>1. UNCHANGED <<active, limit, scheds>>
    BY <1>7 DEF Begins, Finishes, mem, sched
  <2> QED BY <2>1, WorkersSame DEF Fewer, Rescheduled
<1>8. ASSUME NEW r \in RunIds, Ignored(r) \/ RunSaved(r) PROVE Workers'
  <2>1. UNCHANGED limit /\ Forgotten(r)
    BY <1>8 DEF Ignored, RunSaved
  <2>2. Fewer
    BY <2>1 DEF Fewer, Forgotten
  <2>3. UNCHANGED scheds \/ Kick(runs[r].proj)
    BY <1>8 DEF Ignored, RunSaved, sched
  <2>4. runs[r].proj \in Projects
    BY DEF TypeInv, RunsTyped, Run
  <2>5. Rescheduled
    BY <1>00, <2>3, <2>4, KickReschedules DEF Rescheduled
  <2> QED BY <2>1, <2>2, <2>5, WorkersSame
<1> QED BY <1>1, <1>2, <1>3, <1>4, <1>5, <1>6, <1>7, <1>8 DEF AtWork

LEMMA WorkersNext ==
  ASSUME SwitchInv, TypeInv', Alone, Calm, Workers, CalmStep
  PROVE  Workers'
<1>0. TypeInv /\ queue' \in Queues
  BY DEF SwitchInv, TypeInv, MemTyped
<1>1. CASE AtWork
  BY <1>0, <1>1, WorkersWork
<1>2. CASE CloseSaved \/ Pauses \/ Flushes \/ Loaded \/ \E p \in Projects : Opens(p)
  <2>1. UNCHANGED limit /\ (UNCHANGED active \/ active' = [id \in TaskIds |-> NoRun])
    BY <1>2 DEF CloseSaved, Pauses, Flushes, Loaded, Opens, Flushed
  <2>2. \A i \in SchedIds : scheds'[i].pc = scheds[i].pc
    BY <1>2 DEF CloseSaved, Pauses, Flushes, Loaded, Loads, Opens, OutOfDate, sched
  <2> QED BY <1>0, <2>1, <2>2, WorkersFewer DEF Fewer
<1>3. CASE OpenSaved
  <2>1. UNCHANGED <<limit, active>> /\ (UNCHANGED scheds \/ Kick(opening.proj))
    BY <1>3 DEF OpenSaved, mem, sched
  <2>2. opening.proj \in Projects
    BY <1>0 DEF TypeInv, SwitchTyped
  <2>3. Rescheduled
    BY <1>0, <2>1, <2>2, KickReschedules DEF Rescheduled
  <2> QED BY <1>0, <2>1, <2>3, WorkersSame DEF Fewer
<1>4. CASE Crashes
  <2>1. UNCHANGED limit /\ active' = [id \in TaskIds |-> NoRun]
        /\ \A i \in SchedIds : scheds'[i].pc = "none"
    BY <1>4 DEF Crashes, FreeSched
  <2> QED BY <1>0, <2>1, WorkersFewer DEF Fewer
<1> QED BY <1>1, <1>2, <1>3, <1>4 DEF CalmStep

-----------------------------------------------------------------------------
(* No call of processNext is lost *)

\* A call is still due, or there is no task that may run, or no worker for it.
Wakeup ==
    (/\ cur # NoProject /\ ~ paused /\ ~ Switching
     /\ NoSched /\ <<"next">> \notin Due
     /\ Cardinality(Busy) < limit)
       => \A k \in DOMAIN queue : queue[k].st = "pending" =>
             active[queue[k].id] # NoRun \/ queue[k].id \in restored

LEMMA WakeupBy ==
  ASSUME (/\ cur' # NoProject /\ ~ paused' /\ closing'.pc = "idle" /\ opening'.pc = "idle"
          /\ (\A i \in SchedIds : scheds'[i].pc = "none") /\ <<"next">> \notin Due'
          /\ ActiveCount < limit')
            => \A k \in DOMAIN queue' : queue'[k].st = "pending" =>
                  active'[queue'[k].id] # NoRun \/ queue'[k].id \in restored'
  PROVE  Wakeup'
<1>1. Cardinality(Busy') = ActiveCount
  BY DEF Busy, ActiveCount
<1> QED BY <1>1 DEF Wakeup, Switching, NoSched

\* processNext has looked at the tasks of the open project.
LEMMA WakeupLoop ==
  ASSUME TypeInv, OwnProject', cur \in Projects, cur' = cur, NEW i \in SchedIds,
         LooksUp(i, cur) \/ Stops(i, cur)
  PROVE  Wakeup'
<1>1. scheds \in [SchedIds -> Sched]
  BY DEF TypeInv, SchedTyped
<1>2. CASE LooksUp(i, cur)
  <2>1. scheds'[i].pc = "registry"
    BY <1>1, <1>2 DEF LooksUp, Waiting
  <2> QED BY <2>1, WakeupBy
<1>3. CASE Stops(i, cur)
  <2>1. ASSUME ActiveCount < limit', ~ paused' PROVE Runnable(cur) = {}
    BY <1>3, <2>1 DEF Stops
  <2>2. \A k \in DOMAIN queue' : queue'[k].proj = cur
    BY DEF OwnProject
  <2>3. ASSUME NEW k \in DOMAIN queue', queue'[k].st = "pending", Runnable(cur) = {}
        PROVE  active'[queue'[k].id] # NoRun \/ queue'[k].id \in restored'
    BY <2>2, <2>3 DEF Runnable
  <2> QED BY <2>1, <2>3, WakeupBy
<1> QED BY <1>2, <1>3

LEMMA WakeupKick ==
  ASSUME TypeInv, OneSched, OwnProject', queue' \in Queues, Kick(cur), cur' = cur
  PROVE  Wakeup'
<1>1. CASE UNCHANGED sched /\ (~ NoSched \/ cur = NoProject \/ paused')
  BY <1>1, WakeupBy DEF sched, NoSched
<1>2. CASE cur \in Projects /\ \E i \in SchedIds : LooksUp(i, cur) \/ Stops(i, cur)
  BY <1>2, WakeupLoop
<1> QED BY <1>1, <1>2, KickCalls

LEMMA WakeupGoOn ==
  ASSUME TypeInv, OneSched, OwnProject', queue' \in Queues, NEW i \in SchedIds,
         scheds[i].pc # "none", GoOn(i), cur' = cur
  PROVE  Wakeup'
<1>1. SchedTyped /\ scheds[i].proj = cur
  BY DEF TypeInv, OneSched
<1>2. cur \in Projects /\ (LooksUp(i, cur) \/ Stops(i, cur))
  <2>1. LET p == scheds[i].proj IN
        p \in Projects /\ ((LooksUp(i, p) /\ UNCHANGED scheduling) \/ Stops(i, p))
    BY <1>1, GoOnFacts
  <2> QED BY <1>1, <2>1
<1> QED BY <1>2, WakeupLoop

\* No task may run that could not before, and no call is taken away.
LEMMA WakeupLess ==
  ASSUME TypeInv, Wakeup, UNCHANGED <<active, limit, scheds>>, cur' = cur,
         closing'.pc = closing.pc, opening'.pc = opening.pc,
         <<"next">> \in Due => <<"next">> \in Due',
         \A k \in DOMAIN queue' : queue'[k].st = "pending" /\ queue'[k].id \notin restored' =>
            \/ paused' \/ active[queue'[k].id] # NoRun
            \/ ~ paused /\ \E l \in DOMAIN queue : /\ queue[l].id = queue'[k].id
                                                   /\ queue[l].st = "pending"
                                                   /\ queue[l].id \notin restored
  PROVE  Wakeup'
<1>1. ActiveCount = Cardinality(Busy)
  BY DEF ActiveCount, Busy
<1>2. ASSUME cur' # NoProject, ~ paused', closing'.pc = "idle", opening'.pc = "idle",
             \A i \in SchedIds : scheds'[i].pc = "none", <<"next">> \notin Due',
             ActiveCount < limit', NEW k \in DOMAIN queue', queue'[k].st = "pending",
             queue'[k].id \notin restored', active'[queue'[k].id] = NoRun
      PROVE  FALSE
  <2>1. PICK l \in DOMAIN queue : /\ queue[l].id = queue'[k].id /\ queue[l].st = "pending"
                                  /\ queue[l].id \notin restored /\ ~ paused
    BY <1>2
  <2>2. active[queue[l].id] = NoRun
    BY <1>2, <2>1
  <2>3. cur # NoProject /\ ~ Switching /\ NoSched /\ <<"next">> \notin Due
        /\ Cardinality(Busy) < limit
    BY <1>1, <1>2 DEF Switching, NoSched
  <2> QED BY <2>1, <2>2, <2>3 DEF Wakeup
<1> QED BY <1>2, WakeupBy

LEMMA WakeupEdit ==
  ASSUME TypeInv, Wakeup, Edit
  PROVE  Wakeup'
<1>1. /\ UNCHANGED <<cur, active, limit, scheds>> /\ closing' = closing /\ opening' = opening
      /\ \/ Saved(writes, cur, <<"next">>)
         \/ (Saved(writes, cur, <<"none">>) \/ UNCHANGED writes) /\ (paused' \/ NoneFreed)
  BY DEF Edit, sched, switch
<1>2. CASE Saved(writes, cur, <<"next">>)
  <2>1. <<"next">> \in Due'
    BY <1>2, DueSaved
  <2> QED BY <2>1, WakeupBy
<1>3. CASE (Saved(writes, cur, <<"none">>) \/ UNCHANGED writes) /\ (paused' \/ NoneFreed)
  <2>1. Due \subseteq Due'
    BY <1>3, DueSaved DEF Due
  <2> QED BY <1>1, <1>3, <2>1, WakeupLess DEF NoneFreed
<1> QED BY <1>1, <1>2, <1>3

LEMMA WakeupEnds ==
  ASSUME TypeInv, Calm, Wakeup, NEW r \in RunIds, Finishes(r)
  PROVE  Wakeup'
<1> DEFINE t == runs[r].task
<1>1. /\ active[t] = r /\ NoRun \notin RunIds
  BY EndReady, QueueAssumption DEF Fresh, Calm, NoRun
<1>2. /\ UNCHANGED <<cur, active, limit, scheds, restored>>
      /\ closing' = closing /\ opening' = opening /\ Decided(r) /\ (paused => paused')
  BY DEF Finishes, switch
<1>3. Due \subseteq Due'
  BY DueSaved DEF Finishes
<1>4. ASSUME NEW k \in DOMAIN queue', queue'[k].st = "pending", queue'[k].id \notin restored'
      PROVE  \/ paused' \/ active[queue'[k].id] # NoRun
             \/ ~ paused /\ \E l \in DOMAIN queue : /\ queue[l].id = queue'[k].id
                                                    /\ queue[l].st = "pending"
                                                    /\ queue[l].id \notin restored
  <2>1. PICK l \in DOMAIN queue : /\ queue[l].id = queue'[k].id
                                  /\ paused' \/ queue[l].id = t \/ queue[l].st = "pending"
    BY <1>2, <1>4 DEF Decided
  <2> QED BY <1>1, <1>2, <1>4, <2>1
<1> QED BY <1>2, <1>3, <1>4, WakeupLess

\* The run of an earlier session has no place in activeRuns any more.
LEMMA WakeupIgnored ==
  ASSUME TypeInv, Calm, Wakeup, NEW r \in RunIds, Ignored(r)
  PROVE  Wakeup'
<1>1. /\ UNCHANGED <<cur, queue, restored, paused, limit, scheds, writes>>
      /\ closing'.pc = closing.pc /\ opening' = opening /\ Forgotten(r)
  BY DEF Ignored, Awaited, sched
<1>2. CASE Switching
  BY <1>1, <1>2, WakeupBy DEF Switching
<1>3. CASE ~ Switching
  <2>1. Live(r) /\ ~ runs[r].fresh
    <3>1. Live(r) /\ RunStale(r)
      BY DEF Ignored, Live
    <3> QED BY <3>1, RunReady DEF Calm, RunStale, Fresh
  <2>2. \A id \in TaskIds : active[id] # r
    BY <1>3, <2>1, QueueAssumption DEF Calm, ActiveRuns, Switching, NoRun
  <2>3. active' = active
    BY <1>1, <2>2 DEF Forgotten, TypeInv, MemTyped
  <2>4. Due' = Due
    BY <1>1 DEF Due
  <2> QED BY <1>1, <2>3, <2>4, WakeupLess
<1> QED BY <1>2, <1>3

LEMMA WakeupWork ==
  ASSUME TypeInv, Alone, Calm, Wakeup, OwnProject', queue' \in Queues, AtWork
  PROVE  Wakeup'
<1>0. OneSched /\ scheds \in [SchedIds -> Sched]
  BY DEF Calm, TypeInv, SchedTyped
<1>1. CASE Edit
  BY <1>1, WakeupEdit
<1>2. CASE Nudge
  <2>1. cur' = cur
    BY <1>2 DEF Nudge
  <2>2. CASE Kick(cur)
    BY <1>0, <2>1, <2>2, WakeupKick
  <2>3. CASE UNCHANGED <<sched, paused, restored, limit>>
    <3>1. UNCHANGED <<queue, active, limit, scheds, restored, paused, closing, opening, writes>>
      BY <1>2, <2>3 DEF Nudge, sched, switch
    <3>2. Due' = Due
      BY <3>1 DEF Due
    <3> QED BY <2>1, <3>1, <3>2, WakeupLess
  <2> QED BY <1>2, <2>2, <2>3 DEF Nudge
<1>3. CASE CallSaved
  <2>1. UNCHANGED <<cur, queue, active, limit, restored, paused, closing, opening>>
        /\ Landed /\ Popped
    BY <1>3 DEF CallSaved, mem, switch
  <2>2. CASE Kick(cur)
    BY <1>0, <2>1, <2>2, WakeupKick
  <2>3. CASE writes[1].k = <<"none">> /\ UNCHANGED sched
    <3>1. <<"next">> \in Due => <<"next">> \in Due'
      <4>1. <<"none">> # <<"next">>
        BY KindsDiffer
      <4> QED BY <2>1, <2>3, <4>1, DuePopped
    <3>2. UNCHANGED scheds
      BY <2>3 DEF sched
    <3> QED BY <2>1, <3>1, <3>2, WakeupLess
  <2> QED BY <1>3, <2>2, <2>3 DEF CallSaved
<1>4. ASSUME NEW i \in SchedIds, Impossible(i) \/ \E r \in RunIds : Starts(i, r, scheds[i].task)
      PROVE  Wakeup'
  <2>1. scheds'[i].pc # "none"
    BY <1>0, <1>4 DEF Impossible, Starts, Sched
  <2> QED BY <2>1, WakeupBy
<1>5. ASSUME NEW i \in SchedIds, ImpossibleSaved(i) \/ StartSaved(i, scheds[i].run)
      PROVE  Wakeup'
  <2>1. cur' = cur /\ GoOn(i) /\ scheds[i].pc # "none"
    BY <1>5 DEF ImpossibleSaved, StartSaved, mem
  <2> QED BY <1>0, <2>1, WakeupGoOn
<1>6. CASE (\E r \in RunIds : Begins(r)) \/ (\E p \in Projects : Asks(p)) \/ Imports \/ ImportSaved
  <2>1. /\ UNCHANGED <<cur, queue, active, limit, scheds, restored, paused, closing, writes>>
        /\ opening' = opening \/ opening' = [opening EXCEPT !.waits = FALSE]
    BY <1>6 DEF Begins, Asks, Imports, ImportSaved, mem, sched, switch
  <2>2. Due' = Due /\ opening'.pc = opening.pc
    BY <2>1 DEF Due, TypeInv, SwitchTyped
  <2> QED BY <2>1, <2>2, WakeupLess
<1>7. ASSUME NEW r \in RunIds, Ignored(r) \/ Finishes(r) PROVE Wakeup'
  BY <1>7, WakeupIgnored, WakeupEnds
<1>8. ASSUME NEW r \in RunIds, RunSaved(r) PROVE Wakeup'
  <2>1. RunDue(r)
    BY <1>8 DEF RunSaved, Landed, RunDue, Due
  <2>2. runs[r].stage = "finish"
    BY <2>1 DEF Calm, RunWrites
  <2>3. ~ RunStale(r) /\ runs[r].proj = cur
    BY <2>2, FinishReady DEF Calm, Fresh
  <2>4. Kick(cur) /\ cur' = cur
    BY <1>8, <2>3 DEF RunSaved
  <2> QED BY <1>0, <2>4, WakeupKick
<1> QED BY <1>1, <1>2, <1>3, <1>4, <1>5, <1>6, <1>7, <1>8 DEF AtWork

LEMMA WakeupNext ==
  ASSUME SwitchInv, Alone, Calm, Wakeup, OwnProject', queue' \in Queues, CalmStep
  PROVE  Wakeup'
<1>0. TypeInv /\ OneSched /\ Quiet /\ Loading /\ queue \in Queues
  BY DEF SwitchInv, Calm, TypeInv, MemTyped
<1>1. CASE AtWork
  BY <1>0, <1>1, WakeupWork
<1>2. CASE Pauses \/ Flushes \/ (CloseSaved /\ FlushedAgain)
  <2>1. closing'.pc \in {"commits", "save1"} \/ closing' = [closing EXCEPT !.pc = "save2"]
    BY <1>2 DEF Pauses, Flushes, Flushed, FlushedAgain
  <2>2. closing'.pc # "idle"
    BY <1>0, <2>1 DEF TypeInv, SwitchTyped
  <2> QED BY <2>2, WakeupBy
<1>3. CASE Wiped \/ Crashes
  <2>1. cur' = NoProject
    BY <1>3 DEF Wiped, Crashes
  <2> QED BY <2>1, WakeupBy
<1>4. CASE \E p \in Projects : Opens(p)
  <2>1. opening'.pc = "load"
    BY <1>4 DEF Opens
  <2> QED BY <2>1, WakeupBy
<1>5. CASE Loaded
  <2>1. CASE UNCHANGED queue
    <3>1. queue' = << >>
      BY <1>0, <1>5, <2>1 DEF Loaded, Loading
    <3> QED BY <3>1, WakeupBy
  <2>2. CASE Loads
    <3>1. opening'.pc = "save"
      BY <1>0, <2>2 DEF Loads, TypeInv, SwitchTyped
    <3> QED BY <3>1, WakeupBy
  <2> QED BY <1>5, <2>1, <2>2 DEF Loaded
<1>6. CASE OpenSaved
  <2>1. UNCHANGED <<cur, queue>>
    BY <1>6 DEF OpenSaved, mem
  <2>2. opening.proj = cur
    BY <1>6, OpenSavedCalm
  <2>3. CASE Kick(opening.proj)
    BY <1>0, <2>1, <2>2, <2>3, WakeupKick
  <2>4. CASE Having(queue, "pending") = {}
    <3>1. \A k \in DOMAIN queue : queue[k].st # "pending"
      BY <1>0, <2>4, HavingFacts
    <3> QED BY <2>1, <3>1, WakeupBy
  <2> QED BY <1>6, <2>3, <2>4 DEF OpenSaved
<1> QED BY <1>1, <1>2, <1>3, <1>4, <1>5, <1>6 DEF CalmStep, CloseSaved

-----------------------------------------------------------------------------
(* The output of a cancelled run is not taken *)

\* The task of a run at work is processing, cancelled or gone, and whoever
\* cancelled it left a note.
WantedRun(r) ==
    /\ \A k \in DOMAIN queue : queue[k].id = runs[r].task =>
          queue[k].st = "processing" \/ queue[k].id \in cancelling
    /\ runs[r].unwanted => runs[r].task \in cancelling
Wanted == \A r \in RunIds : Working(r) => WantedRun(r)

LEMMA WantedBy ==
  ASSUME \A r \in RunIds : runs'[r].stage \in {"save", "prepare", "commit"} /\ runs'[r].fresh =>
            /\ \A k \in DOMAIN queue' : queue'[k].id = runs'[r].task =>
                  queue'[k].st = "processing" \/ queue'[k].id \in cancelling'
            /\ runs'[r].unwanted => runs'[r].task \in cancelling'
  PROVE  Wanted'
  BY DEF Wanted, WantedRun, Working

\* No task leaves the state processing, no note is lost, no run is cancelled.
LEMMA WantedSame ==
  ASSUME TypeInv, Wanted,
         \A r \in RunIds : runs'[r].stage \in {"save", "prepare", "commit"} /\ runs'[r].fresh =>
            /\ Working(r) /\ runs'[r].task = runs[r].task /\ runs'[r].unwanted = runs[r].unwanted
            /\ runs[r].task \in cancelling => runs[r].task \in cancelling'
            /\ \A k \in DOMAIN queue' : queue'[k].id = runs[r].task =>
                  \E l \in DOMAIN queue : queue[l].id = queue'[k].id /\ queue[l].st = queue'[k].st
  PROVE  Wanted'
<1>1. ASSUME NEW r \in RunIds, runs'[r].stage \in {"save", "prepare", "commit"}, runs'[r].fresh
      PROVE  /\ \A k \in DOMAIN queue' : queue'[k].id = runs'[r].task =>
                  queue'[k].st = "processing" \/ queue'[k].id \in cancelling'
             /\ runs'[r].unwanted => runs'[r].task \in cancelling'
  <2>1. /\ WantedRun(r) /\ runs'[r].task = runs[r].task /\ runs'[r].unwanted = runs[r].unwanted
        /\ runs[r].task \in cancelling => runs[r].task \in cancelling'
    BY <1>1 DEF Wanted
  <2>2. ASSUME NEW k \in DOMAIN queue', queue'[k].id = runs[r].task
        PROVE  queue'[k].st = "processing" \/ queue'[k].id \in cancelling'
    <3>1. PICK l \in DOMAIN queue : queue[l].id = queue'[k].id /\ queue[l].st = queue'[k].st
      BY <1>1, <2>2
    <3> QED BY <2>1, <2>2, <3>1 DEF WantedRun
  <2> QED BY <2>1, <2>2 DEF WantedRun
<1> QED BY <1>1, WantedBy

LEMMA WantedRuns ==
  ASSUME TypeInv, Wanted, UNCHANGED <<queue, cancelling>>,
         \A r \in RunIds : runs'[r].stage \in {"save", "prepare", "commit"} /\ runs'[r].fresh =>
            Working(r) /\ runs'[r].task = runs[r].task /\ runs'[r].unwanted = runs[r].unwanted
  PROVE  Wanted'
  BY WantedSame

\* The run r moves on or goes.
LEMMA WantedMoves ==
  ASSUME TypeInv, Wanted, UNCHANGED <<queue, cancelling>>, NEW r \in RunIds,
         \/ RunBecomes(r, FreeRun)
         \/ Working(r) /\ \E st : RunBecomes(r, [runs[r] EXCEPT !.stage = st])
  PROVE  Wanted'
<1>1. runs[r] \in Run
  BY DEF TypeInv, RunsTyped
<1>2. \A x \in RunIds \ {r} : runs'[x] = runs[x]
  BY DEF RunBecomes
<1>3. \/ runs'[r].stage = "none"
      \/ /\ Working(r) /\ runs'[r].task = runs[r].task /\ runs'[r].unwanted = runs[r].unwanted
  <2>1. CASE RunBecomes(r, FreeRun)
    BY <2>1 DEF RunBecomes, FreeRun
  <2>2. ASSUME NEW st, Working(r), RunBecomes(r, [runs[r] EXCEPT !.stage = st])
        PROVE  Working(r) /\ runs'[r].task = runs[r].task /\ runs'[r].unwanted = runs[r].unwanted
    <3>1. runs'[r] = [runs[r] EXCEPT !.stage = st]
      BY <2>2 DEF RunBecomes
    <3> QED BY <1>1, <2>2, <3>1 DEF Run
  <2> QED BY <2>1, <2>2
<1>4. ASSUME NEW x \in RunIds, runs'[x].stage \in {"save", "prepare", "commit"}, runs'[x].fresh
      PROVE  Working(x) /\ runs'[x].task = runs[x].task /\ runs'[x].unwanted = runs[x].unwanted
  <2>1. CASE x = r
    BY <1>3, <1>4, <2>1
  <2>2. CASE x # r
    BY <1>2, <1>4, <2>2 DEF Working
  <2> QED BY <2>1, <2>2
<1> QED BY <1>4, WantedRuns

LEMMA WantedEdit ==
  ASSUME TypeInv, OwnProject, Wanted, "pause" \notin Calls, Edit
  PROVE  Wanted'
<1>1. /\ Tracked /\ cancelling \subseteq cancelling'
      /\ \A r \in RunIds : /\ runs'[r].stage = runs[r].stage /\ runs'[r].fresh = runs[r].fresh
                           /\ runs'[r].task = runs[r].task
  BY DEF Edit, Flagged, Tracked
<1>2. ASSUME NEW r \in RunIds, runs'[r].stage \in {"save", "prepare", "commit"}, runs'[r].fresh
      PROVE  /\ \A k \in DOMAIN queue' : queue'[k].id = runs'[r].task =>
                  queue'[k].st = "processing" \/ queue'[k].id \in cancelling'
             /\ runs'[r].unwanted => runs'[r].task \in cancelling'
  <2> DEFINE t == runs[r].task
  <2>1. Working(r) /\ WantedRun(r) /\ t \in UsedIds /\ runs'[r].task = t
    BY <1>1, <1>2 DEF Wanted, Working, UsedIds, Live
  <2>2. ASSUME NEW l \in DOMAIN queue, queue[l].id = t
        PROVE  t \in cancelling' \/ (queue[l].st = "processing" /\ queue[l].proj = cur)
    BY <1>1, <2>1, <2>2 DEF WantedRun, OwnProject
  <2>3. ASSUME NEW k \in DOMAIN queue', queue'[k].id = t
        PROVE  queue'[k].st = "processing" \/ queue'[k].id \in cancelling'
    <3>1. PICK l \in DOMAIN queue : queue[l].id = t
      BY <1>1, <2>1, <2>3 DEF Tracked
    <3> QED BY <1>1, <2>2, <2>3, <3>1 DEF Tracked
  <2>4. ASSUME runs'[r].unwanted PROVE t \in cancelling'
    <3>1. CASE runs[r].unwanted
      BY <1>1, <2>1, <3>1 DEF WantedRun
    <3>2. CASE ~ runs[r].unwanted
      <4>1. t \in Ids(queue)
        BY <1>1, <2>4, <3>2 DEF Tracked
      <4>2. PICK l \in DOMAIN queue : queue[l].id = t
        BY <4>1 DEF Ids
      <4>3. queue[l].st = "processing" /\ queue[l].proj = cur => queue[l].id \in cancelling'
        BY <1>1, <2>4, <3>2, <4>2 DEF Tracked
      <4> QED BY <2>2, <4>2, <4>3
    <3> QED BY <3>1, <3>2
  <2> QED BY <2>1, <2>3, <2>4
<1> QED BY <1>2, WantedBy

LEMMA WantedFails ==
  ASSUME TypeInv, Calm, Wanted, NEW i \in SchedIds, Impossible(i)
  PROVE  Wanted'
<1> DEFINE t == scheds[i].task
<1>1. /\ scheds[i].pc = "registry" /\ UNCHANGED <<cancelling, runs>>
      /\ OwnSet(scheds[i].own, t, "failed")
  BY DEF Impossible
<1>2. active[t] = NoRun /\ NoRun \notin RunIds
  BY <1>1, QueueAssumption DEF Calm, OneSched, NoRun
<1>3. ASSUME NEW r \in RunIds, Working(r) PROVE runs[r].task # t
  <2>1. active[runs[r].task] = r
    BY <1>3, RunReady DEF Calm, Working, Live, Fresh
  <2> QED BY <1>2, <2>1
<1> HIDE DEF t
<1>4. ASSUME NEW r \in RunIds, Working(r), NEW k \in DOMAIN queue', queue'[k].id = runs[r].task
      PROVE  \E l \in DOMAIN queue : queue[l].id = queue'[k].id /\ queue[l].st = queue'[k].st
  BY <1>1, <1>3, <1>4 DEF OwnSet
<1> QED BY <1>1, <1>4, WantedSame DEF Working

LEMMA WantedStarts ==
  ASSUME TypeInv, Calm, Wanted, NEW i \in SchedIds, NEW r \in RunIds,
         Starts(i, r, scheds[i].task)
  PROVE  Wanted'
<1> DEFINE t == scheds[i].task
<1>1. /\ scheds[i].pc = "registry" /\ cancelling' = cancelling
      /\ OwnSet(scheds[i].own, t, "processing")
      /\ runs'[r].task = t /\ ~ runs'[r].unwanted
      /\ \A x \in RunIds \ {r} : runs'[x] = runs[x]
  BY DEF Starts
<1>2. scheds[i].own
  <2>1. scheds[i].pc # "none"
    BY <1>1
  <2> QED BY <2>1 DEF Calm, OneSched
<1> HIDE DEF t
<1>3. ASSUME NEW x \in RunIds, runs'[x].stage \in {"save", "prepare", "commit"}, runs'[x].fresh
      PROVE  /\ \A k \in DOMAIN queue' : queue'[k].id = runs'[x].task =>
                  queue'[k].st = "processing" \/ queue'[k].id \in cancelling'
             /\ runs'[x].unwanted => runs'[x].task \in cancelling'
  <2>1. CASE x = r
    BY <1>1, <1>2, <2>1 DEF OwnSet
  <2>2. CASE x # r
    <3>1. WantedRun(x) /\ runs'[x] = runs[x]
      BY <1>1, <1>3, <2>2 DEF Wanted, Working
    <3> QED BY <1>1, <3>1 DEF WantedRun, OwnSet
  <2> QED BY <2>1, <2>2
<1> QED BY <1>3, WantedBy

LEMMA WantedEnds ==
  ASSUME TypeInv, Calm, Wanted, "limit" \notin Faults, NEW r \in RunIds, Finishes(r)
  PROVE  Wanted'
<1> DEFINE t == runs[r].task
<1>1. active[t] = r
  BY EndReady DEF Fresh, Calm
<1>2. /\ cancelling' = cancelling \ {t} /\ Decided(r) /\ runs'[r].stage = "finish"
      /\ \A x \in RunIds : runs'[x].unwanted = runs[x].unwanted
      /\ \A x \in RunIds \ {r} : runs'[x].stage = runs[x].stage /\ runs'[x].fresh = runs[x].fresh
                                 /\ runs'[x].task = runs[x].task
  BY DEF Finishes, Flagged, Decided
<1>3. ASSUME NEW x \in RunIds, runs'[x].stage \in {"save", "prepare", "commit"}, runs'[x].fresh
      PROVE  /\ Working(x) /\ runs'[x].task = runs[x].task /\ runs'[x].unwanted = runs[x].unwanted
             /\ runs[x].task # t
  <2>1. x # r
    BY <1>2, <1>3
  <2>2. Working(x) /\ runs'[x].task = runs[x].task
    BY <1>2, <1>3, <2>1 DEF Working
  <2>3. active[runs[x].task] = x
    BY <2>2, RunReady DEF Calm, Working, Live, Fresh
  <2> QED BY <1>1, <1>2, <2>1, <2>2, <2>3
<1>4. ASSUME NEW k \in DOMAIN queue', queue'[k].id # t
      PROVE  \E l \in DOMAIN queue : queue[l].id = queue'[k].id /\ queue[l].st = queue'[k].st
  BY <1>2, <1>4 DEF Decided
<1> HIDE DEF t
<1> QED BY <1>2, <1>3, <1>4, WantedSame

\* No run of this session is at work.
LEMMA WantedNone ==
  ASSUME \A r \in RunIds : ~ runs'[r].fresh \/ runs'[r].stage = "none"
  PROVE  Wanted'
  BY WantedBy

LEMMA WantedWork ==
  ASSUME TypeInv, Alone, Calm, OwnProject, Wanted, "pause" \notin Calls, "limit" \notin Faults,
         AtWork
  PROVE  Wanted'
<1>1. CASE Edit
  BY <1>1, WantedEdit
<1>2. CASE Nudge \/ CallSaved \/ (\E p \in Projects : Asks(p)) \/ Imports \/ ImportSaved
           \/ \E i \in SchedIds : ImpossibleSaved(i)
  <2>1. UNCHANGED <<queue, cancelling, runs>>
    BY <1>2 DEF Nudge, CallSaved, Asks, Imports, ImportSaved, ImpossibleSaved, mem
  <2> QED BY <2>1, WantedRuns DEF Working
<1>3. ASSUME NEW i \in SchedIds, Impossible(i) PROVE Wanted'
  BY <1>3, WantedFails
<1>4. ASSUME NEW i \in SchedIds, StartSaved(i, scheds[i].run) PROVE Wanted'
  <2> DEFINE r == scheds[i].run
  <2>1. /\ r \in RunIds /\ runs[r].stage = "save" /\ runs[r].fresh
        /\ RunBecomes(r, [runs[r] EXCEPT !.stage = "prepare"])
    BY <1>4, StartReady
  <2>2. UNCHANGED <<queue, cancelling>> /\ Working(r)
    BY <1>4, <2>1 DEF StartSaved, Working
  <2> HIDE DEF r
  <2> QED BY <2>1, <2>2, WantedMoves
<1>5. ASSUME NEW i \in SchedIds, NEW r \in RunIds, Starts(i, r, scheds[i].task) PROVE Wanted'
  BY <1>5, WantedStarts
<1>6. ASSUME NEW r \in RunIds, Begins(r) PROVE Wanted'
  <2>1. /\ UNCHANGED <<queue, cancelling>> /\ runs[r].stage = "prepare"
        /\ RunBecomes(r, [runs[r] EXCEPT !.stage = "commit"]) /\ runs[r] \in Run
    BY <1>6 DEF Begins, mem, TypeInv, RunsTyped
  <2>2. CASE runs[r].fresh
    BY <2>1, <2>2, WantedMoves DEF Working
  <2>3. CASE ~ runs[r].fresh
    <3>1. ~ runs'[r].fresh /\ \A x \in RunIds \ {r} : runs'[x] = runs[x]
      BY <2>1, <2>3 DEF RunBecomes, Run
    <3> QED BY <2>1, <3>1, WantedRuns DEF Working
  <2> QED BY <2>2, <2>3
<1>7. ASSUME NEW r \in RunIds, Ignored(r) \/ RunSaved(r) PROVE Wanted'
  <2>1. UNCHANGED <<queue, cancelling>> /\ RunBecomes(r, FreeRun)
    BY <1>7 DEF Ignored, RunSaved
  <2> QED BY <2>1, WantedMoves
<1>8. ASSUME NEW r \in RunIds, Finishes(r) PROVE Wanted'
  BY <1>8, WantedEnds
<1> QED BY <1>1, <1>2, <1>3, <1>4, <1>5, <1>6, <1>7, <1>8 DEF AtWork

LEMMA WantedNext ==
  ASSUME SwitchInv, Alone, Calm, OwnProject, Wanted, "pause" \notin Calls, "limit" \notin Faults,
         CalmStep
  PROVE  Wanted'
<1>0. TypeInv /\ Loading /\ ActiveRuns
  BY DEF SwitchInv, Calm
<1>1. CASE AtWork
  BY <1>0, <1>1, WantedWork
<1>2. CASE Pauses \/ (\E p \in Projects : Opens(p)) \/ Crashes
  <2>1. \A r \in RunIds : ~ runs'[r].fresh \/ runs'[r].stage = "none"
    BY <1>2 DEF Pauses, Opens, OutOfDate, Crashes, FreeRun
  <2> QED BY <2>1, WantedNone
<1>3. CASE Flushes \/ CloseSaved
  <2>1. Switching /\ UNCHANGED runs
    <3>1. CASE Flushes
      BY <3>1 DEF Flushes, Switching
    <3>2. CASE CloseSaved
      <4>1. IsClose(writes[1]) /\ 1 \in DOMAIN writes
        BY <3>2 DEF CloseSaved, Landed, IsClose
      <4>2. closing.pc \in {"save1", "save2"}
        BY <4>1 DEF SwitchInv, Phases
      <4> QED BY <3>2, <4>2 DEF CloseSaved, Switching
    <3> QED BY <1>3, <3>1, <3>2
  <2>2. \A r \in RunIds : ~ runs'[r].fresh \/ runs'[r].stage = "none"
    BY <1>0, <2>1, RunReady DEF Live, Ready
  <2> QED BY <2>2, WantedNone
<1>4. CASE OpenSaved
  <2>1. UNCHANGED <<queue, cancelling, runs>>
    BY <1>4 DEF OpenSaved, mem
  <2> QED BY <1>0, <2>1, WantedRuns DEF Working
<1>5. CASE Loaded
  <2>1. \A r \in RunIds : ~ runs'[r].fresh
    BY <1>0, <1>5 DEF Loaded, Loads, Loading
  <2> QED BY <2>1, WantedNone
<1> QED BY <1>1, <1>2, <1>3, <1>4, <1>5 DEF CalmStep

-----------------------------------------------------------------------------
(* Nothing is lost on the way from one state of the file to the next one *)

\* What is settled is not in the queue.
Gone == settled \cap Ids(queue) = {}

DisksOwn == \A p \in Projects : \A k \in DOMAIN disk[p] : disk[p][k].proj = p

\* A save that is waiting has what the file has, unless that was cut off or
\* not read, and the queue what it has.
WritesHave ==
    \A j \in DOMAIN writes : /\ cur \notin lost =>
                                   Ids(disk[cur]) \ settled \subseteq Ids(writes[j].tasks)
                             /\ Ids(writes[j].tasks) \ settled \subseteq Ids(queue)
                             /\ \A k \in DOMAIN writes[j].tasks : writes[j].tasks[k].proj = cur
WritesGrow ==
    \A j, k \in DOMAIN writes : j < k =>
        Ids(writes[j].tasks) \ settled \subseteq Ids(writes[k].tasks)
QueueHas ==
    cur # NoProject /\ opening.pc # "load" /\ cur \notin lost =>
        Ids(disk[cur]) \ settled \subseteq Ids(queue)

\* The import into a closed project and the queue do not share a file.
ImportApart ==
    inactive.pc # "idle" => inactive.proj # cur \/ (opening.pc = "load" /\ opening.waits)
ImportHas ==
    inactive.pc = "write" => /\ \/ inactive.proj \in lost
                                \/ Ids(disk[inactive.proj]) \subseteq Ids(inactive.tasks)
                             /\ \A k \in DOMAIN inactive.tasks :
                                   inactive.tasks[k].proj = inactive.proj

Files == /\ Gone /\ DisksOwn /\ WritesHave /\ WritesGrow /\ QueueHas
         /\ ImportApart /\ ImportHas

\* Ids on disk and in the saves are in use.
LEMMA UsedSaved ==
  /\ \A p \in Projects : Ids(disk[p]) \subseteq UsedIds
  /\ \A j \in DOMAIN writes : Ids(writes[j].tasks) \subseteq UsedIds
<1>1. ASSUME NEW p \in Projects PROVE Ids(disk[p]) \subseteq UsedIds
  <2>1. Ids(disk[p]) \subseteq UNION {Ids(disk[x]) : x \in Projects}
    OBVIOUS
  <2> QED BY <2>1 DEF UsedIds
<1>2. ASSUME NEW j \in DOMAIN writes PROVE Ids(writes[j].tasks) \subseteq UsedIds
  <2>1. Ids(writes[j].tasks) \subseteq UNION {Ids(writes[i].tasks) : i \in DOMAIN writes}
    OBVIOUS
  <2> QED BY <2>1 DEF UsedIds
<1> QED BY <1>1, <1>2

\* An id in use is not unsettled, unless its task is in the queue.
LEMMA StaysSettled ==
  ASSUME Gone, settled \ settled' \subseteq Ids(queue) \cup (TaskIds \ UsedIds),
         NEW S, S \subseteq UsedIds
  PROVE  S \ settled' \subseteq S \ settled
  BY DEF Gone

\* The queue changes, and its next save is waiting with the others.
LEMMA FilesQueue ==
  ASSUME TypeInv, Files, OwnProject', UNCHANGED <<cur, disk, lost, inactive>>,
         opening'.pc = opening.pc, opening'.waits = opening.waits, Accounted,
         \/ UNCHANGED writes
         \/ opening.pc # "load" /\ cur \in Projects /\ \E k : Saved(writes, cur, k)
  PROVE  Files'
<1>0. Gone /\ DisksOwn /\ WritesHave /\ WritesGrow /\ QueueHas /\ ImportApart /\ ImportHas
  BY DEF Files
<1>1. /\ Ids(queue) \ settled' \subseteq Ids(queue')
      /\ Ids(queue') \cap settled' \subseteq Ids(queue) \cap settled
      /\ settled \ settled' \subseteq Ids(queue) \cup (TaskIds \ UsedIds)
  BY DEF Accounted
<1>2. Gone'
  BY <1>0, <1>1 DEF Gone
<1>3. DisksOwn' /\ ImportApart' /\ ImportHas'
  BY <1>0 DEF DisksOwn, ImportApart, ImportHas
<1>4. ASSUME NEW p \in Projects PROVE Ids(disk[p]) \ settled' \subseteq Ids(disk[p]) \ settled
  BY <1>0, <1>1, <1>4, StaysSettled, UsedSaved
<1>5. ASSUME NEW j \in DOMAIN writes
      PROVE  Ids(writes[j].tasks) \ settled' \subseteq Ids(writes[j].tasks) \ settled
  BY <1>0, <1>1, <1>5, StaysSettled, UsedSaved
<1>6. cur \in Projects \cup {NoProject}
  BY DEF TypeInv, MemTyped
<1>7. QueueHas'
  <2>1. ASSUME cur # NoProject, opening.pc # "load", cur \notin lost
        PROVE  Ids(disk[cur]) \ settled' \subseteq Ids(queue')
    <3>1. Ids(disk[cur]) \ settled' \subseteq Ids(disk[cur]) \ settled
      BY <1>4, <1>6, <2>1
    <3>2. Ids(disk[cur]) \ settled \subseteq Ids(queue)
      BY <1>0, <2>1 DEF QueueHas
    <3> QED BY <1>1, <3>1, <3>2
  <2> QED BY <2>1 DEF QueueHas
<1>8. ASSUME NEW j \in DOMAIN writes
      PROVE  /\ cur \notin lost => Ids(disk[cur]) \ settled \subseteq Ids(writes[j].tasks)
             /\ Ids(writes[j].tasks) \ settled' \subseteq Ids(queue')
             /\ \A k \in DOMAIN writes[j].tasks : writes[j].tasks[k].proj = cur
  BY <1>0, <1>1, <1>5, <1>8 DEF WritesHave
<1>9. ASSUME NEW j \in DOMAIN writes, cur \in Projects, cur \notin lost
      PROVE  Ids(disk[cur]) \ settled' \subseteq Ids(writes[j].tasks)
  BY <1>4, <1>8, <1>9
<1>10. ASSUME NEW j \in DOMAIN writes, NEW k \in DOMAIN writes, j < k
       PROVE  Ids(writes[j].tasks) \ settled' \subseteq Ids(writes[k].tasks)
  BY <1>0, <1>5, <1>10 DEF WritesGrow
<1> SUFFICES WritesHave' /\ WritesGrow'
  BY <1>2, <1>3, <1>7 DEF Files
<1>11. CASE UNCHANGED writes
  <2>1. WritesGrow'
    BY <1>10, <1>11 DEF WritesGrow
  <2>2. \A j \in DOMAIN writes : writes[j].proj = cur /\ writes[j].proj \in Projects
    <3>1. \A j \in DOMAIN writes : writes[j] \in Write
      BY DEF TypeInv, FilesTyped
    <3> QED BY <1>11, <3>1 DEF OwnProject, Write
  <2>3. WritesHave'
    BY <1>8, <1>9, <1>11, <2>2 DEF WritesHave
  <2> QED BY <2>1, <2>3
<1>12. CASE opening.pc # "load" /\ cur \in Projects /\ \E k : Saved(writes, cur, k)
  <2> DEFINE n == Len(writes) + 1
  <2>1. /\ DOMAIN writes' = DOMAIN writes \cup {n} /\ n \notin DOMAIN writes
        /\ \A j \in DOMAIN writes : writes'[j] = writes[j]
        /\ writes'[n].tasks = queue'
    BY <1>12 DEF Saved
  <2>2. ~ (n < n) /\ \A j \in DOMAIN writes : ~ (n < j)
    BY DEF TypeInv, FilesTyped
  <2> HIDE DEF n
  <2>3. \A k \in DOMAIN queue' : queue'[k].proj = cur
    BY DEF OwnProject
  <2>4. cur \notin lost => Ids(disk[cur]) \ settled' \subseteq Ids(queue')
    BY <1>7, <1>12, QueueAssumption DEF QueueHas
  <2>5. WritesHave'
    <3>1. ASSUME NEW j \in DOMAIN writes'
          PROVE  /\ cur \notin lost => Ids(disk[cur]) \ settled' \subseteq Ids(writes'[j].tasks)
                 /\ Ids(writes'[j].tasks) \ settled' \subseteq Ids(queue')
                 /\ \A k \in DOMAIN writes'[j].tasks : writes'[j].tasks[k].proj = cur
      BY <1>8, <1>9, <1>12, <2>1, <2>3, <2>4
    <3> QED BY <3>1 DEF WritesHave
  <2>6. WritesGrow'
    <3>1. ASSUME NEW j \in DOMAIN writes', NEW k \in DOMAIN writes', j < k
          PROVE  Ids(writes'[j].tasks) \ settled' \subseteq Ids(writes'[k].tasks)
      <4>1. j \in DOMAIN writes
        BY <2>1, <2>2, <3>1
      <4>2. CASE k \in DOMAIN writes
        BY <1>10, <2>1, <3>1, <4>1, <4>2
      <4>3. CASE k = n
        BY <1>8, <2>1, <4>1, <4>3
      <4> QED BY <2>1, <3>1, <4>2, <4>3
    <3> QED BY <3>1 DEF WritesGrow
  <2> QED BY <2>5, <2>6
<1> QED BY <1>11, <1>12

\* The queue keeps its tasks.
LEMMA AccountedSame ==
  ASSUME TypeInv, Ids(queue') = Ids(queue), UNCHANGED settled
  PROVE  Accounted
  BY DEF Accounted

\* The first save is over: the file is as it was, as the queue was then, or
\* cut off; the files of the other projects are as they were or cut off.
LEMMA FilesLanded ==
  ASSUME TypeInv, Files, OwnProject, Landed, opening.pc # "load"
  PROVE  /\ DisksOwn' /\ cur \in Projects
         /\ \A p \in Projects : p # cur /\ p \notin lost' =>
               disk'[p] = disk[p] /\ p \notin lost
         /\ cur \notin lost' => Ids(disk'[cur]) \ settled \subseteq Ids(queue)
         /\ cur \notin lost \cup lost' => Ids(disk[cur]) \ settled \subseteq Ids(disk'[cur])
         /\ \A j \in DOMAIN writes : j # 1 /\ cur \notin lost' =>
               Ids(disk'[cur]) \ settled \subseteq Ids(writes[j].tasks)
<1>0. DisksOwn /\ WritesHave /\ WritesGrow /\ QueueHas
  BY DEF Files
<1>1. /\ 1 \in DOMAIN writes /\ writes[1].proj \in Projects
      /\ \A p \in Projects :
            \/ disk'[p] = disk[p] /\ (p \in lost' <=> p \in lost)
            \/ p = writes[1].proj /\ disk'[p] = writes[1].tasks /\ p \notin lost'
            \/ disk'[p] = << >> /\ p \in lost'
  BY DEF Landed, Reached, Write
<1>2. writes[1].proj = cur /\ cur \in Projects /\ cur # NoProject
  BY <1>1, QueueAssumption DEF OwnProject
<1>3. /\ Ids(writes[1].tasks) \ settled \subseteq Ids(queue)
      /\ cur \notin lost => Ids(disk[cur]) \ settled \subseteq Ids(writes[1].tasks)
      /\ \A k \in DOMAIN writes[1].tasks : writes[1].tasks[k].proj = cur
  BY <1>0, <1>1 DEF WritesHave
<1>4. DisksOwn'
  <2>1. ASSUME NEW p \in Projects, NEW k \in DOMAIN disk'[p] PROVE disk'[p][k].proj = p
    BY <1>0, <1>1, <1>2, <1>3, <2>1 DEF DisksOwn
  <2> QED BY <2>1 DEF DisksOwn
<1>5. ASSUME NEW j \in DOMAIN writes, j # 1, cur \notin lost'
      PROVE  Ids(disk'[cur]) \ settled \subseteq Ids(writes[j].tasks)
  <2>1. 1 < j
    BY <1>5 DEF TypeInv, FilesTyped
  <2>2. Ids(writes[1].tasks) \ settled \subseteq Ids(writes[j].tasks)
    BY <1>0, <1>1, <1>5, <2>1 DEF WritesGrow
  <2>3. cur \notin lost => Ids(disk[cur]) \ settled \subseteq Ids(writes[j].tasks)
    BY <1>0, <1>5 DEF WritesHave
  <2> QED BY <1>1, <1>2, <1>5, <2>2, <2>3
<1>6. /\ cur \notin lost' => Ids(disk'[cur]) \ settled \subseteq Ids(queue)
      /\ cur \notin lost \cup lost' => Ids(disk[cur]) \ settled \subseteq Ids(disk'[cur])
  <2>1. cur \notin lost => Ids(disk[cur]) \ settled \subseteq Ids(queue)
    BY <1>0, <1>2 DEF QueueHas
  <2> QED BY <1>1, <1>2, <1>3, <2>1
<1>7. ASSUME NEW p \in Projects, p # cur, p \notin lost'
      PROVE  disk'[p] = disk[p] /\ p \notin lost
  BY <1>1, <1>2, <1>7
<1> QED BY <1>2, <1>4, <1>5, <1>6, <1>7

LEMMA FilesPopped ==
  ASSUME TypeInv, Files, OwnProject, Landed, Popped, opening.pc # "load",
         opening'.pc # "load", UNCHANGED <<cur, queue, settled, inactive>>
  PROVE  Files'
<1>0. Gone /\ WritesHave /\ WritesGrow /\ ImportApart /\ ImportHas
  BY DEF Files
<1>1. /\ DisksOwn' /\ cur \in Projects
      /\ \A p \in Projects : p # cur /\ p \notin lost' => disk'[p] = disk[p] /\ p \notin lost
      /\ cur \notin lost' => Ids(disk'[cur]) \ settled \subseteq Ids(queue)
      /\ \A j \in DOMAIN writes : j # 1 /\ cur \notin lost' =>
            Ids(disk'[cur]) \ settled \subseteq Ids(writes[j].tasks)
  BY FilesLanded
<1>2. Gone' /\ QueueHas'
  BY <1>0, <1>1 DEF Gone, QueueHas
<1>3. /\ \A j \in DOMAIN writes' : /\ j \in Nat /\ j + 1 \in DOMAIN writes
                                   /\ writes'[j] = writes[j + 1]
      /\ \A j \in DOMAIN writes' : j \in Nat \ {0}
  BY DEF Popped
<1>4. WritesHave'
  <2>1. ASSUME NEW j \in DOMAIN writes'
        PROVE  /\ cur \notin lost' => Ids(disk'[cur]) \ settled \subseteq Ids(writes'[j].tasks)
               /\ Ids(writes'[j].tasks) \ settled \subseteq Ids(queue)
               /\ \A k \in DOMAIN writes'[j].tasks : writes'[j].tasks[k].proj = cur
    <3>1. j + 1 \in DOMAIN writes /\ j + 1 # 1 /\ writes'[j] = writes[j + 1]
      BY <1>3
    <3> QED BY <1>0, <1>1, <3>1 DEF WritesHave
  <2> QED BY <2>1 DEF WritesHave
<1>5. WritesGrow'
  <2>1. ASSUME NEW j \in DOMAIN writes', NEW k \in DOMAIN writes', j < k
        PROVE  Ids(writes'[j].tasks) \ settled \subseteq Ids(writes'[k].tasks)
    <3>1. /\ j + 1 \in DOMAIN writes /\ k + 1 \in DOMAIN writes /\ j + 1 < k + 1
          /\ writes'[j] = writes[j + 1] /\ writes'[k] = writes[k + 1]
      BY <1>3, <2>1
    <3> QED BY <1>0, <3>1 DEF WritesGrow
  <2> QED BY <2>1 DEF WritesGrow
<1>6. ImportApart' /\ ImportHas'
  <2>1. inactive.proj \in Projects
    BY DEF TypeInv, SwitchTyped, FilesTyped
  <2>2. inactive.pc # "idle" => inactive.proj # cur
    BY <1>0 DEF ImportApart
  <2> QED BY <1>0, <1>1, <2>1, <2>2 DEF ImportApart, ImportHas
<1> QED BY <1>1, <1>2, <1>4, <1>5, <1>6 DEF Files

LEMMA FilesImports ==
  ASSUME TypeInv, Quiet, Files, Imports
  PROVE  Files'
<1>0. Gone /\ DisksOwn /\ WritesHave /\ WritesGrow /\ QueueHas /\ ImportApart /\ ImportHas
  BY DEF Files
<1>1. /\ UNCHANGED <<cur, queue, disk, writes>> /\ opening'.pc = opening.pc
      /\ settled' \subseteq settled /\ settled \ settled' \subseteq TaskIds \ UsedIds
      /\ cur \in lost => cur \in lost'
  BY DEF Imports, mem, TypeInv, SwitchTyped
<1>2. /\ cur \in Projects \cup {NoProject} /\ writes \in Seq(Write) /\ inactive.proj \in Projects
      /\ \A j \in DOMAIN writes : writes[j] \in Write
  BY DEF TypeInv, MemTyped, FilesTyped
<1>3. ASSUME NEW p \in Projects PROVE Ids(disk[p]) \ settled' \subseteq Ids(disk[p]) \ settled
  BY <1>0, <1>1, <1>3, StaysSettled, UsedSaved
<1>4. ASSUME NEW j \in DOMAIN writes
      PROVE  Ids(writes[j].tasks) \ settled' \subseteq Ids(writes[j].tasks) \ settled
  BY <1>0, <1>1, <1>4, StaysSettled, UsedSaved
<1>5. Gone' /\ DisksOwn'
  BY <1>0, <1>1 DEF Gone, DisksOwn
<1>6. QueueHas'
  BY <1>0, <1>1, <1>2, <1>3 DEF QueueHas
<1>7. WritesGrow'
  BY <1>0, <1>1, <1>4 DEF WritesGrow
<1>8. ASSUME NEW j \in DOMAIN writes PROVE Ids(writes[j].tasks) \ settled' \subseteq Ids(queue)
  BY <1>0, <1>4, <1>8 DEF WritesHave
<1>9. ASSUME NEW j \in DOMAIN writes, cur \in Projects, cur \notin lost'
      PROVE  Ids(disk[cur]) \ settled' \subseteq Ids(writes[j].tasks)
  BY <1>0, <1>1, <1>3, <1>9 DEF WritesHave
<1>10. WritesHave'
  <2>1. CASE writes = << >>
    BY <1>1, <2>1 DEF WritesHave
  <2>2. CASE writes # << >>
    <3>1. cur \in Projects
      BY <1>2, <2>2 DEF Quiet
    <3> QED BY <1>0, <1>1, <1>8, <1>9, <3>1 DEF WritesHave
  <2> QED BY <2>1, <2>2
<1>11. CASE cur = inactive.proj /\ inactive' = IdleInactive
  <2>1. inactive'.pc = "idle"
    BY <1>11 DEF IdleInactive
  <2>2. ImportApart' /\ ImportHas'
    BY <2>1 DEF ImportApart, ImportHas
  <2> QED BY <1>5, <1>6, <1>7, <1>10, <2>2 DEF Files
<1>12. CASE cur # inactive.proj /\ inactive'.pc = "write" /\ inactive'.proj = inactive.proj
            /\ Extended(inactive.proj, inactive'.tasks)
  <2>1. ImportApart' /\ ImportHas'
    BY <1>0, <1>1, <1>2, <1>12 DEF ImportApart, ImportHas, Extended, DisksOwn
  <2> QED BY <1>5, <1>6, <1>7, <1>10, <2>1 DEF Files
<1> QED BY <1>11, <1>12 DEF Imports

LEMMA FilesImported ==
  ASSUME TypeInv, Quiet, Files, ImportSaved
  PROVE  Files'
<1>0. Gone /\ DisksOwn /\ WritesHave /\ WritesGrow /\ QueueHas /\ ImportApart /\ ImportHas
  BY DEF Files
<1>1. /\ UNCHANGED <<cur, queue, writes, settled>> /\ opening'.pc = opening.pc
      /\ inactive.pc = "write" /\ inactive'.pc = "idle"
      /\ \A p \in Projects :
            \/ disk'[p] = disk[p] /\ (p \in lost' <=> p \in lost)
            \/ p = inactive.proj /\ disk'[p] = inactive.tasks
            \/ disk'[p] = << >> /\ p \in lost'
  BY DEF ImportSaved, Reached, mem, TypeInv, SwitchTyped, IdleInactive
<1>2. cur \in Projects \cup {NoProject}
  BY DEF TypeInv, MemTyped
<1>3. ImportApart' /\ ImportHas' /\ Gone' /\ WritesGrow'
  BY <1>0, <1>1 DEF ImportApart, ImportHas, Gone, WritesGrow
<1>4. DisksOwn'
  <2>1. ASSUME NEW p \in Projects, NEW k \in DOMAIN disk'[p] PROVE disk'[p][k].proj = p
    BY <1>0, <1>1, <2>1 DEF DisksOwn, ImportHas
  <2> QED BY <2>1 DEF DisksOwn
<1>5. ASSUME cur \in Projects, opening.pc # "load", cur \notin lost'
      PROVE  disk'[cur] = disk[cur] /\ cur \notin lost
  BY <1>0, <1>1, <1>5 DEF ImportApart
<1>6. QueueHas'
  BY <1>0, <1>1, <1>2, <1>5 DEF QueueHas
<1>7. WritesHave'
  <2>1. CASE writes = << >>
    BY <1>1, <2>1 DEF WritesHave
  <2>2. CASE writes # << >>
    <3>1. cur \in Projects /\ opening.pc # "load"
      BY <1>2, <2>2 DEF Quiet
    <3> QED BY <1>0, <1>1, <1>5, <3>1 DEF WritesHave
  <2> QED BY <2>1, <2>2
<1> QED BY <1>3, <1>4, <1>6, <1>7 DEF Files

LEMMA FilesWork ==
  ASSUME TypeInv, Alone, Calm, OwnProject, OwnProject', Files, AtWork
  PROVE  Files'
<1>0. Quiet /\ writes \in Seq(Write)
  BY DEF Calm, TypeInv, FilesTyped
<1>1. ASSUME Landed PROVE opening.pc # "load"
  BY <1>0, <1>1 DEF Quiet, Landed
<1>2. CASE Edit \/ (\E r \in RunIds : Finishes(r))
  <2>1. /\ UNCHANGED <<cur, disk, lost, inactive, opening>> /\ Accounted /\ Ready
        /\ UNCHANGED writes \/ \E k : Saved(writes, cur, k)
    BY <1>0, <1>2, ReadyCalls, EndReady DEF Edit, Finishes, switch, Calm
  <2> QED BY <2>1, FilesQueue DEF Ready, Switching
<1>3. CASE Nudge \/ \E r \in RunIds : Begins(r) \/ Ignored(r)
  <2>1. UNCHANGED <<cur, queue, disk, lost, inactive, opening, writes, settled>>
    BY <1>3 DEF Nudge, Begins, Ignored, mem, switch
  <2> QED BY <2>1, FilesQueue, AccountedSame
<1>4. ASSUME NEW i \in SchedIds, Impossible(i) \/ \E r \in RunIds : Starts(i, r, scheds[i].task)
      PROVE  Files'
  <2>1. /\ UNCHANGED <<cur, disk, lost, inactive, opening, settled>> /\ Ids(queue') = Ids(queue)
        /\ Saved(writes, cur, <<"sched", i>>)
    BY <1>4 DEF Impossible, Starts, OwnSet, switch
  <2>2. Ready
    <3>1. scheds[i].pc # "none"
      BY <1>4 DEF Impossible, Starts
    <3> QED BY <1>0, <3>1, SchedReady
  <2> QED BY <2>1, <2>2, FilesQueue, AccountedSame DEF Ready, Switching
<1>5. CASE \/ CallSaved
           \/ \E i \in SchedIds : ImpossibleSaved(i) \/ StartSaved(i, scheds[i].run)
           \/ \E r \in RunIds : RunSaved(r)
  <2>1. Landed /\ Popped /\ UNCHANGED <<cur, queue, settled, inactive, opening>>
    BY <1>5 DEF CallSaved, ImpossibleSaved, StartSaved, RunSaved, mem, switch
  <2> QED BY <1>1, <2>1, FilesPopped
<1>6. ASSUME NEW p \in Projects, Asks(p) PROVE Files'
  <2>1. /\ UNCHANGED <<cur, queue, disk, lost, opening, writes, settled>>
        /\ inactive'.pc = "load" /\ inactive'.proj = p /\ cur # p
    BY <1>6 DEF Asks, mem, switch
  <2> QED BY <2>1 DEF Files, Gone, DisksOwn, WritesHave, WritesGrow, QueueHas, ImportApart,
                      ImportHas
<1>7. CASE Imports
  BY <1>0, <1>7, FilesImports
<1>8. CASE ImportSaved
  BY <1>0, <1>8, FilesImported
<1> QED BY <1>2, <1>3, <1>4, <1>5, <1>6, <1>7, <1>8 DEF AtWork

LEMMA FilesFlushed ==
  ASSUME TypeInv, Files, OwnProject', Flushed(cur), opening.pc = "idle",
         UNCHANGED <<cur, disk, lost, inactive, opening, settled>>
  PROVE  Files'
<1>1. Ids(queue') = Ids(queue) /\ Saved(writes, cur, <<"close">>) /\ cur \in Projects
  BY DEF Flushed
<1> QED BY <1>1, FilesQueue, AccountedSame

\* Nothing is loaded, nothing is saved.
LEMMA FilesEmpty ==
  ASSUME DisksOwn', ImportHas', queue' = << >>, writes' = << >>,
         cur' = NoProject \/ opening'.pc = "load",
         inactive'.pc # "idle" => inactive'.proj # cur' \/ (opening'.pc = "load" /\ opening'.waits)
  PROVE  Files'
<1>1. Gone' /\ QueueHas'
  BY EmptyQueue DEF Gone, QueueHas
<1>2. WritesHave' /\ WritesGrow' /\ ImportApart'
  BY DEF WritesHave, WritesGrow, ImportApart
<1> QED BY <1>1, <1>2 DEF Files

LEMMA FilesClose ==
  ASSUME SwitchInv, Calm, Files, OwnProject, OwnProject', CloseSaved
  PROVE  Files'
<1>0. TypeInv /\ Quiet /\ ImportApart /\ ImportHas /\ Gone
  BY DEF SwitchInv, Calm, Files
<1>1. Landed /\ closing.pc \in {"save1", "save2"} /\ UNCHANGED <<opening, inactive, settled>>
  BY DEF CloseSaved, Landed, IsClose, SwitchInv, Phases
<1>2. Len(writes) = 1 /\ closing.proj = cur /\ opening.pc = "idle"
  BY <1>0, <1>1 DEF Quiet, SwitchInv, Phases
<1>3. /\ DisksOwn' /\ cur \in Projects
      /\ \A p \in Projects : p # cur /\ p \notin lost' => disk'[p] = disk[p] /\ p \notin lost
      /\ cur \notin lost' => Ids(disk'[cur]) \ settled \subseteq Ids(queue)
  BY <1>0, <1>1, <1>2, FilesLanded
<1>4. inactive.proj \in Projects /\ (inactive.pc # "idle" => inactive.proj # cur)
  BY <1>0, <1>2 DEF ImportApart, TypeInv, FilesTyped
<1>5. ImportHas'
  BY <1>0, <1>1, <1>3, <1>4 DEF ImportHas
<1>6. CASE FlushedAgain
  <2>1. /\ Ids(queue') = Ids(queue) /\ cur' = cur /\ Len(Tail(writes)) = 0
        /\ DOMAIN writes' = DOMAIN Tail(writes) \cup {1} /\ Tail(writes) \in Seq(Write)
        /\ writes'[1].tasks = queue'
    BY <1>2, <1>6 DEF FlushedAgain, Saved
  <2>2. DOMAIN writes' = {1}
    <3> DEFINE rest == Tail(writes)
    <3>1. rest \in Seq(Write) /\ Len(rest) = 0
      BY <2>1
    <3>2. DOMAIN writes' = DOMAIN rest \cup {1}
      BY <2>1
    <3> HIDE DEF rest
    <3>3. DOMAIN rest = {}
      BY <3>1
    <3> QED BY <3>2, <3>3
  <2>3. Gone' /\ QueueHas'
    BY <1>0, <1>1, <1>3, <2>1 DEF Gone, QueueHas
  <2>4. WritesHave' /\ WritesGrow'
    BY <1>1, <1>3, <2>1, <2>2 DEF WritesHave, WritesGrow, OwnProject
  <2>5. ImportApart'
    BY <1>1, <1>4, <2>1 DEF ImportApart
  <2> QED BY <1>3, <1>5, <2>3, <2>4, <2>5 DEF Files
<1>7. CASE Wiped
  <2>1. cur' = NoProject /\ queue' = << >> /\ writes' = << >>
    BY <1>2, <1>7 DEF Wiped, Popped
  <2> QED BY <1>1, <1>3, <1>4, <1>5, <2>1, QueueAssumption, FilesEmpty
<1> QED BY <1>6, <1>7 DEF CloseSaved

LEMMA FilesOpens ==
  ASSUME TypeInv, Quiet, Alone, Files, NEW p \in Projects, Opens(p)
  PROVE  Files'
<1>1. /\ queue' = << >> /\ cur' = p /\ opening' = [pc |-> "load", proj |-> p, waits |-> InactiveBusy]
      /\ UNCHANGED <<writes, inactive, disk, lost>> /\ cur = NoProject
  BY DEF Opens, Alone
<1>2. writes' = << >>
  BY <1>1 DEF Quiet
<1>3. opening'.pc = "load" /\ opening'.waits = InactiveBusy
  BY <1>1
<1>4. DisksOwn' /\ ImportHas'
  BY <1>1 DEF Files, DisksOwn, ImportHas
<1> QED BY <1>1, <1>2, <1>3, <1>4, FilesEmpty DEF InactiveBusy

LEMMA FilesLoaded ==
  ASSUME SwitchInv, Calm, Files, OwnProject', Loaded
  PROVE  Files'
<1>0. TypeInv /\ Quiet /\ Loading /\ DisksOwn /\ ImportApart /\ ImportHas /\ Gone
  BY DEF SwitchInv, Calm, Files
<1> DEFINE saved == disk[opening.proj]
<1>1. /\ opening.pc = "load" /\ ~ opening.waits /\ UNCHANGED <<cur, inactive, disk>>
      /\ opening.proj = cur /\ cur \in Projects
      /\ \A x \in lost : x # cur => x \in lost'
  BY <1>0 DEF Loaded, Quiet
<1>2. writes = << >> /\ queue = << >>
  BY <1>0, <1>1 DEF Quiet, Loading
<1>3. DisksOwn' /\ ImportHas' /\ ImportApart'
  BY <1>0, <1>1 DEF DisksOwn, ImportHas, ImportApart
<1>4. CASE (saved = << >> \/ cur \in lost') /\ UNCHANGED <<queue, writes, settled>>
  <2>1. Gone' /\ QueueHas'
    BY <1>1, <1>2, <1>4, EmptyQueue DEF Gone, QueueHas
  <2>2. WritesHave' /\ WritesGrow'
    BY <1>2, <1>4 DEF WritesHave, WritesGrow
  <2> QED BY <1>3, <2>1, <2>2 DEF Files
<1>5. CASE Loads /\ settled' = settled \ Ids(saved)
  <2>1. Ids(queue') = Ids(saved)
    BY <1>0, <1>1, <1>5 DEF Loads, DisksOwn
  <2>2. DOMAIN writes' = {1} /\ writes'[1].tasks = queue'
    BY <1>2, <1>5 DEF Loads, Saved
  <2>3. Gone' /\ QueueHas'
    BY <1>1, <1>5, <2>1 DEF Gone, QueueHas
  <2>4. WritesHave' /\ WritesGrow'
    BY <1>1, <2>1, <2>2 DEF WritesHave, WritesGrow, OwnProject
  <2> QED BY <1>3, <2>3, <2>4 DEF Files
<1> QED BY <1>1, <1>4, <1>5 DEF Loaded

LEMMA FilesNext ==
  ASSUME SwitchInv, Alone, Calm, OwnProject, OwnProject', Files, CalmStep
  PROVE  Files'
<1>0. TypeInv /\ Quiet /\ Phases
  BY DEF SwitchInv, Calm
<1>1. CASE AtWork
  BY <1>0, <1>1, FilesWork
<1>2. CASE Pauses
  <2>1. /\ UNCHANGED <<cur, disk, lost, inactive, opening, settled>> /\ opening.pc = "idle"
        /\ Flushed(cur) \/ UNCHANGED <<queue, writes>>
    BY <1>2 DEF Pauses, Alone, Switching
  <2>2. CASE Flushed(cur)
    BY <1>0, <2>1, <2>2, FilesFlushed
  <2>3. CASE UNCHANGED <<queue, writes>>
    BY <1>0, <2>1, <2>3, FilesQueue, AccountedSame
  <2> QED BY <2>1, <2>2, <2>3
<1>3. CASE Flushes
  <2>1. closing.pc = "commits" /\ UNCHANGED <<cur, disk, lost, inactive, opening, settled>>
        /\ Flushed(closing.proj)
    BY <1>3 DEF Flushes
  <2>2. closing.proj = cur /\ opening.pc = "idle"
    BY <1>0, <2>1 DEF Quiet, Phases
  <2> QED BY <1>0, <2>1, <2>2, FilesFlushed
<1>4. CASE CloseSaved
  BY <1>4, FilesClose
<1>5. CASE OpenSaved
  <2>1. Landed /\ Popped /\ UNCHANGED <<cur, queue, settled, inactive>> /\ opening'.pc = "idle"
    BY <1>5 DEF OpenSaved, mem, IdleOpening
  <2>2. opening.pc # "load"
    BY <1>0, <2>1 DEF Quiet, Landed
  <2> QED BY <1>0, <2>1, <2>2, FilesPopped
<1>6. CASE Loaded
  BY <1>6, FilesLoaded
<1>7. CASE \E p \in Projects : Opens(p)
  BY <1>0, <1>7, FilesOpens
<1>8. CASE Crashes
  <2>1. /\ cur' = NoProject /\ queue' = << >> /\ writes' = << >>
        /\ \A p \in Projects : disk'[p] = disk[p] \/ disk'[p] = << >>
        /\ inactive'.pc = "idle"
    BY <1>8 DEF Crashes, CutOff, IdleInactive
  <2>2. DisksOwn' /\ ImportHas'
    BY <2>1 DEF Files, DisksOwn, ImportHas
  <2> QED BY <2>1, <2>2, FilesEmpty
<1> QED BY <1>1, <1>2, <1>3, <1>4, <1>5, <1>6, <1>7, <1>8 DEF CalmStep

\* What a step takes off a file was settled before it, or is so now, unless
\* the file is or was cut off or not read.
LEMMA DiskKept ==
  ASSUME SwitchInv, Alone, Calm, OwnProject, Files, CalmStep,
         NEW p \in Projects, p \notin lost \cup lost'
  PROVE  Ids(disk[p]) \ settled' \subseteq Ids(disk'[p])
<1>0. TypeInv /\ Quiet
  BY DEF SwitchInv, Calm
<1>1. CASE UNCHANGED disk
  BY <1>1
<1>2. CASE Landed /\ UNCHANGED settled
  <2>1. opening.pc # "load"
    BY <1>0, <1>2 DEF Quiet, Landed
  <2>2. /\ p # cur => disk'[p] = disk[p]
        /\ p = cur => Ids(disk[cur]) \ settled \subseteq Ids(disk'[cur])
    BY <1>0, <1>2, <2>1, FilesLanded
  <2> QED BY <1>2, <2>2
<1>3. CASE ImportSaved
  <2>1. /\ inactive.pc = "write"
        /\ disk'[p] = disk[p] \/ (p = inactive.proj /\ disk'[p] = inactive.tasks)
    BY <1>3 DEF ImportSaved, Reached
  <2> QED BY <2>1 DEF Files, ImportHas
<1>4. CASE AtWork
  <2>1. CASE Edit \/ Nudge \/ (\E x \in Projects : Asks(x)) \/ Imports
    BY <1>1, <2>1 DEF Edit, Nudge, Asks, Imports
  <2>2. CASE CallSaved
    BY <1>2, <2>2 DEF CallSaved
  <2>3. CASE \E i \in SchedIds : Impossible(i) \/ ImpossibleSaved(i) \/ StartSaved(i, scheds[i].run)
    BY <1>1, <1>2, <2>3 DEF Impossible, ImpossibleSaved, StartSaved
  <2>4. CASE \E i \in SchedIds, r \in RunIds : Starts(i, r, scheds[i].task)
    BY <1>1, <2>4 DEF Starts
  <2>5. CASE \E r \in RunIds : Begins(r) \/ Ignored(r) \/ Finishes(r) \/ RunSaved(r)
    BY <1>1, <1>2, <2>5 DEF Begins, Ignored, Finishes, RunSaved
  <2> QED BY <1>3, <1>4, <2>1, <2>2, <2>3, <2>4, <2>5 DEF AtWork
<1>5. CASE CloseSaved \/ OpenSaved
  BY <1>2, <1>5 DEF CloseSaved, OpenSaved
<1>6. CASE Pauses \/ Flushes \/ Loaded \/ \E x \in Projects : Opens(x)
  BY <1>1, <1>6 DEF Pauses, Flushes, Loaded, Opens
<1>7. CASE Crashes
  <2>1. disk'[p] = disk[p]
    BY <1>7 DEF Crashes, CutOff
  <2> QED BY <2>1
<1> QED BY <1>4, <1>5, <1>6, <1>7 DEF CalmStep

-----------------------------------------------------------------------------
(* The invariant, and the properties *)

Orderly ==
    /\ OwnProject /\ Processing /\ Workers /\ Wakeup /\ Files
    /\ "pause" \in Calls \/ "limit" \in Faults \/ Wanted

OrderlyInv == CalmInv /\ (~ overlapped => Orderly)

LEMMA StartOrderly ==
  ASSUME Init, TypeInv
  PROVE  Orderly
<1>1. /\ cur = NoProject /\ queue = << >> /\ writes = << >> /\ cancelling = {}
      /\ (\A i \in SchedIds : scheds[i].pc = "none") /\ inactive.pc = "idle"
      /\ \A r \in RunIds : runs[r].stage = "none"
      /\ \A id \in TaskIds : active[id] = NoRun
      /\ \A p \in Projects : disk[p] = << >>
  BY DEF Init, ProcessStart, IdleInactive, FreeSched, FreeRun
<1>2. OwnProject /\ Processing /\ Wakeup /\ Wanted
  BY <1>1 DEF OwnProject, Processing, Wakeup, Wanted, Working
<1>3. Files
  <2>1. Gone
    BY <1>1, EmptyQueue DEF Gone
  <2> QED BY <1>1, <2>1 DEF Files, DisksOwn, WritesHave, WritesGrow, QueueHas, ImportApart,
                            ImportHas
<1>4. Workers
  <2>1. Busy = {}
    BY <1>1 DEF Busy
  <2>2. Cardinality(Busy) = 0
    BY <2>1, FS_EmptySet
  <2> QED BY <1>1, <2>2, CapFacts DEF Workers
<1> QED BY <1>2, <1>3, <1>4 DEF Orderly

LEMMA OrderlyNext ==
  ASSUME SwitchInv, TypeInv', Alone, Calm, Orderly, CalmStep
  PROVE  Orderly'
<1>1. /\ OwnProject /\ Processing /\ Workers /\ Wakeup /\ Files
      /\ "pause" \in Calls \/ "limit" \in Faults \/ Wanted
  BY DEF Orderly
<1>2. queue' \in Queues
  BY DEF TypeInv, MemTyped
<1>3. OwnProject'
  BY <1>1, OwnNext
<1>4. Processing' /\ Workers'
  BY <1>1, ProcessingNext, WorkersNext
<1>5. Wakeup'
  BY <1>1, <1>2, <1>3, WakeupNext
<1>6. Files'
  BY <1>1, <1>3, FilesNext
<1>7. "pause" \in Calls \/ "limit" \in Faults \/ Wanted'
  BY <1>1, WantedNext
<1> QED BY <1>3, <1>4, <1>5, <1>6, <1>7 DEF Orderly

LEMMA OrderlyStutter ==
  ASSUME Orderly, UNCHANGED vars
  PROVE  Orderly'
<1>1. /\ OwnProject /\ Processing /\ Workers /\ Wakeup /\ Files
      /\ "pause" \in Calls \/ "limit" \in Faults \/ Wanted
  BY DEF Orderly
<1>2. UNCHANGED <<cur, queue, restored, cancelling, active, paused, limit, scheds, closing, opening,
                  writes, runs, inactive, disk, lost, settled>>
  BY DEF vars, mem, sched, switch
<1>3. OwnProject' /\ Processing' /\ Workers'
  BY <1>1, <1>2 DEF OwnProject, Processing, Attended, Working, Workers, Busy, Cap
<1>4. Wakeup'
  BY <1>1, <1>2 DEF Wakeup, Busy, Due, NoSched, Switching
<1>5. Files'
  BY <1>1, <1>2 DEF Files, Gone, DisksOwn, WritesHave, WritesGrow, QueueHas, ImportApart, ImportHas
<1>6. "pause" \in Calls \/ "limit" \in Faults \/ Wanted'
  BY <1>1, <1>2 DEF Wanted, WantedRun, Working
<1> QED BY <1>3, <1>4, <1>5, <1>6 DEF Orderly

LEMMA OrderlyInvStep ==
  ASSUME OrderlyInv, Alone, [Next]_vars
  PROVE  /\ OrderlyInv'
         /\ \/ UNCHANGED vars
            \/ overlapped' \/ (SwitchInv /\ Calm /\ Orderly /\ ~ overlapped /\ CalmStep)
<1>1. CalmInv' /\ TypeInv' /\ (Effect \/ UNCHANGED vars)
  BY CalmInvStep, SwitchInvStep DEF OrderlyInv, CalmInv, SwitchInv
<1>2. CASE Effect /\ ~ overlapped'
  <2>1. SwitchInv /\ TypeInv /\ ~ overlapped
    BY <1>2, OverlapStays DEF OrderlyInv, CalmInv, SwitchInv
  <2>2. Calm /\ Orderly /\ CalmStep
    BY <1>2, <2>1, EffectCalm DEF OrderlyInv, CalmInv
  <2>3. Orderly'
    BY <1>1, <2>1, <2>2, OrderlyNext
  <2> QED BY <1>1, <2>1, <2>2, <2>3 DEF OrderlyInv
<1>3. CASE overlapped' /\ Effect
  BY <1>1, <1>3 DEF OrderlyInv
<1>4. CASE UNCHANGED vars
  <2>1. overlapped' = overlapped
    BY <1>4 DEF vars, switch
  <2>2. Orderly => Orderly'
    BY <1>4, OrderlyStutter
  <2> QED BY <1>1, <1>4, <2>1, <2>2 DEF OrderlyInv
<1> QED BY <1>1, <1>2, <1>3, <1>4

\* As long as nothing overlapped with the closing of a project: every task and
\* every save is of the open project; a task that is processing has a run at
\* work; the runs keep to the limit; no call of processNext is lost; and what
\* the file, the waiting saves and the queue have grows from one to the next.
THEOREM IngestOrderlyInvariance ==
  ASSUME Alone
  PROVE  Spec => []OrderlyInv
<1>1. Init => OrderlyInv
  BY SwitchInvInit, StartCalm, StartOrderly DEF Init, CalmInv, OrderlyInv, SwitchInv
<1>2. OrderlyInv /\ [Next]_vars => OrderlyInv'
  BY OrderlyInvStep
<1> QED BY <1>1, <1>2, PTL DEF Spec

\* Nothing overlaps with the closing of a project when neither the calls of the
\* user nor waiting saves and lookups may.
THEOREM IngestNothingOverlaps ==
  ASSUME Overlap = {}
  PROVE  Spec => []~ overlapped
<1>1. Alone
  BY DEF Alone
<1>2. Init => ~ overlapped
  BY DEF Init
<1>3. ASSUME TypeInv, ~ overlapped, [Next]_vars PROVE ~ overlapped'
  <2>1. Effect \/ UNCHANGED vars
    BY <1>3, StepEffect
  <2>2. CASE Pauses
    BY <1>3, <2>2 DEF Pauses
  <2>3. CASE UNCHANGED vars \/ Edit \/ Nudge \/ CallSaved \/ CloseSaved \/ OpenSaved \/ Flushes
             \/ Loaded \/ Imports \/ ImportSaved \/ Crashes
    BY <1>3, <2>3 DEF vars, Edit, Nudge, CallSaved, CloseSaved, OpenSaved, Flushes, Loaded,
                      Imports, ImportSaved, Crashes, switch
  <2>4. CASE \E i \in SchedIds : StartStale(i) \/ Impossible(i) \/ ImpossibleSaved(i)
                                 \/ StartSaved(i, scheds[i].run)
    BY <1>3, <2>4 DEF StartStale, Impossible, ImpossibleSaved, StartSaved, switch
  <2>5. CASE \E i \in SchedIds, r \in RunIds : Starts(i, r, scheds[i].task)
    BY <1>3, <2>5 DEF Starts, switch
  <2>6. CASE \E r \in RunIds : Begins(r) \/ Ignored(r) \/ Finishes(r) \/ RunSaved(r)
    BY <1>3, <2>6 DEF Begins, Ignored, Finishes, RunSaved, switch
  <2>7. CASE \E p \in Projects : Opens(p) \/ Asks(p)
    BY <1>3, <2>7 DEF Opens, Asks, switch
  <2> QED BY <2>1, <2>2, <2>3, <2>4, <2>5, <2>6, <2>7 DEF Effect
<1>4. TypeInv /\ ~ overlapped /\ [Next]_vars => ~ overlapped'
  BY <1>3
<1> QED BY <1>2, <1>4, IngestInvariance, PTL DEF Spec

\* Crashes, switches, lost saves and imports into a closed project remove no
\* task from a file unless it was done, discarded or cleared; but for a write
\* that is cut off, and the next whole one of what was cut off or not read.
THEOREM IngestUndisturbedFiles ==
  ASSUME Alone
  PROVE  Spec => UndisturbedFiles
<1>1. ASSUME OrderlyInv, [Next]_vars, NEW p \in Projects, ~ overlapped,
             p \notin lost \cup lost'
      PROVE  Ids(disk[p]) \ settled' \subseteq Ids(disk'[p])
  <2>1. CASE UNCHANGED vars
    BY <2>1 DEF vars
  <2>2. CASE Pauses
    BY <2>2 DEF Pauses
  <2>3. CASE ~ Pauses /\ ~ UNCHANGED vars
    <3>1. Effect /\ SwitchInv /\ Calm /\ Orderly
      BY <1>1, <2>3, SwitchInvStep DEF OrderlyInv, CalmInv
    <3>2. CalmStep
      BY <3>1, EffectCalm DEF SwitchInv
    <3> QED BY <1>1, <3>1, <3>2, DiskKept DEF Orderly
  <2> QED BY <2>1, <2>2, <2>3
<1>2. OrderlyInv /\ [Next]_vars => \A p \in Projects :
          \/ overlapped \/ p \in lost \cup lost'
          \/ Ids(disk[p]) \ settled' \subseteq Ids(disk'[p])
  BY <1>1
<1>3. Spec => []OrderlyInv
  BY IngestOrderlyInvariance
<1> QED BY <1>2, <1>3, PTL DEF Spec, UndisturbedFiles

\* The runs of the open project are those of activeRuns.
LEMMA CurrentActive ==
  ASSUME TypeInv, ActiveRuns, NEW r \in RunIds, r \in Current
  PROVE  runs[r].task \in Busy /\ active[runs[r].task] = r
<1>1. Live(r) /\ runs[r].fresh
  BY DEF Current, RunStale
<1>2. active[runs[r].task] = r /\ r # NoRun /\ runs[r].task \in TaskIds
  BY <1>1, QueueAssumption DEF ActiveRuns, Fresh, TypeInv, RunsTyped, Run, NoRun
<1> QED BY <1>2 DEF Busy

\* The runs of the open project are no more than the limit allows, and no two
\* of them have one task, though processNext suspends between its look at
\* activeRuns and the new entry there.
THEOREM IngestWorkerPool ==
  ASSUME Alone, "limit" \notin Calls
  PROVE  Spec => [](~ overlapped => WorkerPool)
<1>1. ASSUME OrderlyInv, ~ overlapped PROVE WorkerPool
  <2>1. TypeInv /\ ActiveRuns /\ Workers
    BY <1>1 DEF OrderlyInv, CalmInv, SwitchInv, Calm, Orderly
  <2>2. \A r \in Current : runs[r].task \in Busy /\ active[runs[r].task] = r
    BY <2>1, CurrentActive DEF Current
  <2> DEFINE f == [r \in Current |-> runs[r].task]
  <2>3. f \in Injection(Current, Busy)
    BY <2>2 DEF Injection, IsInjective
  <2> HIDE DEF f
  <2>4. Cardinality(Current) <= Cardinality(Busy) /\ IsFiniteSet(Current)
    BY <2>3, BusyFinite, FS_Injection
  <2>5. Cardinality(Busy) <= limit
    BY <2>1 DEF Workers, Cap
  <2>6. Cardinality(Current) \in Nat /\ Cardinality(Busy) \in Nat /\ limit \in Nat
    BY <2>1, <2>4, BusyFinite, CapFacts, FS_CardinalityType
  <2>7. Cardinality(Current) <= limit
    BY <2>4, <2>5, <2>6
  <2>8. \A r, x \in Current : runs[r].task = runs[x].task => r = x
    BY <2>2
  <2> QED BY <2>7, <2>8 DEF WorkerPool
<1>2. OrderlyInv => (~ overlapped => WorkerPool)
  BY <1>1
<1>3. Spec => []OrderlyInv
  BY IngestOrderlyInvariance
<1> QED BY <1>2, <1>3, PTL

\* A task shown as processing has a run of the open project that will decide
\* about it: no task is stuck in that state.
THEOREM IngestProcessingHasRun ==
  ASSUME Alone
  PROVE  Spec => [](~ overlapped => ProcessingHasRun)
<1>1. ASSUME OrderlyInv, ~ overlapped, ~ Switching, NEW id \in Having(queue, "processing")
      PROVE  \E r \in Current : runs[r].task = id /\ active[id] = r
  <2>1. TypeInv /\ ActiveRuns /\ Processing
    BY <1>1 DEF OrderlyInv, CalmInv, SwitchInv, Calm, Orderly
  <2>2. queue \in Queues
    BY <2>1 DEF TypeInv, MemTyped
  <2>3. PICK k \in DOMAIN queue : queue[k].id = id /\ queue[k].st = "processing"
    BY <1>1, <2>2, HavingFacts
  <2>4. Attended(id) /\ id \in TaskIds
    BY <1>1, <2>1, <2>2, <2>3, QueueTasks DEF Processing, Switching
  <2>5. active[id] \in RunIds
    BY <2>1, <2>4 DEF Attended, TypeInv, MemTyped
  <2>6. Live(active[id]) /\ runs[active[id]].fresh /\ runs[active[id]].task = id
    BY <2>1, <2>4 DEF Attended, Working, ActiveRuns
  <2>7. cur = runs[active[id]].proj
    BY <2>1, <2>5, <2>6 DEF ActiveRuns, Fresh
  <2> QED BY <2>5, <2>6, <2>7 DEF Current, RunStale
<1>2. OrderlyInv => (~ overlapped => ProcessingHasRun)
  BY <1>1 DEF ProcessingHasRun
<1>3. Spec => []OrderlyInv
  BY IngestOrderlyInvariance
<1> QED BY <1>2, <1>3, PTL

\* No wakeup is lost: when a worker is free and a task may run, a save, a lookup
\* or a run is under way that will call processNext.
THEOREM IngestNoLostWakeup ==
  ASSUME Alone
  PROVE  Spec => [](~ overlapped => NoLostWakeup)
<1>1. ASSUME OrderlyInv, ~ overlapped PROVE NoLostWakeup
  <2>1. Wakeup
    BY <1>1 DEF OrderlyInv, Orderly
  <2>2. writes = << >> => Due = {}
    BY NoneDue
  <2> QED BY <2>1, <2>2 DEF Wakeup, NoSched, Busy, NoLostWakeup
<1>2. OrderlyInv => (~ overlapped => NoLostWakeup)
  BY <1>1
<1>3. Spec => []OrderlyInv
  BY IngestOrderlyInvariance
<1> QED BY <1>2, <1>3, PTL

\* What ends a commit is the run's own decision.
LEMMA FinishOnly ==
  ASSUME TypeInv, Calm, CalmStep, NEW r \in RunIds, runs[r].stage = "commit",
         runs'[r].stage = "finish"
  PROVE  Finishes(r)
<1>1. ASSUME runs'[r].stage = runs[r].stage PROVE FALSE
  BY <1>1
<1>2. CASE Edit
  BY <1>1, <1>2 DEF Edit, Flagged
<1>3. CASE Nudge \/ CallSaved \/ (\E p \in Projects : Asks(p)) \/ Imports \/ ImportSaved
           \/ \E i \in SchedIds : Impossible(i) \/ ImpossibleSaved(i)
  BY <1>1, <1>3 DEF Nudge, CallSaved, Asks, Imports, ImportSaved, Impossible, ImpossibleSaved
<1>4. ASSUME NEW i \in SchedIds, NEW x \in RunIds, Starts(i, x, scheds[i].task) PROVE FALSE
  BY <1>1, <1>4 DEF Starts
<1>5. ASSUME NEW x \in RunIds, NEW st \in {"prepare", "commit"},
             RunBecomes(x, [runs[x] EXCEPT !.stage = st]) \/ RunBecomes(x, FreeRun)
      PROVE  FALSE
  <2>1. runs[x] \in Run
    BY DEF TypeInv, RunsTyped
  <2>2. CASE RunBecomes(x, [runs[x] EXCEPT !.stage = st])
    <3>1. runs'[x].stage = st
      BY <2>1, <2>2 DEF RunBecomes, Run
    <3> QED BY <1>1, <2>2, <3>1 DEF RunBecomes
  <2>3. CASE RunBecomes(x, FreeRun)
    BY <1>1, <2>3 DEF RunBecomes, FreeRun
  <2> QED BY <1>5, <2>2, <2>3
<1>6. ASSUME NEW i \in SchedIds, StartSaved(i, scheds[i].run) PROVE FALSE
  <2>1. scheds[i].run \in RunIds
        /\ RunBecomes(scheds[i].run, [runs[scheds[i].run] EXCEPT !.stage = "prepare"])
    BY <1>6, StartReady
  <2> QED BY <1>5, <2>1
<1>7. ASSUME NEW x \in RunIds, Begins(x) \/ Ignored(x) \/ RunSaved(x) PROVE FALSE
  BY <1>5, <1>7 DEF Begins, Ignored, RunSaved
<1>8. ASSUME NEW x \in RunIds, Finishes(x) PROVE Finishes(r)
  BY <1>1, <1>8 DEF Finishes, Flagged
<1>9. CASE AtWork
  BY <1>2, <1>3, <1>4, <1>6, <1>7, <1>8, <1>9 DEF AtWork
<1>10. CASE CloseSaved \/ OpenSaved \/ Pauses \/ Flushes \/ Loaded \/ Crashes
            \/ \E p \in Projects : Opens(p)
  BY <1>1, <1>10 DEF CloseSaved, OpenSaved, Pauses, Flushes, Loaded, Loads, Crashes, Opens,
                     OutOfDate, FreeRun
<1> QED BY <1>9, <1>10 DEF CalmStep

\* The output of a run whose task the user cancelled is not taken: its commit
\* neither completes the task nor takes it off the queue, also when the task
\* was restarted before the run noticed.  Pauses and usage limits are left out:
\* they put the task back to pending without a note.
THEOREM IngestOldOutputDiscarded ==
  ASSUME Overlap = {}, "pause" \notin Calls, "limit" \notin Faults
  PROVE  Spec => OldOutputDiscarded
<1>0. Alone
  BY DEF Alone
<1>1. ASSUME OrderlyInv, ~ overlapped', [Next]_vars, NEW r \in RunIds, runs[r].unwanted,
             runs[r].stage = "commit", runs'[r].stage = "finish"
      PROVE  Ids(queue') = Ids(queue)
  <2>1. ~ UNCHANGED vars
    BY <1>1 DEF vars
  <2>2. SwitchInv /\ Calm /\ Orderly /\ CalmStep
    BY <1>0, <1>1, <2>1, OrderlyInvStep
  <2>3. Finishes(r) /\ TypeInv
    BY <1>1, <2>2, FinishOnly DEF SwitchInv
  <2>4. runs[r].fresh
    BY <2>2, <2>3, EndReady DEF Calm
  <2>5. runs[r].task \in cancelling
    BY <1>1, <2>2, <2>4 DEF Orderly, Wanted, WantedRun, Working
  <2> QED BY <2>3, <2>5 DEF Finishes, Decided
<1>2. OrderlyInv /\ ~ overlapped' /\ [Next]_vars => \A r \in RunIds :
          (runs[r].unwanted /\ runs[r].stage = "commit" /\ runs'[r].stage = "finish")
             => Ids(queue') = Ids(queue)
  BY <1>1
<1>3. Spec => []OrderlyInv
  BY <1>0, IngestOrderlyInvariance
<1>4. Spec => []~ overlapped
  BY IngestNothingOverlaps
<1> QED BY <1>2, <1>3, <1>4, PTL DEF Spec, OldOutputDiscarded

=============================================================================
