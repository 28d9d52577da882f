------------------------ MODULE CommitPipelineProofs ------------------------
(***************************************************************************)
(* The safety of the commit pipeline, for every set of callers and sources.*)
(***************************************************************************)
EXTENDS CommitPipeline, TLAPS

-----------------------------------------------------------------------------
(* The mutexes as sequences *)

\* Joining a mutex does not change its holder.
LEMMA HoldsAppend ==
    ASSUME NEW S, NEW lock \in Seq(S), NEW x \in S, NEW c, Holds(lock, c)
    PROVE  Holds(Append(lock, x), c)
BY DEF Holds

\* Leaving a mutex moves every waiter one place up.
LEMMA LeaveMutex ==
    ASSUME NEW S, NEW lock \in Seq(S), NEW c, Holds(lock, c)
    PROVE  /\ Tail(lock) \in Seq(S)
           /\ Len(Tail(lock)) = Len(lock) - 1
           /\ \A i \in 1..Len(Tail(lock)) : Tail(lock)[i] = lock[i + 1]
BY DEF Holds

\* A new reservation comes after every existing one.
LEMMA ReserveLast ==
    ASSUME TypeOK, NEW c \in Queued, turns' = Append(turns, c),
           NEW d \in Queued, NEW e \in Queued, Before(d, e)'
    PROVE  Before(d, e) \/ e = c
<1>1. turns \in Seq(Queued)
  BY DEF TypeOK
<1>2. PICK i, j \in 1..Len(turns') : i < j /\ turns'[i] = d /\ turns'[j] = e
  BY DEF Before
<1>3. Len(turns') = Len(turns) + 1 /\ Len(turns) \in Nat
  BY <1>1
<1>4. CASE j = Len(turns) + 1
  BY <1>1, <1>2, <1>4
<1>5. CASE j # Len(turns) + 1
  <2>1. i \in 1..Len(turns) /\ j \in 1..Len(turns)
    BY <1>2, <1>3, <1>5
  <2>2. turns'[i] = turns[i] /\ turns'[j] = turns[j]
    BY <1>1, <2>1
  <2> QED BY <1>2, <2>1, <2>2 DEF Before
<1> QED BY <1>4, <1>5

-----------------------------------------------------------------------------
(* Typing.  A mutex is left by its holder only, so its tail is defined. *)

LEMMA TypeStep == PipelineInv /\ [Next]_vars => TypeOK'
<1> SUFFICES ASSUME PipelineInv, [Next]_vars PROVE TypeOK'
  OBVIOUS
<1> USE CallersAssumption DEF PipelineInv, TypeOK, Stages, Goto
<1>1. ASSUME NEW c \in Callers, Reserve(c) PROVE TypeOK'
  BY <1>1 DEF Reserve
<1>2. ASSUME NEW c \in Callers, AbandonStart(c) PROVE TypeOK'
  BY <1>2 DEF AbandonStart
<1>3. ASSUME NEW c \in Callers, CallAutoIngest(c) PROVE TypeOK'
  <2>1. SourceOf[c] \in Sources
    OBVIOUS
  <2>2. Append(sourceLock[SourceOf[c]], c) \in Seq(Callers)
    BY <2>1
  <2> QED BY <1>3, <2>2 DEF CallAutoIngest
<1>4. ASSUME NEW c \in Callers, EnterSource(c) PROVE TypeOK'
  BY <1>4 DEF EnterSource
<1>5. ASSUME NEW c \in Callers, FailPrepare(c) PROVE TypeOK'
  BY <1>5 DEF FailPrepare
<1>6. ASSUME NEW c \in Callers, RunCommit(c) PROVE TypeOK'
  <2>1. Append(projectLock, c) \in Seq(Callers)
    OBVIOUS
  <2>2. projectLock' \in Seq(Callers) /\ pc' \in [Callers -> Stages]
    BY <1>6, <2>1 DEF RunCommit
  <2> QED BY <1>6, <2>2 DEF RunCommit
<1>7. ASSUME NEW c \in Callers, TakeTurn(c) PROVE TypeOK'
  BY <1>7 DEF TakeTurn
<1>8. ASSUME NEW c \in Callers, Holds(projectLock, c), LeaveCommit(c)
      PROVE  /\ projectLock' \in Seq(Callers)
             /\ released' \subseteq Queued
             /\ pc' \in [Callers -> Stages]
  <2>1. Tail(projectLock) \in Seq(Callers)
    BY <1>8, LeaveMutex
  <2> QED BY <1>8, <2>1 DEF LeaveCommit
<1>9. ASSUME NEW c \in Callers, RefuseCommit(c) PROVE TypeOK'
  BY <1>8, <1>9 DEF RefuseCommit
<1>10. ASSUME NEW c \in Callers, BeginWrite(c) PROVE TypeOK'
  BY <1>10 DEF BeginWrite
<1>11. ASSUME NEW c \in Callers, FinishWrite(c) PROVE TypeOK'
  <2>1. Holds(projectLock, c)
    BY <1>11 DEF FinishWrite, WriterHolds
  <2>2. wiki' \subseteq Callers
    BY <1>11 DEF FinishWrite
  <2> QED BY <1>8, <1>11, <2>1, <2>2 DEF FinishWrite
<1>12. ASSUME NEW c \in Callers, FailWrite(c) PROVE TypeOK'
  <2>1. Holds(projectLock, c)
    BY <1>12 DEF FailWrite, WriterHolds
  <2> QED BY <1>8, <1>12, <2>1 DEF FailWrite
<1>13. ASSUME NEW c \in Callers, LeaveSource(c) PROVE TypeOK'
  <2>1. SourceOf[c] \in Sources /\ Holds(sourceLock[SourceOf[c]], c)
    BY <1>13 DEF LeaveSource, SourceHeld
  <2>2. Tail(sourceLock[SourceOf[c]]) \in Seq(Callers)
    BY <2>1, LeaveMutex
  <2>3. sourceLock' \in [Sources -> Seq(Callers)]
    BY <1>13, <2>1, <2>2 DEF LeaveSource
  <2> QED BY <1>13, <2>3 DEF LeaveSource
<1>14. ASSUME NEW c \in Callers, Abort(c) PROVE TypeOK'
  BY <1>14 DEF Abort
<1>15. CASE PauseQueue
  BY <1>15 DEF PauseQueue
<1>16. CASE UNCHANGED vars
  BY <1>16 DEF vars
<1> QED
  BY <1>1, <1>2, <1>3, <1>4, <1>5, <1>6, <1>7, <1>9, <1>10, <1>11, <1>12,
     <1>13, <1>14, <1>15, <1>16 DEF Next

-----------------------------------------------------------------------------
(* Mutual exclusion of the read-modify-write *)

LEMMA WriterStep ==
    PipelineInv /\ [Next]_vars => WriterHolds' /\ ViewFresh'
<1> SUFFICES ASSUME PipelineInv, [Next]_vars PROVE WriterHolds' /\ ViewFresh'
  OBVIOUS
<1> USE DEF PipelineInv, TypeOK, Stages, Goto, WriterHolds, ViewFresh
\* Most steps neither move the mutex nor enter "write".
<1>1. ASSUME UNCHANGED <<projectLock, wiki, view>>,
             \A c \in Callers : pc'[c] = "write" => pc[c] = "write"
      PROVE  WriterHolds' /\ ViewFresh'
  BY <1>1
\* Joining keeps the holder.
<1>2. ASSUME NEW c \in Callers, pc[c] \in {"prepare", "waitTurn"},
             projectLock' = Append(projectLock, c), Goto(c, "waitProject"),
             UNCHANGED <<wiki, view>>
      PROVE  WriterHolds' /\ ViewFresh'
  <2>1. ASSUME NEW d \in Callers, pc'[d] = "write" PROVE Holds(projectLock', d)
    BY <1>2, <2>1, HoldsAppend
  <2> QED BY <1>2, <2>1
\* The holder leaves: nobody else can be writing.
<1>3. ASSUME NEW c \in Callers, Holds(projectLock, c), LeaveCommit(c),
             UNCHANGED view
      PROVE  WriterHolds' /\ ViewFresh'
  <2>1. ASSUME NEW d \in Callers, pc'[d] = "write" PROVE FALSE
    BY <1>3, <2>1 DEF LeaveCommit, Holds
  <2> QED BY <2>1
<1>4. ASSUME NEW c \in Callers, Reserve(c) PROVE WriterHolds' /\ ViewFresh'
  BY <1>4, <1>1 DEF Reserve
<1>5. ASSUME NEW c \in Callers, AbandonStart(c) PROVE WriterHolds' /\ ViewFresh'
  BY <1>5, <1>1 DEF AbandonStart
<1>6. ASSUME NEW c \in Callers, CallAutoIngest(c) PROVE WriterHolds' /\ ViewFresh'
  BY <1>6, <1>1 DEF CallAutoIngest
<1>7. ASSUME NEW c \in Callers, EnterSource(c) PROVE WriterHolds' /\ ViewFresh'
  BY <1>7, <1>1 DEF EnterSource
<1>8. ASSUME NEW c \in Callers, FailPrepare(c) PROVE WriterHolds' /\ ViewFresh'
  BY <1>8, <1>1 DEF FailPrepare
<1>9. ASSUME NEW c \in Callers, RunCommit(c) PROVE WriterHolds' /\ ViewFresh'
  <2>1. CASE c \in Queued
    BY <1>9, <2>1, <1>1 DEF RunCommit
  <2>2. CASE c \notin Queued
    BY <1>9, <2>2, <1>2 DEF RunCommit
  <2> QED BY <2>1, <2>2
<1>10. ASSUME NEW c \in Callers, TakeTurn(c) PROVE WriterHolds' /\ ViewFresh'
  BY <1>10, <1>2 DEF TakeTurn
<1>11. ASSUME NEW c \in Callers, RefuseCommit(c) PROVE WriterHolds' /\ ViewFresh'
  BY <1>11, <1>3 DEF RefuseCommit
<1>12. ASSUME NEW c \in Callers, BeginWrite(c) PROVE WriterHolds' /\ ViewFresh'
  BY <1>12 DEF BeginWrite
<1>13. ASSUME NEW c \in Callers, FinishWrite(c) PROVE WriterHolds' /\ ViewFresh'
  BY <1>13, <1>3 DEF FinishWrite
<1>14. ASSUME NEW c \in Callers, FailWrite(c) PROVE WriterHolds' /\ ViewFresh'
  BY <1>14, <1>3 DEF FailWrite
<1>15. ASSUME NEW c \in Callers, LeaveSource(c) PROVE WriterHolds' /\ ViewFresh'
  BY <1>15, <1>1 DEF LeaveSource
<1>16. ASSUME NEW c \in Callers, Abort(c) PROVE WriterHolds' /\ ViewFresh'
  BY <1>16, <1>1 DEF Abort
<1>17. CASE PauseQueue
  BY <1>17, <1>1 DEF PauseQueue
<1>18. CASE UNCHANGED vars
  BY <1>18, <1>1 DEF vars
<1> QED
  BY <1>4, <1>5, <1>6, <1>7, <1>8, <1>9, <1>10, <1>11, <1>12, <1>13, <1>14,
     <1>15, <1>16, <1>17, <1>18 DEF Next

-----------------------------------------------------------------------------
(* The mutex of a source *)

LEMMA SourceStep ==
    PipelineInv /\ [Next]_vars => SourceHeld' /\ SourceLive'
<1> DEFINE Holding == {"prepare", "waitTurn", "waitProject", "write", "leave"}
           Outside == {"idle", "reserved", "done"}
<1> SUFFICES ASSUME PipelineInv, [Next]_vars PROVE SourceHeld' /\ SourceLive'
  OBVIOUS
<1> USE CallersAssumption DEF PipelineInv, TypeOK, Stages, Goto
\* A step of one call that does not touch the mutex and does not leave.
<1>1. ASSUME NEW c \in Callers, NEW stage, Goto(c, stage),
             stage \notin Outside, UNCHANGED sourceLock,
             stage \in Holding => Holds(sourceLock[SourceOf[c]], c)
      PROVE  SourceHeld' /\ SourceLive'
  <2>1. SourceHeld'
    BY <1>1 DEF SourceHeld
  <2>2. SourceLive'
    BY <1>1 DEF SourceLive
  <2> QED BY <2>1, <2>2
\* A call that is not in its source's queue moves outside of it.
<1>2. ASSUME NEW c \in Callers, NEW stage \in Outside, Goto(c, stage),
             pc[c] \in Outside, UNCHANGED sourceLock
      PROVE  SourceHeld' /\ SourceLive'
  <2>1. SourceHeld'
    BY <1>2 DEF SourceHeld
  <2>2. SourceLive'
    BY <1>2 DEF SourceLive
  <2> QED BY <2>1, <2>2
<1>3. ASSUME UNCHANGED <<pc, sourceLock>> PROVE SourceHeld' /\ SourceLive'
  BY <1>3 DEF SourceHeld, SourceLive
<1>4. ASSUME NEW c \in Callers, Reserve(c) PROVE SourceHeld' /\ SourceLive'
  BY <1>4, <1>2 DEF Reserve
<1>5. ASSUME NEW c \in Callers, AbandonStart(c) PROVE SourceHeld' /\ SourceLive'
  BY <1>5, <1>2 DEF AbandonStart
<1>6. ASSUME NEW c \in Callers, CallAutoIngest(c) PROVE SourceHeld' /\ SourceLive'
  <2> DEFINE s == SourceOf[c]
             lock == sourceLock[s]
  <2>1. s \in Sources /\ lock \in Seq(Callers)
    OBVIOUS
  <2>2. /\ sourceLock' = [sourceLock EXCEPT ![s] = Append(lock, c)]
        /\ pc' = [pc EXCEPT ![c] = "waitSource"]
        /\ pc[c] \in Outside
    BY <1>6 DEF CallAutoIngest
  <2>3. ASSUME NEW d \in Callers, pc'[d] \in Holding
        PROVE  Holds(sourceLock'[SourceOf[d]], d)
    <3>1. d # c /\ pc[d] \in Holding
      BY <2>2, <2>3
    <3>2. Holds(sourceLock[SourceOf[d]], d)
      BY <3>1 DEF SourceHeld
    <3>3. CASE SourceOf[d] = s
      <4>1. Holds(Append(lock, c), d)
        BY <2>1, <3>2, <3>3, HoldsAppend
      <4> QED BY <2>1, <2>2, <3>3, <4>1
    <3>4. CASE SourceOf[d] # s
      BY <2>2, <3>2, <3>4
    <3> QED BY <3>3, <3>4
  <2>4. ASSUME NEW t \in Sources, NEW i \in 1..Len(sourceLock'[t]),
               t # s \/ i # Len(lock) + 1
        PROVE  /\ i \in 1..Len(sourceLock[t])
               /\ sourceLock'[t][i] = sourceLock[t][i]
               /\ sourceLock[t][i] \in Callers
               /\ pc[sourceLock[t][i]] \notin Outside
               /\ SourceOf[sourceLock[t][i]] = t
               /\ sourceLock[t][i] # c
    <3>1. i \in 1..Len(sourceLock[t]) /\ sourceLock'[t][i] = sourceLock[t][i]
      BY <2>1, <2>2, <2>4
    <3> QED BY <2>2, <3>1 DEF SourceLive
  <2>5. ASSUME NEW t \in Sources, NEW i \in 1..Len(sourceLock'[t])
        PROVE  /\ pc'[sourceLock'[t][i]] \notin Outside
               /\ SourceOf[sourceLock'[t][i]] = t
               /\ \A j \in 1..Len(sourceLock'[t]) :
                     sourceLock'[t][i] = sourceLock'[t][j] => i = j
    <3>1. CASE t = s /\ i = Len(lock) + 1
      <4>1. sourceLock'[t][i] = c
        BY <2>1, <2>2, <3>1
      <4>2. ASSUME NEW j \in 1..Len(sourceLock'[t]), j # i
            PROVE  sourceLock'[t][j] # c
        <5>1. t # s \/ j # Len(lock) + 1
          BY <3>1, <4>2
        <5>2. sourceLock'[t][j] = sourceLock[t][j] /\ sourceLock[t][j] # c
          BY <2>4, <5>1
        <5> QED BY <5>2
      <4> QED BY <2>2, <3>1, <4>1, <4>2
    <3>2. CASE t # s \/ i # Len(lock) + 1
      <4>1. ASSUME NEW j \in 1..Len(sourceLock'[t]),
                   sourceLock'[t][i] = sourceLock'[t][j]
            PROVE  i = j
        <5>1. CASE t = s /\ j = Len(lock) + 1
          BY <2>1, <2>2, <2>4, <3>2, <4>1, <5>1
        <5>2. CASE t # s \/ j # Len(lock) + 1
          <6>1. sourceLock'[t][j] = sourceLock[t][j] /\ j \in 1..Len(sourceLock[t])
            BY <2>4, <5>2, ZenonT(60)
          <6>2. sourceLock'[t][i] = sourceLock[t][i] /\ i \in 1..Len(sourceLock[t])
            BY <2>4, <3>2, ZenonT(60)
          <6> QED BY <4>1, <6>1, <6>2 DEF SourceLive
        <5> QED BY <5>1, <5>2
      <4>2. pc'[sourceLock'[t][i]] \notin Outside /\ SourceOf[sourceLock'[t][i]] = t
        BY <2>2, <2>4, <3>2
      <4> QED BY <4>1, <4>2
    <3> QED BY <3>1, <3>2
  <2> QED BY <2>3, <2>5 DEF SourceHeld, SourceLive
<1>7. ASSUME NEW c \in Callers, EnterSource(c) PROVE SourceHeld' /\ SourceLive'
  BY <1>7, <1>1 DEF EnterSource
<1>8. ASSUME NEW c \in Callers, NEW stage \in Holding, Goto(c, stage),
             pc[c] \in Holding, UNCHANGED sourceLock
      PROVE  SourceHeld' /\ SourceLive'
  BY <1>8, <1>1 DEF SourceHeld
<1>9. ASSUME NEW c \in Callers, FailPrepare(c) PROVE SourceHeld' /\ SourceLive'
  BY <1>9, <1>8 DEF FailPrepare
<1>10. ASSUME NEW c \in Callers, RunCommit(c) PROVE SourceHeld' /\ SourceLive'
  BY <1>10, <1>8 DEF RunCommit
<1>11. ASSUME NEW c \in Callers, TakeTurn(c) PROVE SourceHeld' /\ SourceLive'
  BY <1>11, <1>8 DEF TakeTurn
<1>12. ASSUME NEW c \in Callers, RefuseCommit(c) PROVE SourceHeld' /\ SourceLive'
  BY <1>12, <1>8 DEF RefuseCommit, LeaveCommit
<1>13. ASSUME NEW c \in Callers, BeginWrite(c) PROVE SourceHeld' /\ SourceLive'
  BY <1>13, <1>8 DEF BeginWrite
<1>14. ASSUME NEW c \in Callers, FinishWrite(c) PROVE SourceHeld' /\ SourceLive'
  BY <1>14, <1>8 DEF FinishWrite, LeaveCommit
<1>15. ASSUME NEW c \in Callers, FailWrite(c) PROVE SourceHeld' /\ SourceLive'
  BY <1>15, <1>8 DEF FailWrite, LeaveCommit
\* The holder leaves and, queued once, is nowhere behind.
<1>16. ASSUME NEW c \in Callers, LeaveSource(c) PROVE SourceHeld' /\ SourceLive'
  <2> DEFINE s == SourceOf[c]
             lock == sourceLock[s]
  <2>1. s \in Sources /\ lock \in Seq(Callers) /\ Holds(lock, c)
    BY <1>16 DEF LeaveSource, SourceHeld
  <2>2. /\ sourceLock' = [sourceLock EXCEPT ![s] = Tail(lock)]
        /\ pc' = [pc EXCEPT ![c] = "done"]
    BY <1>16 DEF LeaveSource
  <2>3. ASSUME NEW d \in Callers, pc'[d] \in Holding
        PROVE  Holds(sourceLock'[SourceOf[d]], d)
    <3>1. d # c /\ pc[d] \in Holding
      BY <2>2, <2>3
    <3>2. Holds(sourceLock[SourceOf[d]], d)
      BY <3>1 DEF SourceHeld
    <3>3. SourceOf[d] # s
      BY <2>1, <3>1, <3>2 DEF Holds
    <3> QED BY <2>2, <3>2, <3>3
  <2>4. ASSUME NEW t \in Sources, NEW i \in 1..Len(sourceLock'[t])
        PROVE  \E k \in 1..Len(sourceLock[t]) :
                  /\ k = IF t = s THEN i + 1 ELSE i
                  /\ sourceLock'[t][i] = sourceLock[t][k]
                  /\ sourceLock[t][k] # c
    <3>1. CASE t = s
      <4>1. sourceLock'[t] = Tail(lock)
        BY <2>1, <2>2, <3>1
      <4>2. i + 1 \in 1..Len(lock) /\ Tail(lock)[i] = lock[i + 1]
        BY <2>1, <4>1, LeaveMutex
      <4>3. lock[1] = c /\ 1 \in 1..Len(lock)
        BY <2>1 DEF Holds
      <4>4. lock[i + 1] # c
        BY <2>1, <4>2, <4>3 DEF SourceLive
      <4> QED BY <3>1, <4>1, <4>2, <4>4
    <3>2. CASE t # s
      BY <2>2, <3>2 DEF SourceLive
    <3> QED BY <3>1, <3>2
  <2>5. ASSUME NEW t \in Sources, NEW i \in 1..Len(sourceLock'[t])
        PROVE  /\ pc'[sourceLock'[t][i]] \notin Outside
               /\ SourceOf[sourceLock'[t][i]] = t
    <3>1. PICK k \in 1..Len(sourceLock[t]) :
             sourceLock'[t][i] = sourceLock[t][k] /\ sourceLock[t][k] # c
      BY <2>4
    <3>2. /\ sourceLock[t][k] \in Callers
          /\ pc[sourceLock[t][k]] \notin Outside
          /\ SourceOf[sourceLock[t][k]] = t
      BY DEF SourceLive
    <3> QED BY <2>2, <3>1, <3>2
  <2>6. ASSUME NEW t \in Sources, NEW i \in 1..Len(sourceLock'[t]),
               NEW j \in 1..Len(sourceLock'[t]),
               sourceLock'[t][i] = sourceLock'[t][j]
        PROVE  i = j
    <3>1. PICK k \in 1..Len(sourceLock[t]) :
             /\ k = IF t = s THEN i + 1 ELSE i
             /\ sourceLock'[t][i] = sourceLock[t][k]
      BY <2>4
    <3>2. PICK m \in 1..Len(sourceLock[t]) :
             /\ m = IF t = s THEN j + 1 ELSE j
             /\ sourceLock'[t][j] = sourceLock[t][m]
      BY <2>4
    <3>3. k = m
      <4>1. sourceLock[t][k] = sourceLock[t][m]
        BY <2>6, <3>1, <3>2
      <4> QED BY <4>1 DEF SourceLive
    <3>4. i \in Nat /\ j \in Nat
      OBVIOUS
    <3> QED BY <3>1, <3>2, <3>3, <3>4
  <2> QED BY <2>3, <2>5, <2>6 DEF SourceHeld, SourceLive
<1>17. ASSUME NEW c \in Callers, Abort(c) PROVE SourceHeld' /\ SourceLive'
  BY <1>17, <1>3 DEF Abort
<1>18. CASE PauseQueue
  BY <1>18, <1>3 DEF PauseQueue
<1>19. CASE UNCHANGED vars
  BY <1>19, <1>3 DEF vars
<1> QED
  BY <1>4, <1>5, <1>6, <1>7, <1>9, <1>10, <1>11, <1>12, <1>13, <1>14, <1>15,
     <1>16, <1>17, <1>18, <1>19 DEF Next

-----------------------------------------------------------------------------
(* The turns *)

\* The steps that hand out no turn leave their order alone.
LEMMA TurnsKept ==
    ASSUME turns' = turns, NEW c, NEW d
    PROVE  Before(d, c)' <=> Before(d, c)
BY DEF Before

\* A call that has a turn has been reserved.
LEMMA BeforeReserved ==
    ASSUME PipelineInv, NEW c, NEW d, Before(d, c)
    PROVE  c \in Queued /\ d \in Queued /\ pc[c] # "idle" /\ pc[d] # "idle"
BY DEF PipelineInv, TypeOK, TurnsStarted, Before

LEMMA ReleasedStep == PipelineInv /\ [Next]_vars => ReleasedOver' /\ AbortedLive'
<1> DEFINE Goal == ReleasedOver' /\ AbortedLive'
<1> SUFFICES ASSUME PipelineInv, [Next]_vars PROVE Goal
  OBVIOUS
<1> USE CallersAssumption
    DEF PipelineInv, TypeOK, Stages, Goto, ReleasedOver, AbortedLive,
        LeaveCommit
<1>1. ASSUME NEW c \in Callers, Reserve(c) PROVE Goal
  BY <1>1 DEF Reserve
<1>2. ASSUME NEW c \in Callers, AbandonStart(c) PROVE Goal
  BY <1>2 DEF AbandonStart
<1>3. ASSUME NEW c \in Callers, CallAutoIngest(c) PROVE Goal
  BY <1>3 DEF CallAutoIngest
<1>4. ASSUME NEW c \in Callers, EnterSource(c) PROVE Goal
  BY <1>4 DEF EnterSource
<1>5. ASSUME NEW c \in Callers, FailPrepare(c) PROVE Goal
  BY <1>5 DEF FailPrepare
<1>6. ASSUME NEW c \in Callers, RunCommit(c) PROVE Goal
  BY <1>6 DEF RunCommit
<1>7. ASSUME NEW c \in Callers, TakeTurn(c) PROVE Goal
  BY <1>7 DEF TakeTurn
<1>8. ASSUME NEW c \in Callers, RefuseCommit(c) PROVE Goal
  BY <1>8 DEF RefuseCommit
<1>9. ASSUME NEW c \in Callers, BeginWrite(c) PROVE Goal
  BY <1>9 DEF BeginWrite
<1>10. ASSUME NEW c \in Callers, FinishWrite(c) PROVE Goal
  BY <1>10 DEF FinishWrite
<1>11. ASSUME NEW c \in Callers, FailWrite(c) PROVE Goal
  BY <1>11 DEF FailWrite
<1>12. ASSUME NEW c \in Callers, LeaveSource(c) PROVE Goal
  BY <1>12 DEF LeaveSource
<1>13. ASSUME NEW c \in Callers, Abort(c) PROVE Goal
  BY <1>13 DEF Abort, Live
<1>14. CASE PauseQueue
  BY <1>14 DEF PauseQueue, Live
<1>15. CASE UNCHANGED vars
  BY <1>15 DEF vars
<1> QED
  BY <1>1, <1>2, <1>3, <1>4, <1>5, <1>6, <1>7, <1>8, <1>9, <1>10, <1>11,
     <1>12, <1>13, <1>14, <1>15 DEF Next

LEMMA TurnStep ==
    PipelineInv /\ [Next]_vars => TurnTaken' /\ TurnsStarted' /\ TurnsOnce' /\ SavesInOrder'
<1> DEFINE Goal == TurnTaken' /\ TurnsStarted' /\ TurnsOnce' /\ SavesInOrder'
<1> SUFFICES ASSUME PipelineInv, [Next]_vars PROVE Goal
  OBVIOUS
<1> USE CallersAssumption DEF PipelineInv, TypeOK, Stages, Goto
\* One call moves, past its save already and not to a commit.
<1>1. ASSUME UNCHANGED turns, released \subseteq released',
             NEW c \in Callers, NEW stage \in Stages \ {"idle"}, Goto(c, stage),
             stage = "reserved" => pc[c] = "reserved",
             pc[c] = "reserved" => SaveResumes(c),
             (c \in Queued /\ stage \in {"waitProject", "write"})
                => PredecessorDone(c)
      PROVE  Goal
  <2>1. TurnTaken'
    BY <1>1, TurnsKept DEF TurnTaken, PredecessorDone
  <2>2. TurnsStarted' /\ TurnsOnce'
    BY <1>1 DEF TurnsStarted, TurnsOnce
  <2>3. ASSUME NEW a \in Queued, NEW b \in Queued,
               Before(b, a), pc'[b] = "reserved"
        PROVE  pc'[a] = "reserved"
    <3>1. pc[b] = "reserved"
      BY <1>1, <2>3
    <3>2. pc[a] = "reserved"
      BY <2>3, <3>1 DEF SavesInOrder
    <3>3. a # c
      BY <1>1, <2>3, <3>1, <3>2 DEF SaveResumes
    <3> QED BY <1>1, <3>2, <3>3
  <2> QED BY <1>1, <2>1, <2>2, <2>3, TurnsKept DEF SavesInOrder
<1>2. ASSUME UNCHANGED <<pc, turns>>, released \subseteq released' PROVE Goal
  BY <1>2, TurnsKept
  DEF TurnTaken, PredecessorDone, TurnsStarted, TurnsOnce, SavesInOrder
<1>3. ASSUME NEW c \in Callers, Reserve(c) PROVE Goal
  <2>1. /\ c \in Queued /\ pc[c] = "idle"
        /\ turns' = Append(turns, c)
        /\ pc' = [pc EXCEPT ![c] = "reserved"]
        /\ UNCHANGED released
    BY <1>3 DEF Reserve
  <2>2. ASSUME NEW a \in Queued, NEW b \in Queued, Before(b, a)'
        PROVE  Before(b, a) \/ a = c
    BY <2>1, <2>2, ReserveLast
  <2>3. TurnTaken'
    BY <2>1, <2>2 DEF TurnTaken, PredecessorDone
  <2>4. TurnsStarted' /\ TurnsOnce'
    BY <2>1 DEF TurnsStarted, TurnsOnce
  <2>5. ASSUME NEW a \in Queued, NEW b \in Queued,
               Before(b, a)', pc'[b] = "reserved"
        PROVE  pc'[a] = "reserved"
    <3>1. CASE a = c
      BY <2>1, <3>1
    <3>2. CASE a # c
      <4>1. Before(b, a)
        BY <2>2, <2>5, <3>2
      <4>2. b # c
        BY <2>1, <4>1, BeforeReserved
      <4> QED BY <2>1, <2>5, <3>2, <4>1, <4>2 DEF SavesInOrder
    <3> QED BY <3>1, <3>2
  <2> QED BY <2>3, <2>4, <2>5 DEF SavesInOrder
<1>4. ASSUME NEW c \in Callers, AbandonStart(c) PROVE Goal
  BY <1>4, <1>1 DEF AbandonStart
<1>5. ASSUME NEW c \in Callers, CallAutoIngest(c) PROVE Goal
  BY <1>5, <1>1 DEF CallAutoIngest
<1>6. ASSUME NEW c \in Callers, EnterSource(c) PROVE Goal
  BY <1>6, <1>1 DEF EnterSource
<1>7. ASSUME NEW c \in Callers, FailPrepare(c) PROVE Goal
  BY <1>7, <1>1 DEF FailPrepare
<1>8. ASSUME NEW c \in Callers, RunCommit(c) PROVE Goal
  BY <1>8, <1>1 DEF RunCommit
<1>9. ASSUME NEW c \in Callers, TakeTurn(c) PROVE Goal
  BY <1>9, <1>1 DEF TakeTurn
<1>10. ASSUME NEW c \in Callers, RefuseCommit(c) PROVE Goal
  BY <1>10, <1>1 DEF RefuseCommit, LeaveCommit
<1>11. ASSUME NEW c \in Callers, BeginWrite(c) PROVE Goal
  BY <1>11, <1>1 DEF BeginWrite, TurnTaken
<1>12. ASSUME NEW c \in Callers, FinishWrite(c) PROVE Goal
  BY <1>12, <1>1 DEF FinishWrite, LeaveCommit
<1>13. ASSUME NEW c \in Callers, FailWrite(c) PROVE Goal
  BY <1>13, <1>1 DEF FailWrite, LeaveCommit
<1>14. ASSUME NEW c \in Callers, LeaveSource(c) PROVE Goal
  BY <1>14, <1>1 DEF LeaveSource
<1>15. ASSUME NEW c \in Callers, Abort(c) PROVE Goal
  BY <1>15, <1>2 DEF Abort
<1>16. CASE PauseQueue
  BY <1>16, <1>2 DEF PauseQueue
<1>17. CASE UNCHANGED vars
  BY <1>17, <1>2 DEF vars
<1> QED
  BY <1>3, <1>4, <1>5, <1>6, <1>7, <1>8, <1>9, <1>10, <1>11, <1>12, <1>13,
     <1>14, <1>15, <1>16, <1>17 DEF Next

-----------------------------------------------------------------------------
(* The order of the writes *)

\* A closed call stays closed: after its abort it cannot begin to write.
LEMMA ClosedForever == PipelineInv /\ [Next]_vars => Closed \subseteq Closed'
<1> SUFFICES ASSUME PipelineInv, [Next]_vars PROVE Closed \subseteq Closed'
  OBVIOUS
<1> USE CallersAssumption
    DEF PipelineInv, TypeOK, Stages, Goto, Closed, LeaveCommit
<1>1. ASSUME NEW c \in Callers, Reserve(c) PROVE Closed \subseteq Closed'
  BY <1>1 DEF Reserve
<1>2. ASSUME NEW c \in Callers, AbandonStart(c) PROVE Closed \subseteq Closed'
  BY <1>2 DEF AbandonStart
<1>3. ASSUME NEW c \in Callers, CallAutoIngest(c) PROVE Closed \subseteq Closed'
  BY <1>3 DEF CallAutoIngest
<1>4. ASSUME NEW c \in Callers, EnterSource(c) PROVE Closed \subseteq Closed'
  BY <1>4 DEF EnterSource
<1>5. ASSUME NEW c \in Callers, FailPrepare(c) PROVE Closed \subseteq Closed'
  BY <1>5 DEF FailPrepare
<1>6. ASSUME NEW c \in Callers, RunCommit(c) PROVE Closed \subseteq Closed'
  BY <1>6 DEF RunCommit
<1>7. ASSUME NEW c \in Callers, TakeTurn(c) PROVE Closed \subseteq Closed'
  BY <1>7 DEF TakeTurn
<1>8. ASSUME NEW c \in Callers, RefuseCommit(c) PROVE Closed \subseteq Closed'
  BY <1>8 DEF RefuseCommit
<1>9. ASSUME NEW c \in Callers, BeginWrite(c) PROVE Closed \subseteq Closed'
  BY <1>9 DEF BeginWrite
<1>10. ASSUME NEW c \in Callers, FinishWrite(c) PROVE Closed \subseteq Closed'
  BY <1>10 DEF FinishWrite
<1>11. ASSUME NEW c \in Callers, FailWrite(c) PROVE Closed \subseteq Closed'
  BY <1>11 DEF FailWrite
<1>12. ASSUME NEW c \in Callers, LeaveSource(c) PROVE Closed \subseteq Closed'
  BY <1>12 DEF LeaveSource
<1>13. ASSUME NEW c \in Callers, Abort(c) PROVE Closed \subseteq Closed'
  BY <1>13 DEF Abort
<1>14. CASE PauseQueue
  BY <1>14 DEF PauseQueue
<1>15. CASE UNCHANGED vars
  BY <1>15 DEF vars
<1> QED
  BY <1>1, <1>2, <1>3, <1>4, <1>5, <1>6, <1>7, <1>8, <1>9, <1>10, <1>11,
     <1>12, <1>13, <1>14, <1>15 DEF Next

\* When a call writes, every earlier turn is closed: it was released, and a
\* call released while writing would hold the project mutex itself.
LEMMA WriterEarlierClosed ==
    ASSUME PipelineInv, NEW c \in Queued, pc[c] = "write",
           NEW d \in Queued, Before(d, c)
    PROVE  d \in Closed \/ d = c
<1>1. d \in released
  BY DEF PipelineInv, TurnTaken, PredecessorDone
<1>2. pc[d] \in {"leave", "done"} \/ d \in aborted
  BY <1>1 DEF PipelineInv, ReleasedOver
<1>3. pc[d] = "write" => d = c
  BY CallersAssumption DEF PipelineInv, WriterHolds, Holds
<1> QED BY <1>2, <1>3, CallersAssumption DEF Closed

\* Only FinishWrite changes the wiki, and it adds its own changes to what is
\* there.
LEMMA WikiGrows ==
    ASSUME PipelineInv, [Next]_vars
    PROVE  \/ UNCHANGED wiki
           \/ \E c \in Callers : FinishWrite(c) /\ wiki' = wiki \cup {c}
BY DEF PipelineInv, ViewFresh, Next, vars, Reserve, AbandonStart,
       CallAutoIngest, EnterSource, FailPrepare, RunCommit, TakeTurn,
       RefuseCommit, BeginWrite, FinishWrite, FailWrite, LeaveSource, Abort,
       PauseQueue

\* Once a call's changes are written, it is past its commit.
LEMMA PastCommit ==
    ASSUME PipelineInv, [Next]_vars, NEW c \in Callers,
           pc[c] \in {"leave", "done"}
    PROVE  pc'[c] \in {"leave", "done"}
BY DEF PipelineInv, TypeOK, Goto, LeaveCommit, Next, vars, Reserve,
       AbandonStart, CallAutoIngest, EnterSource, FailPrepare, RunCommit,
       TakeTurn, RefuseCommit, BeginWrite, FinishWrite, FailWrite,
       LeaveSource, Abort, PauseQueue

\* Only Reserve adds to the turns, and it adds a caller that was idle.
LEMMA TurnsGrow ==
    ASSUME PipelineInv, [Next]_vars, NEW c \in Queued, NEW d \in Queued,
           Before(d, c)', pc[c] # "idle"
    PROVE  Before(d, c)
<1>1. CASE UNCHANGED turns
  BY <1>1, TurnsKept
<1>2. CASE \E e \in Callers : Reserve(e)
  BY <1>2, ReserveLast DEF Reserve, PipelineInv
<1> QED
  BY <1>1, <1>2
  DEF Next, vars, AbandonStart, CallAutoIngest, EnterSource, FailPrepare,
      RunCommit, TakeTurn, RefuseCommit, BeginWrite, FinishWrite, FailWrite,
      LeaveSource, Abort, PauseQueue

LEMMA WrittenStep == PipelineInv /\ [Next]_vars => WrittenInOrder'
<1> SUFFICES ASSUME PipelineInv, [Next]_vars PROVE WrittenInOrder'
  OBVIOUS
<1> USE CallersAssumption
<1>1. Closed \subseteq Closed'
  BY ClosedForever
<1>2. ASSUME NEW c \in wiki
      PROVE  /\ pc'[c] \in {"leave", "done"}
             /\ \A d \in Queued : (c \in Queued /\ Before(d, c)') => d \in Closed'
  <2>1. c \in Callers /\ pc[c] \in {"leave", "done"}
    BY DEF PipelineInv, TypeOK, WrittenInOrder
  <2>2. ASSUME NEW d \in Queued, c \in Queued, Before(d, c)' PROVE d \in Closed'
    BY <1>1, <2>1, <2>2, TurnsGrow DEF PipelineInv, WrittenInOrder
  <2> QED BY <2>1, <2>2, PastCommit
<1>3. ASSUME NEW c \in Callers, FinishWrite(c)
      PROVE  /\ pc'[c] \in {"leave", "done"}
             /\ \A d \in Queued : (c \in Queued /\ Before(d, c)') => d \in Closed'
  <2>1. pc[c] = "write" /\ pc'[c] = "leave" /\ turns' = turns
    BY <1>3 DEF FinishWrite, LeaveCommit, Goto, PipelineInv, TypeOK
  <2>2. c \in Closed'
    BY <2>1 DEF Closed
  <2>3. ASSUME NEW d \in Queued, c \in Queued, Before(d, c)' PROVE d \in Closed'
    BY <1>1, <2>1, <2>2, <2>3, TurnsKept, WriterEarlierClosed
  <2> QED BY <2>1, <2>3
<1> QED BY <1>2, <1>3, WikiGrows DEF WrittenInOrder

-----------------------------------------------------------------------------
(* The order in which sources are waited for *)

LEMMA SourceOrderStep == PipelineInv /\ [Next]_vars => SourceBeforeTurn'
<1> SUFFICES ASSUME PipelineInv, [Next]_vars PROVE SourceBeforeTurn'
  OBVIOUS
<1> USE CallersAssumption DEF PipelineInv, TypeOK
\* Two calls that already wait for a source are in the order of their turns.
<1>1. ASSUME NEW s \in Sources, NEW i \in 1..Len(sourceLock[s]),
             NEW j \in 1..Len(sourceLock[s]), i < j,
             NEW x \in Queued, NEW y \in Queued,
             x = sourceLock[s][i], y = sourceLock[s][j]
      PROVE  ~ Before(y, x)'
  <2>1. pc[x] # "idle"
    BY <1>1 DEF SourceLive
  <2>2. ~ Before(y, x)
    BY <1>1 DEF SourceBeforeTurn
  <2> QED BY <2>1, <2>2, TurnsGrow
\* It is enough to follow any two entries of a queue after the step.
<1>2. SUFFICES ASSUME NEW t \in Sources, NEW i \in 1..Len(sourceLock'[t]),
                      NEW j \in 1..Len(sourceLock'[t]), i < j,
                      NEW x \in Queued, NEW y \in Queued,
                      x = sourceLock'[t][i], y = sourceLock'[t][j]
               PROVE  ~ Before(y, x)'
  BY <1>2 DEF SourceBeforeTurn
<1>3. CASE UNCHANGED sourceLock
  <2>1. /\ i \in 1..Len(sourceLock[t]) /\ x = sourceLock[t][i]
        /\ j \in 1..Len(sourceLock[t]) /\ y = sourceLock[t][j]
    BY <1>2, <1>3
  <2> QED BY <1>1, <1>2, <2>1
<1>4. ASSUME NEW c \in Callers, CallAutoIngest(c) PROVE ~ Before(y, x)'
  <2> DEFINE s == SourceOf[c]
             lock == sourceLock[s]
  <2>1. /\ s \in Sources /\ lock \in Seq(Callers)
        /\ sourceLock' = [sourceLock EXCEPT ![s] = Append(lock, c)]
        /\ turns' = turns
        /\ c \in Queued => pc[c] = "reserved"
    BY <1>4 DEF CallAutoIngest
  <2>2. i \in 1..Len(sourceLock[t]) /\ x = sourceLock[t][i]
    BY <1>2, <2>1
  <2>3. CASE t = s /\ j = Len(lock) + 1
    <3>1. y = c
      BY <1>2, <2>1, <2>3
    <3>2. pc[x] # "reserved"
      BY <2>2 DEF SourceLive
    <3>3. ~ Before(y, x)
      BY <2>1, <3>1, <3>2 DEF SavesInOrder
    <3> QED BY <2>1, <3>3, TurnsKept
  <2>4. CASE ~ (t = s /\ j = Len(lock) + 1)
    <3>1. j \in 1..Len(sourceLock[t]) /\ y = sourceLock[t][j]
      BY <1>2, <2>1, <2>4
    <3> QED BY <1>1, <1>2, <2>2, <3>1
  <2> QED BY <2>3, <2>4
<1>5. ASSUME NEW c \in Callers, LeaveSource(c) PROVE ~ Before(y, x)'
  <2> DEFINE s == SourceOf[c]
             lock == sourceLock[s]
  <2>1. /\ s \in Sources /\ lock \in Seq(Callers) /\ Holds(lock, c)
        /\ sourceLock' = [sourceLock EXCEPT ![s] = Tail(lock)]
    BY <1>5 DEF LeaveSource, SourceHeld
  <2>2. CASE t = s
    <3>1. sourceLock'[t] = Tail(lock)
      BY <2>1, <2>2
    <3>2. /\ i \in 1..Len(Tail(lock)) /\ x = Tail(lock)[i]
          /\ j \in 1..Len(Tail(lock)) /\ y = Tail(lock)[j]
      BY <1>2, <3>1
    <3>3. /\ Len(Tail(lock)) = Len(lock) - 1 /\ Len(lock) \in Nat
          /\ \A k \in 1..Len(Tail(lock)) : Tail(lock)[k] = lock[k + 1]
      BY <2>1, LeaveMutex
    <3>4. PICK k, m \in 1..Len(lock) : k < m /\ x = lock[k] /\ y = lock[m]
      <4>1. i + 1 \in 1..Len(lock) /\ j + 1 \in 1..Len(lock) /\ i + 1 < j + 1
        BY <1>2, <3>2, <3>3, SMTT(30)
      <4>2. x = lock[i + 1] /\ y = lock[j + 1]
        BY <3>2, <3>3
      <4> QED BY <4>1, <4>2
    <3> QED BY <1>1, <2>1, <3>4
  <2>3. CASE t # s
    <3>1. /\ i \in 1..Len(sourceLock[t]) /\ x = sourceLock[t][i]
          /\ j \in 1..Len(sourceLock[t]) /\ y = sourceLock[t][j]
      BY <1>2, <2>1, <2>3
    <3> QED BY <1>1, <1>2, <3>1
  <2> QED BY <2>2, <2>3
<1> QED
  BY <1>3, <1>4, <1>5
  DEF Next, vars, Reserve, AbandonStart, EnterSource, FailPrepare, RunCommit,
      TakeTurn, RefuseCommit, LeaveCommit, BeginWrite, FinishWrite, FailWrite,
      Abort, PauseQueue

-----------------------------------------------------------------------------
(* The theorems *)

LEMMA InitInv == Init => PipelineInv
<1> SUFFICES ASSUME Init PROVE PipelineInv
  OBVIOUS
<1> USE DEF Init
<1>1. TypeOK
  BY CallersAssumption DEF TypeOK, Stages
<1>2. \A c, d : ~ Before(d, c)
  BY DEF Before
<1>3. WriterHolds /\ ViewFresh /\ SourceHeld /\ ReleasedOver /\ TurnTaken
     /\ AbortedLive
  BY CallersAssumption 
  DEF WriterHolds, ViewFresh, SourceHeld, ReleasedOver, TurnTaken, AbortedLive
<1>4. SourceLive /\ TurnsStarted /\ TurnsOnce /\ SourceBeforeTurn
  BY DEF SourceLive, TurnsStarted, TurnsOnce, SourceBeforeTurn
<1>5. SavesInOrder /\ WrittenInOrder
  BY <1>2 DEF SavesInOrder, WrittenInOrder
<1> QED BY <1>1, <1>3, <1>4, <1>5 DEF PipelineInv

LEMMA StepInv == PipelineInv /\ [Next]_vars => PipelineInv'
<1> SUFFICES ASSUME PipelineInv, [Next]_vars PROVE PipelineInv'
  OBVIOUS
<1>1. TypeOK'
  BY TypeStep
<1>2. WriterHolds' /\ ViewFresh'
  BY WriterStep
<1>3. SourceHeld' /\ SourceLive'
  BY SourceStep
<1>4. ReleasedOver' /\ AbortedLive' /\ TurnTaken'
      /\ TurnsStarted' /\ TurnsOnce' /\ SavesInOrder'
  BY ReleasedStep, TurnStep
<1>5. WrittenInOrder' /\ SourceBeforeTurn'
  BY WrittenStep, SourceOrderStep
<1> QED BY <1>1, <1>2, <1>3, <1>4, <1>5 DEF PipelineInv

\* The inductive invariant holds in every behaviour of the commit pipeline of
\* ingest.ts, the coordinator and the mutexes together.
THEOREM Invariance == Spec => []PipelineInv
<1>1. Init => PipelineInv
  BY InitInv
<1>2. PipelineInv /\ [Next]_vars => PipelineInv'
  BY StepInv
<1> QED BY <1>1, <1>2, PTL DEF Spec

\* The variables keep their types.
THEOREM Typing == Spec => []TypeOK
<1>1. PipelineInv => TypeOK
  BY DEF PipelineInv
<1> QED BY <1>1, Invariance, PTL

\* No ingest waits for a source behind one whose turn is after its own, so
\* the waits for sources, turns and the project mutex never form a cycle.
THEOREM NoWaitCycle == Spec => []SourceBeforeTurn
<1>1. PipelineInv => SourceBeforeTurn
  BY DEF PipelineInv
<1> QED BY <1>1, Invariance, PTL

\* Overlapping ingests never lose each other's changes to the shared wiki
\* files (withProjectLock around the commit section of autoIngest).
THEOREM LostUpdateFree == Spec => NoLostUpdate
<1>1. PipelineInv /\ [Next]_vars => [wiki \subseteq wiki']_vars
  BY WikiGrows
<1> QED BY <1>1, Invariance, PTL DEF Spec, NoLostUpdate

\* The queue's ingests reach the wiki in the order their tasks were started
\* (IngestCommitCoordinator), project switches included.
THEOREM Ordered == Spec => StartOrder
<1> DEFINE A == \A c, d \in Queued :
                   (Before(c, d) /\ d \in wiki /\ c \notin wiki) => c \notin wiki'
<1>1. PipelineInv /\ [Next]_vars => [A]_vars
  <2> SUFFICES ASSUME PipelineInv, [Next]_vars,
                      NEW c \in Queued, NEW d \in Queued,
                      Before(c, d), d \in wiki, c \notin wiki
               PROVE  c \notin wiki'
    OBVIOUS
  <2>1. c \in Closed
    BY DEF PipelineInv, WrittenInOrder
  <2>2. pc[c] # "write"
    BY <2>1 DEF Closed
  <2> QED BY <2>2, WikiGrows DEF FinishWrite
<1> QED BY <1>1, Invariance, PTL DEF Spec, StartOrder

\* The pipeline of source mutexes, turns, project mutex and abort checks
\* implements one serial, start-ordered commit per ingest.
THEOREM Refinement == Spec => ImplementsSerial
<1>1. Init => Serial!SInit
  BY DEF Init, Serial!SInit, Closed
<1>2. PipelineInv /\ [Next]_vars => [Serial!SNext]_Serial!svars
  <2> SUFFICES ASSUME PipelineInv, [Next]_vars
               PROVE  Serial!SNext \/ UNCHANGED <<turns, Closed, wiki>>
    BY DEF Serial!svars
  <2> USE CallersAssumption
  <2>1. ASSUME UNCHANGED <<turns, wiki>>
        PROVE  Serial!SNext
    <3>1. Closed' = Closed \cup Closed'
      BY ClosedForever
    <3>2. Closed' \in SUBSET Callers
      BY DEF Closed
    <3>3. Serial!Close(Closed')
      BY <2>1, <3>1 DEF Serial!Close
    <3> QED BY <3>2, <3>3 DEF Serial!SNext
  <2>2. ASSUME NEW c \in Callers, Reserve(c)
        PROVE  Serial!SNext
    <3>1. c \in Queued /\ pc[c] = "idle" /\ turns' = Append(turns, c) /\ wiki' = wiki
      BY <2>2 DEF Reserve
    <3>2. c \notin Closed /\ Closed' = Closed
      BY <2>2 DEF Closed, Reserve, Goto, PipelineInv, TypeOK, AbortedLive
    <3>3. Serial!Start(c)
      BY <3>1, <3>2 DEF Serial!Start
    <3> QED BY <3>1, <3>3 DEF Serial!SNext
  <2>3. ASSUME NEW c \in Callers, FinishWrite(c), wiki' = wiki \cup {c}
        PROVE  Serial!SNext
    <3>1. pc[c] = "write" /\ turns' = turns /\ aborted' = aborted
          /\ pc' = [pc EXCEPT ![c] = "leave"]
      BY <2>3 DEF FinishWrite, LeaveCommit, Goto
    <3>2. c \notin Closed /\ Closed' = Closed \cup {c}
      BY <3>1 DEF Closed, PipelineInv, TypeOK
    <3>3. ASSUME c \in Queued, NEW i \in 1..Len(turns), NEW j \in 1..Len(turns),
                 i < j, turns[j] = c
          PROVE  turns[i] \in Closed
      <4>1. turns[i] \in Queued /\ Before(turns[i], c)
        BY <3>3 DEF Before, PipelineInv, TypeOK
      <4>2. turns[i] \in Closed \/ turns[i] = c
        BY <3>1, <3>3, <4>1, WriterEarlierClosed
      <4>3. turns[i] # c
        BY <3>3 DEF PipelineInv, TurnsOnce
      <4> QED BY <4>2, <4>3
    <3>4. Serial!Commit(c)
      BY <2>3, <3>1, <3>2, <3>3 DEF Serial!Commit, Serial!EarlierClosed
    <3> QED BY <3>4 DEF Serial!SNext
  <2>4. UNCHANGED wiki =>
           UNCHANGED turns \/ \E c \in Callers : Reserve(c)
    BY DEF Next, vars, AbandonStart, CallAutoIngest, EnterSource, FailPrepare,
           RunCommit, TakeTurn, RefuseCommit, BeginWrite, FinishWrite,
           FailWrite, LeaveSource, Abort, PauseQueue
  <2> QED BY <2>1, <2>2, <2>3, <2>4, WikiGrows
<1> QED
  BY <1>1, <1>2, Invariance, PTL DEF Spec, ImplementsSerial, Serial!SSpec
=============================================================================
