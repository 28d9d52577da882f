-------------------------- MODULE IngestQueueProofs --------------------------
(***************************************************************************)
(* Theorems about the ingest queue that hold whatever overlaps with the    *)
(* opening and the closing of a project, or need no more than that no call *)
(* of the user does; and the facts about its operators that these and the  *)
(* theorems of IngestQueueRuns rest on.                                    *)
(***************************************************************************)
EXTENDS IngestQueue, TaskQueueLemmas, FiniteSetTheorems

\* No task is in a queue twice.
Queues == {q \in Seq(Task) : Distinct(q)}

Write == [proj: Projects, tasks: Queues, k: WriteKinds]

-----------------------------------------------------------------------------
(* What the operations do to a queue *)

\* Tasks change in place: no one comes, goes, or moves to another project.
Altered(q, w) ==
    /\ w \in Queues /\ DOMAIN w = DOMAIN q
    /\ \A i \in DOMAIN q : w[i].id = q[i].id /\ w[i].proj = q[i].proj

Stamped(q, w, S, st) ==
    /\ Altered(q, w)
    /\ \A i \in DOMAIN q : w[i].st = IF q[i].id \in S THEN st ELSE q[i].st

LEMMA EmptyQueue == << >> \in Queues /\ Ids(<< >>) = {}
  BY DEF Queues, Distinct, Ids

LEMMA QueueTasks ==
  ASSUME NEW q \in Queues, NEW i \in DOMAIN q
  PROVE  q[i] \in Task /\ q[i].id \in TaskIds /\ q[i].proj \in Projects
         /\ q[i].st \in Statuses /\ q[i].id \in Ids(q) /\ i \in Nat
         /\ Status(q, q[i].id) = q[i].st /\ Entry(q, q[i].id) = q[i]
<1>1. q \in Seq(Task) /\ Distinct(q)
  BY DEF Queues
<1>2. q[i] \in Task /\ i \in Nat
  BY <1>1
<1> QED BY <1>1, <1>2, EntryAt, StatusAt DEF Task

LEMMA QueueIds ==
  ASSUME NEW q \in Queues
  PROVE  /\ Ids(q) \subseteq TaskIds
         /\ \A id \in Ids(q) : \E i \in DOMAIN q : q[i].id = id /\ Entry(q, id) = q[i]
         /\ \A st : Having(q, st) \subseteq Ids(q)
         /\ \A id \in Ids(q) : Entry(q, id) \in Task
<1>1. \A id \in Ids(q) : \E i \in DOMAIN q : q[i].id = id /\ Entry(q, id) = q[i]
  BY EntryFound
<1>2. \A i \in DOMAIN q : q[i] \in Task /\ q[i].id \in TaskIds
  BY QueueTasks
<1>3. Ids(q) \subseteq TaskIds
  BY <1>2 DEF Ids
<1> QED BY <1>1, <1>2, <1>3 DEF Having

LEMMA HavingFacts ==
  ASSUME NEW q \in Queues, NEW st
  PROVE  /\ \A i \in DOMAIN q : q[i].id \in Having(q, st) <=> q[i].st = st
         /\ \A id \in Having(q, st) : \E i \in DOMAIN q : q[i].id = id /\ q[i].st = st
  BY QueueTasks, HavingAt DEF Queues, Having

LEMMA AlteredIds ==
  ASSUME NEW q, NEW w, Altered(q, w)
  PROVE  Ids(w) = Ids(q)
  BY DEF Altered, Ids

LEMMA StampTask == \A st \in Statuses : Stamps(Task, st)
  BY DEF Stamps, Task

LEMMA ChangedAlters ==
  ASSUME NEW q \in Queues, NEW w, w = [i \in DOMAIN q |-> w[i]],
         \A i \in DOMAIN q : w[i] \in Task /\ w[i].id = q[i].id /\ w[i].proj = q[i].proj
  PROVE  Altered(q, w)
<1>1. w \in Seq(Task) /\ SameTasks(q, w)
  BY ChangedInPlace DEF Queues
<1>2. Distinct(w)
  BY <1>1, SameIds DEF Queues
<1> QED BY <1>1, <1>2 DEF Altered, Queues

LEMMA StampFacts ==
  ASSUME NEW q \in Queues, NEW S, NEW st \in Statuses
  PROVE  Stamped(q, WithStatus(q, S, st), S, st)
<1> DEFINE w == WithStatus(q, S, st)
<1>1. w = [i \in DOMAIN q |-> w[i]]
  BY DEF WithStatus, Revise
<1>2. \A i \in DOMAIN q : /\ w[i] \in Task /\ w[i].id = q[i].id /\ w[i].proj = q[i].proj
                          /\ w[i].st = IF q[i].id \in S THEN st ELSE q[i].st
  <2> TAKE i \in DOMAIN q
  <2>1. q[i] \in Task
    BY QueueTasks
  <2> QED BY <2>1 DEF WithStatus, Revise, Task, Statuses
<1> HIDE DEF w
<1>3. Altered(q, w)
  BY <1>1, <1>2, ChangedAlters
<1> QED BY <1>2, <1>3 DEF Stamped, w

LEMMA RequeueFacts ==
  ASSUME NEW q \in Queues, NEW S
  PROVE  Stamped(q, Revise(q, S, Requeue), S, "pending")
<1> DEFINE w == Revise(q, S, Requeue)
<1>1. w = [i \in DOMAIN q |-> w[i]]
  BY DEF Revise
<1>2. \A i \in DOMAIN q :
         /\ w[i] \in Task /\ w[i].id = q[i].id /\ w[i].proj = q[i].proj
         /\ w[i].st = IF q[i].id \in S THEN "pending" ELSE q[i].st
  <2> TAKE i \in DOMAIN q
  <2>1. q[i] \in Task
    BY QueueTasks
  <2> QED BY <2>1 DEF Revise, Requeue, Task, Statuses
<1> HIDE DEF w
<1>3. Altered(q, w)
  BY <1>1, <1>2, ChangedAlters
<1> QED BY <1>2, <1>3 DEF Stamped, w

LEMMA FailedTask ==
  ASSUME NEW t \in Task
  PROVE  Failed(t) \in Task /\ Failed(t).id = t.id /\ Failed(t).proj = t.proj
         /\ Failed(t).st \in {"pending", "failed"}
<1>1. t.tries + 1 \in Nat /\ t.tries \in Nat
  BY DEF Task
<1> QED BY <1>1 DEF Failed, Task, Statuses

LEMMA FailFacts ==
  ASSUME NEW q \in Queues, NEW S
  PROVE  /\ Altered(q, Revise(q, S, Failed))
         /\ \A i \in DOMAIN q : LET st == Revise(q, S, Failed)[i].st IN
               IF q[i].id \in S THEN st \in {"pending", "failed"} ELSE st = q[i].st
<1> DEFINE w == Revise(q, S, Failed)
<1>1. w = [i \in DOMAIN q |-> w[i]]
  BY DEF Revise
<1>2. \A i \in DOMAIN q :
         /\ w[i] \in Task /\ w[i].id = q[i].id /\ w[i].proj = q[i].proj
         /\ IF q[i].id \in S THEN w[i].st \in {"pending", "failed"} ELSE w[i].st = q[i].st
  <2> TAKE i \in DOMAIN q
  <2>1. q[i] \in Task
    BY QueueTasks
  <2>2. w[i] = IF q[i].id \in S THEN Failed(q[i]) ELSE q[i]
    BY DEF Revise
  <2> QED BY <2>1, <2>2, FailedTask
<1> HIDE DEF w
<1>3. Altered(q, w)
  BY <1>1, <1>2, ChangedAlters
<1> QED BY <1>2, <1>3 DEF w

LEMMA InterruptFacts ==
  ASSUME NEW q \in Queues
  PROVE  /\ Stamped(q, Interrupted(q), Having(q, "processing"), "pending")
         /\ \A i \in DOMAIN q : Interrupted(q)[i].st # "processing"
         /\ Having(Interrupted(q), "processing") = {}
<1> DEFINE w == Interrupted(q)
<1>1. Stamped(q, w, Having(q, "processing"), "pending")
  BY StampFacts DEF Interrupted, Statuses
<1> HIDE DEF w
<1>2. \A i \in DOMAIN q : w[i].st # "processing"
  BY <1>1, HavingFacts DEF Stamped
<1>3. Having(w, "processing") = {}
  BY <1>1, <1>2, HavingFacts DEF Stamped, Altered
<1> QED BY <1>1, <1>2, <1>3 DEF w

\* What is left of a queue: its tasks outside of S, as they are.
Left(q, w, S) ==
    /\ w \in Queues /\ Ids(w) = Ids(q) \ S
    /\ \A i \in DOMAIN w : \E k \in DOMAIN q : w[i] = q[k]

LEMMA LeftFacts ==
  ASSUME NEW q \in Queues, NEW S
  PROVE  Left(q, Without(q, S), S)
<1> DEFINE w == Without(q, S)
<1>1. q \in Seq(Task) /\ Distinct(q)
  BY DEF Queues
<1>2. /\ w \in Seq(Task)
      /\ \A i \in DOMAIN w : \E k \in DOMAIN q : w[i] = q[k] /\ q[k].id \notin S
      /\ \A k \in DOMAIN q : q[k].id \notin S => \E i \in DOMAIN w : w[i] = q[k]
      /\ Distinct(q) => Distinct(w)
  BY <1>1, WithoutFacts
<1>3. Ids(w) = Ids(q) \ S
  BY <1>1, WithoutIds
<1> HIDE DEF w
<1> QED BY <1>1, <1>2, <1>3 DEF Left, Queues, w

LEMMA SwapKeeps ==
  ASSUME NEW q \in Queues, NEW i \in DOMAIN q, NEW j \in DOMAIN q
  PROVE  Left(q, [q EXCEPT ![i] = q[j], ![j] = q[i]], {})
<1> DEFINE w == [q EXCEPT ![i] = q[j], ![j] = q[i]]
<1>1. q \in Seq(Task) /\ Distinct(q)
  BY DEF Queues
<1>2. /\ w \in Seq(Task) /\ Ids(w) = Ids(q)
      /\ Distinct(q) => Distinct(w)
      /\ \A k \in DOMAIN w : \E l \in DOMAIN q : w[k] = q[l]
  BY <1>1, SwapFacts
<1> HIDE DEF w
<1> QED BY <1>1, <1>2 DEF Left, Queues, w

LEMMA AddTask ==
  ASSUME NEW q \in Queues, NEW t \in Task, t.id \notin Ids(q)
  PROVE  LET w == Append(q, t) IN
         /\ w \in Queues /\ Ids(w) = Ids(q) \cup {t.id}
         /\ \A i \in DOMAIN w : (i \in DOMAIN q /\ w[i] = q[i]) \/ w[i] = t
         /\ \A i \in DOMAIN q : i \in DOMAIN w /\ w[i] = q[i]
<1> DEFINE w == Append(q, t)
<1>1. q \in Seq(Task) /\ Distinct(q)
  BY DEF Queues
<1>2. /\ w \in Seq(Task) /\ Len(w) = Len(q) + 1
      /\ DOMAIN w = DOMAIN q \cup {Len(q) + 1} /\ Len(q) + 1 \notin DOMAIN q
      /\ \A i \in DOMAIN q : w[i] = q[i]
      /\ w[Len(q) + 1] = t
  BY <1>1, AppendFacts
<1>3. Ids(w) = Ids(q) \cup {t.id} /\ Distinct(w)
  BY <1>1, AppendTask
<1> HIDE DEF w
<1> QED BY <1>2, <1>3 DEF Queues, w
-----------------------------------------------------------------------------
(* The loop of enqueueBatch *)

Adding == [q: Queues, asked: SUBSET TaskIds]

FirstReusable(q, s) == CHOOSE k \in Reusable(q, s) : \A l \in Reusable(q, s) : k <= l
NewId(q) == CHOOSE x \in TaskIds \ (UsedIds \cup Ids(q)) : TRUE

\* What n rounds have made of the queue: tasks made pending again or added.
Upserted(st, n) ==
    /\ st \in Adding /\ Ids(queue) \subseteq Ids(st.q)
    /\ st.asked \subseteq Ids(st.q) /\ Ids(st.q) \ Ids(queue) \subseteq st.asked
    /\ Cardinality(Ids(st.q) \ UsedIds) <= n
    /\ \A k \in DOMAIN st.q :
          \/ \E l \in DOMAIN queue :
                /\ queue[l].id = st.q[k].id /\ queue[l].proj = st.q[k].proj
                /\ \/ st.q[k].st = queue[l].st
                   \/ st.q[k].st = "pending" /\ queue[l].st # "processing"
          \/ st.q[k].id \notin UsedIds /\ st.q[k].proj = cur /\ st.q[k].st = "pending"

LEMMA UsedQueue == Ids(queue) \subseteq UsedIds
  BY DEF UsedIds

LEMMA ReusableFirst ==
  ASSUME NEW q \in Queues, NEW s, Reusable(q, s) # {}
  PROVE  /\ FirstReusable(q, s) \in DOMAIN q
         /\ q[FirstReusable(q, s)].proj = cur
         /\ q[FirstReusable(q, s)].st \in {"pending", "failed", "cancelled"}
<1>1. Reusable(q, s) \subseteq DOMAIN q /\ DOMAIN q \subseteq Nat
  BY DEF Reusable, Queues
<1>2. FirstReusable(q, s) \in Reusable(q, s)
  BY <1>1, FirstExists DEF FirstReusable
<1> QED BY <1>1, <1>2 DEF Reusable

LEMMA RequeuedAt ==
  ASSUME NEW q \in Queues, NEW i \in DOMAIN q
  PROVE  LET w == [q EXCEPT ![i] = Requeue(q[i])] IN
         /\ Altered(q, w) /\ w[i].st = "pending"
         /\ \A k \in DOMAIN q : k # i => w[k] = q[k]
<1> DEFINE w == [q EXCEPT ![i] = Requeue(q[i])]
<1>1. DOMAIN w = DOMAIN q /\ w[i] = Requeue(q[i]) /\ \A k \in DOMAIN q : k # i => w[k] = q[k]
  OBVIOUS
<1>2. w = [k \in DOMAIN q |-> w[k]]
  OBVIOUS
<1>3. \A k \in DOMAIN q : q[k] \in Task
  BY QueueTasks
<1>4. Requeue(q[i]) \in Task /\ Requeue(q[i]).id = q[i].id /\ Requeue(q[i]).proj = q[i].proj
      /\ Requeue(q[i]).st = "pending"
  BY <1>3 DEF Requeue, Task, Statuses
<1> HIDE DEF w
<1>5. Altered(q, w)
  BY <1>1, <1>2, <1>3, <1>4, ChangedAlters
<1> QED BY <1>1, <1>4, <1>5 DEF w

LEMMA UpsertReuses ==
  ASSUME NEW n \in Nat, NEW st, Upserted(st, n), NEW s, Reusable(st.q, s) # {}
  PROVE  Upserted(Upsert(st, s), n + 1)
<1> DEFINE i == FirstReusable(st.q, s)
           w == [st.q EXCEPT ![i] = Requeue(st.q[i])]
           nx == Upsert(st, s)
<1>1. st \in Adding /\ st.q \in Queues /\ st.asked \subseteq TaskIds
  BY DEF Upserted, Adding
<1>2. i \in DOMAIN st.q /\ st.q[i].proj = cur
      /\ st.q[i].st \in {"pending", "failed", "cancelled"}
  BY <1>1, ReusableFirst
<1>3. nx = [st EXCEPT !.q[i] = Requeue(@), !.asked = @ \cup {st.q[i].id}]
  BY DEF Upsert, FirstReusable
<1>4. nx = [q |-> w, asked |-> st.asked \cup {st.q[i].id}]
  BY <1>1, <1>3 DEF Adding
<1>5. Altered(st.q, w) /\ w[i].st = "pending" /\ \A k \in DOMAIN st.q : k # i => w[k] = st.q[k]
  BY <1>1, <1>2, RequeuedAt
<1> HIDE DEF i, w, nx
<1>6. Ids(w) = Ids(st.q) /\ w \in Queues /\ DOMAIN w = DOMAIN st.q
      /\ \A k \in DOMAIN st.q : w[k].id = st.q[k].id /\ w[k].proj = st.q[k].proj
  BY <1>5, AlteredIds DEF Altered
<1>7. st.q[i].id \in Ids(st.q) /\ st.q[i].id \in TaskIds
  BY <1>1, <1>2, QueueTasks
<1>8. nx \in Adding /\ Ids(queue) \subseteq Ids(nx.q) /\ nx.asked \subseteq Ids(nx.q)
      /\ Ids(nx.q) \ Ids(queue) \subseteq nx.asked /\ nx.q = w
  BY <1>1, <1>4, <1>6, <1>7 DEF Adding, Upserted
<1>9. Cardinality(Ids(nx.q) \ UsedIds) <= n + 1
  <2>1. Ids(st.q) \subseteq TaskIds
    BY <1>1, QueueIds
  <2>2. IsFiniteSet(Ids(st.q) \ UsedIds)
    BY <2>1, QueueAssumption, FS_Subset
  <2>3. Cardinality(Ids(st.q) \ UsedIds) \in Nat
    BY <2>2, FS_CardinalityType
  <2>4. Cardinality(Ids(st.q) \ UsedIds) <= n
    BY DEF Upserted
  <2> QED BY <1>6, <1>8, <2>3, <2>4
<1>10. ASSUME NEW k \in DOMAIN w
       PROVE  \/ \E l \in DOMAIN queue :
                /\ queue[l].id = w[k].id /\ queue[l].proj = w[k].proj
                /\ \/ w[k].st = queue[l].st
                   \/ w[k].st = "pending" /\ queue[l].st # "processing"
              \/ w[k].id \notin UsedIds /\ w[k].proj = cur /\ w[k].st = "pending"
  <2>1. k \in DOMAIN st.q
    BY <1>6
  <2>2. \/ \E l \in DOMAIN queue :
                /\ queue[l].id = st.q[k].id /\ queue[l].proj = st.q[k].proj
                /\ \/ st.q[k].st = queue[l].st
                   \/ st.q[k].st = "pending" /\ queue[l].st # "processing"
        \/ st.q[k].id \notin UsedIds /\ st.q[k].proj = cur /\ st.q[k].st = "pending"
    BY <2>1 DEF Upserted
  <2>3. CASE k # i
    BY <1>5, <2>1, <2>2, <2>3
  <2>4. CASE k = i
    <3>1. st.q[k].st # "processing" /\ w[k].st = "pending"
      BY <1>2, <1>5, <2>4
    <3> QED BY <1>6, <2>1, <2>2, <3>1
  <2> QED BY <2>3, <2>4
<1> QED BY <1>8, <1>9, <1>10 DEF Upserted, nx

LEMMA UpsertAdds ==
  ASSUME NEW n \in Nat, NEW st, Upserted(st, n), NEW s \in Sources, Reusable(st.q, s) = {},
         cur \in Projects, n < Cardinality(TaskIds \ UsedIds)
  PROVE  Upserted(Upsert(st, s), n + 1)
<1> DEFINE id == NewId(st.q)
           t == NewTask(id, cur, s, FALSE)
           w == Append(st.q, t)
           nx == Upsert(st, s)
<1>1. st \in Adding /\ st.q \in Queues /\ st.asked \subseteq TaskIds
  BY DEF Upserted, Adding
<1>2. Ids(st.q) \subseteq TaskIds
  BY <1>1, QueueIds
<1>3. id \in TaskIds /\ id \notin UsedIds /\ id \notin Ids(st.q)
  <2>1. IsFiniteSet(Ids(st.q) \ UsedIds) /\ IsFiniteSet(TaskIds \ UsedIds)
    BY <1>2, QueueAssumption, FS_Subset
  <2>2. Cardinality(Ids(st.q) \ UsedIds) <= n
    BY DEF Upserted
  <2>3. Cardinality(Ids(st.q) \ UsedIds) \in Nat /\ Cardinality(TaskIds \ UsedIds) \in Nat
    BY <2>1, FS_CardinalityType
  <2>4. Ids(st.q) \ UsedIds # TaskIds \ UsedIds
    BY <2>2, <2>3
  <2>5. TaskIds \ (UsedIds \cup Ids(st.q)) # {}
    BY <1>2, <2>4
  <2>6. id \in TaskIds \ (UsedIds \cup Ids(st.q))
    BY <2>5 DEF NewId
  <2> QED BY <2>6
<1>4. nx = [st EXCEPT !.q = Append(@, t), !.asked = @ \cup {id}]
  BY DEF Upsert, NewId
<1>5. nx = [q |-> w, asked |-> st.asked \cup {id}]
  BY <1>1, <1>4 DEF Adding
<1>6. t \in Task /\ t.id = id /\ t.proj = cur /\ t.st = "pending"
  BY <1>3 DEF NewTask, Task, Statuses
<1> HIDE DEF t, id, nx
<1>7. /\ w \in Queues /\ Ids(w) = Ids(st.q) \cup {id}
      /\ \A i \in DOMAIN w : (i \in DOMAIN st.q /\ w[i] = st.q[i]) \/ w[i] = t
  BY <1>1, <1>3, <1>6, AddTask
<1> HIDE DEF w
<1>8. nx \in Adding /\ Ids(queue) \subseteq Ids(nx.q) /\ nx.asked \subseteq Ids(nx.q)
      /\ Ids(nx.q) \ Ids(queue) \subseteq nx.asked /\ nx.q = w
  BY <1>1, <1>3, <1>5, <1>7 DEF Adding, Upserted
<1>9. Cardinality(Ids(nx.q) \ UsedIds) <= n + 1
  <2>1. Ids(nx.q) \ UsedIds = (Ids(st.q) \ UsedIds) \cup {id}
    BY <1>3, <1>7, <1>8
  <2>2. IsFiniteSet(Ids(st.q) \ UsedIds)
    BY <1>2, QueueAssumption, FS_Subset
  <2>3. Cardinality(Ids(nx.q) \ UsedIds) = Cardinality(Ids(st.q) \ UsedIds) + 1
    BY <1>3, <2>1, <2>2, FS_AddElement
  <2>4. Cardinality(Ids(st.q) \ UsedIds) <= n /\ Cardinality(Ids(st.q) \ UsedIds) \in Nat
    BY <2>2, FS_CardinalityType DEF Upserted
  <2> QED BY <2>3, <2>4
<1>10. ASSUME NEW k \in DOMAIN w
       PROVE  \/ \E l \in DOMAIN queue :
                /\ queue[l].id = w[k].id /\ queue[l].proj = w[k].proj
                /\ \/ w[k].st = queue[l].st
                   \/ w[k].st = "pending" /\ queue[l].st # "processing"
              \/ w[k].id \notin UsedIds /\ w[k].proj = cur /\ w[k].st = "pending"
  <2>1. CASE k \in DOMAIN st.q /\ w[k] = st.q[k]
    BY <2>1 DEF Upserted
  <2>2. CASE w[k] = t
    BY <1>3, <1>6, <2>2
  <2> QED BY <1>7, <2>1, <2>2
<1> QED BY <1>8, <1>9, <1>10 DEF Upserted, nx

LEMMA UpsertFacts ==
  ASSUME NEW n \in Nat, NEW st, Upserted(st, n), NEW s \in Sources,
         cur \in Projects, n < Cardinality(TaskIds \ UsedIds)
  PROVE  Upserted(Upsert(st, s), n + 1)
  BY UpsertReuses, UpsertAdds

LEMMA UpsertedNone ==
  ASSUME queue \in Queues
  PROVE  Upserted([q |-> queue, asked |-> {}], 0)
<1>1. Ids(queue) \ UsedIds = {}
  BY UsedQueue
<1>2. Cardinality(Ids(queue) \ UsedIds) = 0
  BY <1>1, FS_EmptySet
<1> QED BY <1>2 DEF Upserted, Adding

UpsertRound(files, f, n) ==
    IF n = 0 THEN [q |-> queue, asked |-> {}] ELSE Upsert(f[n - 1], files[n])

IsUpsert(files, f, m) == f = [n \in 0..m |-> UpsertRound(files, f, n)]

\* The loop's recursive definition has a solution.
LEMMA UpsertExists ==
  ASSUME NEW files, NEW m \in Nat
  PROVE  \E f : IsUpsert(files, f, m)
<1> DEFINE Good == {n \in Nat : \E f : IsUpsert(files, f, n)}
<1>1. 0 \in Good
  <2> DEFINE f == [n \in 0..0 |-> [q |-> queue, asked |-> {}]]
  <2>1. IsUpsert(files, f, 0)
    BY DEF IsUpsert, UpsertRound
  <2> QED BY <2>1
<1>2. ASSUME NEW n \in Good PROVE n + 1 \in Good
  <2>1. PICK f : IsUpsert(files, f, n)
    OBVIOUS
  <2> DEFINE g == [k \in 0..n + 1 |-> IF k <= n THEN f[k] ELSE UpsertRound(files, f, k)]
  <2>2. ASSUME NEW k \in 0..n + 1 PROVE g[k] = UpsertRound(files, g, k)
    <3>1. CASE k <= n
      <4>1. g[k] = f[k] /\ f[k] = UpsertRound(files, f, k)
        BY <2>1, <3>1 DEF IsUpsert
      <4>2. k # 0 => g[k - 1] = f[k - 1]
        BY <3>1
      <4> QED BY <4>1, <4>2 DEF UpsertRound
    <3>2. CASE k = n + 1
      <4>1. g[k] = UpsertRound(files, f, k) /\ g[k - 1] = f[k - 1]
        BY <3>2
      <4> QED BY <4>1 DEF UpsertRound
    <3> QED BY <3>1, <3>2
  <2>3. IsUpsert(files, g, n + 1)
    BY <2>2 DEF IsUpsert
  <2> QED BY <2>3
<1>3. Good = Nat
  <2> HIDE DEF Good
  <2> QED BY <1>1, <1>2, InductiveSet DEF Good
<1> QED BY <1>3

LEMMA UpsertAllFacts ==
  ASSUME queue \in Queues, cur \in Projects, NEW files \in Seq(Sources),
         Cardinality(TaskIds \ UsedIds) >= Len(files)
  PROVE  Upserted(UpsertAll(files), Len(files))
<1> DEFINE f == CHOOSE g : IsUpsert(files, g, Len(files))
           N == Cardinality(TaskIds \ UsedIds)
<1>1. Len(files) \in Nat /\ IsUpsert(files, f, Len(files))
  BY UpsertExists
<1>2. UpsertAll(files) = f[Len(files)]
  BY DEF UpsertAll, IsUpsert, UpsertRound
<1> HIDE DEF f
<1>3. N \in Nat
  BY QueueAssumption, FS_Subset, FS_CardinalityType
<1> DEFINE Good == {n \in Nat : n <= Len(files) => Upserted(f[n], n)}
<1>4. 0 \in Good
  <2>1. f[0] = [q |-> queue, asked |-> {}]
    BY <1>1 DEF IsUpsert, UpsertRound
  <2> QED BY <2>1, UpsertedNone
<1>5. ASSUME NEW n \in Good PROVE n + 1 \in Good
  <2> SUFFICES ASSUME n + 1 <= Len(files) PROVE Upserted(f[n + 1], n + 1)
    OBVIOUS
  <2>1. n \in Nat /\ Upserted(f[n], n) /\ n < N /\ files[n + 1] \in Sources
    BY <1>1, <1>3
  <2>2. f[n + 1] = Upsert(f[n], files[n + 1])
    <3>1. n + 1 \in 0..Len(files) /\ n + 1 # 0 /\ (n + 1) - 1 = n
      BY <1>1, <2>1
    <3> QED BY <1>1, <3>1 DEF IsUpsert, UpsertRound
  <2> HIDE DEF N
  <2>3. n < Cardinality(TaskIds \ UsedIds)
    BY <2>1 DEF N
  <2> QED BY <2>1, <2>2, <2>3, UpsertFacts
<1>6. Good = Nat
  <2> HIDE DEF Good
  <2> QED BY <1>4, <1>5, InductiveSet DEF Good
<1> QED BY <1>1, <1>2, <1>6
-----------------------------------------------------------------------------
(* Typing *)

MemTyped ==
    /\ cur \in Projects \cup {NoProject}
    /\ queue \in Queues
    /\ restored \subseteq TaskIds /\ cancelling \subseteq TaskIds
    /\ active \in [TaskIds -> RunIds \cup {NoRun}]
    /\ paused \in BOOLEAN /\ limit \in Limits
    /\ timer \in Projects \cup {NoProject}

SchedTyped ==
    /\ scheduling \in BOOLEAN /\ drainDue \in BOOLEAN
    /\ scheds \in [SchedIds -> Sched]

RunsTyped == runs \in [RunIds -> Run]

SwitchTyped ==
    /\ closing \in [pc: {"idle", "commits", "save1", "save2"}, proj: Projects,
                    waiting: SUBSET RunIds]
    /\ opening \in [pc: {"idle", "load", "save"}, proj: Projects, waits: BOOLEAN]
    /\ overlapped \in BOOLEAN

FilesTyped ==
    /\ writes \in Seq(Write)
    /\ inactive \in [pc: {"idle", "load", "write"}, proj: Projects, src: Sources,
                     tasks: Queues]
    /\ disk \in [Projects -> Queues] /\ lost \subseteq Projects

BookTyped == calls \in 0..MaxCalls /\ settled \subseteq TaskIds

TypeInv ==
    MemTyped /\ SchedTyped /\ RunsTyped /\ SwitchTyped /\ FilesTyped /\ BookTyped

LEMMA TypeInvGives == TypeInv => TypeOK
<1> SUFFICES ASSUME TypeInv PROVE TypeOK
  OBVIOUS
<1>1. Queues \subseteq Seq(Task)
  BY DEF Queues
<1>2. writes \in Seq([proj: Projects, tasks: Seq(Task), k: WriteKinds])
  <2>1. writes \in Seq(Write)
    BY DEF TypeInv, FilesTyped
  <2>2. Write \subseteq [proj: Projects, tasks: Seq(Task), k: WriteKinds]
    BY <1>1 DEF Write
  <2> QED BY <2>1, <2>2, SeqWider
<1>3. inactive \in [pc: {"idle", "load", "write"}, proj: Projects, src: Sources,
                    tasks: Seq(Task)] /\ disk \in [Projects -> Seq(Task)] /\ queue \in Seq(Task)
  BY <1>1 DEF TypeInv, FilesTyped, MemTyped
<1>4. lost \subseteq Projects
  BY DEF TypeInv, FilesTyped
<1> QED BY <1>2, <1>3, <1>4 DEF TypeInv, TypeOK, MemTyped, SchedTyped, RunsTyped, SwitchTyped,
                                BookTyped

LEMMA Anyone == AnyProject \in Projects /\ AnyTask \in TaskIds
                /\ (CHOOSE s \in Sources : TRUE) \in Sources
  BY QueueAssumption DEF AnyProject, AnyTask

LEMMA FreeTyped ==
  /\ FreeRun \in Run /\ FreeSched \in Sched
  /\ IdleClosing \in [pc: {"idle", "commits", "save1", "save2"}, proj: Projects,
                      waiting: SUBSET RunIds]
  /\ IdleOpening \in [pc: {"idle", "load", "save"}, proj: Projects, waits: BOOLEAN]
  /\ IdleInactive \in [pc: {"idle", "load", "write"}, proj: Projects, src: Sources,
                       tasks: Queues]
<1>1. FreeRun \in Run
  BY Anyone DEF FreeRun, Run
<1>2. FreeSched \in Sched
  BY Anyone DEF FreeSched, Sched
<1>3. IdleInactive \in [pc: {"idle", "load", "write"}, proj: Projects, src: Sources,
                       tasks: Queues]
  BY Anyone, EmptyQueue DEF IdleInactive
<1> QED BY <1>1, <1>2, <1>3, Anyone DEF IdleClosing, IdleOpening

LEMMA TypeInvInit == Init => TypeInv
<1> SUFFICES ASSUME Init PROVE TypeInv
  OBVIOUS
<1>1. << >> \in Seq(Write) /\ 0 \in 0..MaxCalls
  BY QueueAssumption
<1>2. MemTyped
  BY EmptyQueue DEF Init, ProcessStart, MemTyped
<1>3. SchedTyped /\ RunsTyped /\ SwitchTyped
  BY FreeTyped DEF Init, ProcessStart, SchedTyped, RunsTyped, SwitchTyped
<1>4. FilesTyped /\ BookTyped
  BY <1>1, FreeTyped, EmptyQueue DEF Init, ProcessStart, FilesTyped, BookTyped
<1> QED BY <1>2, <1>3, <1>4 DEF TypeInv

-----------------------------------------------------------------------------
(* Saves *)

\* A save is put behind the writes `waiting`.
Saved(waiting, p, k) ==
    /\ writes' \in Seq(Write) /\ Len(writes') = Len(waiting) + 1
    /\ DOMAIN writes' = DOMAIN waiting \cup {Len(waiting) + 1}
    /\ Len(waiting) + 1 \notin DOMAIN waiting
    /\ \A j \in DOMAIN waiting : writes'[j] = waiting[j]
    /\ writes'[Len(waiting) + 1] = [proj |-> p, tasks |-> queue', k |-> k]

LEMMA SaveFacts ==
  ASSUME NEW waiting \in Seq(Write), NEW p \in Projects, NEW k \in WriteKinds,
         queue' \in Queues, writes' = Append(waiting, Request(p, k))
  PROVE  Saved(waiting, p, k)
<1> DEFINE w == [proj |-> p, tasks |-> queue', k |-> k]
<1>1. w \in Write
  BY DEF Write
<1>2. writes' = Append(waiting, w)
  BY DEF Request
<1> HIDE DEF w
<1>3. writes' \in Seq(Write) /\ Len(writes') = Len(waiting) + 1
      /\ DOMAIN writes' = DOMAIN waiting \cup {Len(waiting) + 1}
      /\ Len(waiting) + 1 \notin DOMAIN waiting
      /\ (\A j \in DOMAIN waiting : writes'[j] = waiting[j])
      /\ writes'[Len(waiting) + 1] = w
  BY <1>1, <1>2, AppendFacts
<1> QED BY <1>3 DEF Saved, w

LEMMA Kinds ==
  /\ <<"none">> \in WriteKinds /\ <<"next">> \in WriteKinds /\ <<"close">> \in WriteKinds
  /\ \A i \in SchedIds : <<"sched", i>> \in WriteKinds
  /\ \A r \in RunIds, b \in BOOLEAN : <<"run", r, b>> \in WriteKinds
  /\ \A b \in BOOLEAN : <<"open", b>> \in WriteKinds
  BY DEF WriteKinds

LEMMA SaveTyped ==
  ASSUME TypeInv, NEW p \in Projects, NEW k \in WriteKinds, queue' \in Queues, Save(p, k)
  PROVE  Saved(writes, p, k)
  BY SaveFacts DEF TypeInv, FilesTyped, Save

\* A write of p's file has reached it, or has not, or has cut it off; the
\* second is all that is known of the files a crash may cut off.
Reached(p, tasks) ==
    \A x \in Projects : \/ disk'[x] = disk[x] /\ (x \in lost' <=> x \in lost)
                        \/ x = p /\ disk'[x] = tasks /\ x \notin lost'
                        \/ disk'[x] = << >> /\ x \in lost'

CutOff ==
    \A x \in Projects : \/ disk'[x] = disk[x] /\ (x \in lost' <=> x \in lost)
                        \/ disk'[x] = << >> /\ x \in lost'

FilesStay == disk' \in [Projects -> Queues] /\ lost' \subseteq Projects

LEMMA CutFacts ==
  ASSUME TypeInv, NEW S \in SUBSET Projects, Cut(S)
  PROVE  FilesStay /\ CutOff
<1>1. disk \in [Projects -> Queues] /\ lost \subseteq Projects /\ << >> \in Queues
  BY EmptyQueue DEF TypeInv, FilesTyped
<1>2. lost' \subseteq Projects
  BY <1>1 DEF Cut
<1>3. disk' \in [Projects -> Queues]
  BY <1>1 DEF Cut
<1>4. CutOff
  BY <1>1 DEF Cut, CutOff
<1> QED BY <1>2, <1>3, <1>4 DEF FilesStay

LEMMA WriteFileFacts ==
  ASSUME TypeInv, NEW p \in Projects, NEW tasks \in Queues, WriteFile(p, tasks)
  PROVE  FilesStay /\ Reached(p, tasks)
<1>1. disk \in [Projects -> Queues] /\ lost \subseteq Projects
  BY DEF TypeInv, FilesTyped
<1>2. CASE disk' = [disk EXCEPT ![p] = tasks] /\ lost' = lost \ {p}
  BY <1>1, <1>2 DEF FilesStay, Reached
<1>3. CASE UNCHANGED <<disk, lost>>
  BY <1>1, <1>3 DEF FilesStay, Reached
<1>4. CASE Cut({p})
  BY <1>4, CutFacts DEF CutOff, Reached
<1> QED BY <1>2, <1>3, <1>4 DEF WriteFile

\* What is true of the first write and of the rest of them.
LEMMA WrittenFacts ==
  ASSUME TypeInv, Written
  PROVE  /\ writes # << >> /\ Head(writes) = writes[1] /\ 1 \in DOMAIN writes
         /\ writes[1] \in Write /\ Tail(writes) \in Seq(Write)
         /\ Len(Tail(writes)) = Len(writes) - 1
         /\ \A i \in DOMAIN Tail(writes) : i \in Nat /\ i + 1 \in DOMAIN writes
                                           /\ Tail(writes)[i] = writes[i + 1]
         /\ FilesStay /\ Reached(writes[1].proj, writes[1].tasks)
<1>1. writes \in Seq(Write) /\ writes # << >> /\ disk \in [Projects -> Queues]
  BY DEF TypeInv, FilesTyped, Written
<1>2. /\ Tail(writes) \in Seq(Write) /\ Len(Tail(writes)) = Len(writes) - 1
      /\ 1 \in DOMAIN writes /\ Head(writes) = writes[1] /\ writes[1] \in Write
      /\ \A i \in DOMAIN Tail(writes) : i + 1 \in DOMAIN writes
                                        /\ Tail(writes)[i] = writes[i + 1]
  BY <1>1, TailFacts
<1>3. writes[1].proj \in Projects /\ writes[1].tasks \in Queues
  BY <1>2 DEF Write
<1>4. DOMAIN Tail(writes) \subseteq Nat
  BY <1>2
<1>5. WriteFile(writes[1].proj, writes[1].tasks)
  BY <1>2 DEF Written
<1>6. FilesStay /\ Reached(writes[1].proj, writes[1].tasks)
  BY <1>3, <1>5, WriteFileFacts
<1> QED BY <1>1, <1>2, <1>4, <1>6
-----------------------------------------------------------------------------
(* processNext *)

Waiting(i, p) == [pc |-> "registry", task |-> i, own |-> TRUE, proj |-> p,
                  fresh |-> TRUE, run |-> NoRun]

\* The call i of processNext looks up a task of p that may run now.
LooksUp(i, p) ==
    /\ ActiveCount < limit' /\ cur' = p /\ ~ paused' /\ p \in Projects
    /\ UNCHANGED drainDue
    /\ \E k \in DOMAIN queue' :
          /\ queue'[k].st = "pending" /\ queue'[k].proj = p
          /\ active'[queue'[k].id] = NoRun /\ queue'[k].id \notin restored'
          /\ scheds' = [scheds EXCEPT ![i] = Waiting(queue'[k].id, p)]

\* It ends, there being no worker or no such task.
Stops(i, p) ==
    /\ ~ (ActiveCount < limit' /\ cur' = p /\ ~ paused' /\ Runnable(p) # {})
    /\ scheds' = [scheds EXCEPT ![i] = FreeSched]
    /\ scheduling' = FALSE
    /\ drainDue' \in BOOLEAN

\* Nothing to do.
Idles(p) == (scheduling \/ cur' # p \/ p = NoProject \/ paused') /\ UNCHANGED sched

LEMMA LoopFacts ==
  ASSUME SchedTyped, NEW i \in SchedIds, NEW p \in Projects, NEW entered \in BOOLEAN,
         queue' \in Queues, Loop(i, p, entered)
  PROVE  (LooksUp(i, p) /\ scheduling' = entered) \/ Stops(i, p)
<1>1. CASE ActiveCount < limit' /\ cur' = p /\ ~ paused' /\ Runnable(p) # {}
  <2> DEFINE k == CHOOSE k \in Runnable(p) : \A l \in Runnable(p) : k <= l
  <2>1. Runnable(p) \subseteq DOMAIN queue' /\ DOMAIN queue' \subseteq Nat
    BY DEF Runnable, Queues
  <2>2. k \in Runnable(p)
    BY <1>1, <2>1, FirstExists
  <2>3. /\ scheds' = [scheds EXCEPT ![i] = Waiting(queue'[k].id, p)]
        /\ scheduling' = entered /\ UNCHANGED drainDue
    BY <1>1 DEF Loop, Waiting
  <2> HIDE DEF k
  <2> QED BY <1>1, <2>1, <2>2, <2>3 DEF LooksUp, Runnable
<1>2. CASE ~ (ActiveCount < limit' /\ cur' = p /\ ~ paused' /\ Runnable(p) # {})
  <2>1. /\ scheds' = [scheds EXCEPT ![i] = FreeSched] /\ scheduling' = FALSE
        /\ drainDue' \in BOOLEAN
    BY <1>2 DEF Loop, SchedTyped
  <2> QED BY <1>2, <2>1 DEF Stops
<1> QED BY <1>1, <1>2

LEMMA KickFacts ==
  ASSUME SchedTyped, NEW p \in Projects \cup {NoProject}, queue' \in Queues, Kick(p)
  PROVE  \/ Idles(p)
         \/ ~ scheduling /\ p \in Projects
            /\ \E i \in SchedIds : /\ scheds[i].pc = "none"
                                   /\ (LooksUp(i, p) /\ scheduling' = TRUE) \/ Stops(i, p)
<1>1. CASE Idles(p)
  BY <1>1
<1>2. CASE ~ (scheduling \/ cur' # p \/ p = NoProject \/ paused')
  <2>1. PICK i \in SchedIds : scheds[i].pc = "none" /\ Loop(i, p, TRUE)
    BY <1>2 DEF Kick
  <2>2. p \in Projects
    BY <1>2
  <2>3. (LooksUp(i, p) /\ scheduling' = TRUE) \/ Stops(i, p)
    BY <2>1, <2>2, LoopFacts
  <2> QED BY <1>2, <2>1, <2>2, <2>3
<1> QED BY <1>1, <1>2 DEF Kick, Idles

LEMMA GoOnFacts ==
  ASSUME SchedTyped, NEW i \in SchedIds, queue' \in Queues, GoOn(i)
  PROVE  LET p == scheds[i].proj IN
         p \in Projects /\ ((LooksUp(i, p) /\ UNCHANGED scheduling) \/ Stops(i, p))
<1>1. scheds[i].proj \in Projects /\ scheduling \in BOOLEAN
  BY DEF SchedTyped, Sched
<1> QED BY <1>1, LoopFacts DEF GoOn

LEMMA LooksUpTyped ==
  ASSUME SchedTyped, NEW i \in SchedIds, NEW p \in Projects, queue' \in Queues, LooksUp(i, p),
         scheduling' \in BOOLEAN
  PROVE  SchedTyped'
<1>1. PICK k \in DOMAIN queue' : scheds' = [scheds EXCEPT ![i] = Waiting(queue'[k].id, p)]
  BY DEF LooksUp
<1>2. queue'[k].id \in TaskIds
  BY QueueTasks
<1>3. Waiting(queue'[k].id, p) \in Sched
  BY <1>2 DEF Waiting, Sched
<1> QED BY <1>1, <1>3 DEF SchedTyped, LooksUp

LEMMA StopsTyped ==
  ASSUME SchedTyped, NEW i \in SchedIds, NEW p, Stops(i, p)
  PROVE  SchedTyped'
  BY FreeTyped DEF SchedTyped, Stops

LEMMA KickTyped ==
  ASSUME SchedTyped, NEW p \in Projects \cup {NoProject}, queue' \in Queues, Kick(p)
  PROVE  SchedTyped'
<1>1. CASE Idles(p)
  BY <1>1 DEF Idles, SchedTyped, sched
<1>2. CASE p \in Projects /\ \E i \in SchedIds : (LooksUp(i, p) /\ scheduling' = TRUE)
                                                 \/ Stops(i, p)
  BY <1>2, LooksUpTyped, StopsTyped
<1> QED BY <1>1, <1>2, KickFacts

LEMMA GoOnTyped ==
  ASSUME SchedTyped, NEW i \in SchedIds, queue' \in Queues, GoOn(i)
  PROVE  SchedTyped'
<1>1. scheds[i].proj \in Projects /\ scheduling \in BOOLEAN
  BY DEF SchedTyped, Sched
<1>2. CASE LooksUp(i, scheds[i].proj) /\ UNCHANGED scheduling
  BY <1>1, <1>2, LooksUpTyped
<1>3. CASE Stops(i, scheds[i].proj)
  BY <1>3, StopsTyped
<1> QED BY <1>2, <1>3, GoOnFacts

-----------------------------------------------------------------------------
(* Calls of the user on the tasks of the open project *)

\* Runs change in nothing but their flags.
Flagged(S) ==
    /\ runs' \in [RunIds -> Run]
    /\ \A r \in RunIds \ S :
          /\ runs'[r].stage = runs[r].stage /\ runs'[r].task = runs[r].task
          /\ runs'[r].own = runs[r].own /\ runs'[r].proj = runs[r].proj
          /\ runs'[r].fresh = runs[r].fresh
          /\ runs[r].aborted => runs'[r].aborted

Working(r) == runs[r].stage \in {"save", "prepare", "commit"} /\ runs[r].fresh

\* Where the tasks of the next queue come from, and where those that are
\* processed, cancelled or gone go to.
Tracked ==
    /\ \A k \in DOMAIN queue' :
          \/ \E l \in DOMAIN queue :
                /\ queue[l].id = queue'[k].id /\ queue[l].proj = queue'[k].proj
                /\ queue'[k].st \in {queue[l].st, "pending", "cancelled"}
          \/ queue'[k].id \notin UsedIds /\ queue'[k].proj = cur /\ queue'[k].st = "pending"
    /\ \A k \in DOMAIN queue' :
          queue'[k].st = "processing" /\ queue'[k].id \in cancelling'
             => queue'[k].id \in cancelling
    /\ cancelling \subseteq cancelling'
    /\ cancelling' \ cancelling \subseteq Having(queue, "processing")
    /\ \A l \in DOMAIN queue : queue[l].st = "processing" /\ queue[l].proj = cur =>
          \/ queue[l].id \in cancelling' \/ "pause" \in Calls
          \/ \A k \in DOMAIN queue' : queue'[k].id = queue[l].id => queue'[k].st = "processing"
    /\ \A r \in RunIds : runs'[r].unwanted /\ ~ runs[r].unwanted =>
          /\ Working(r) /\ runs[r].task \in Ids(queue)
          /\ \A l \in DOMAIN queue :
                queue[l].id = runs[r].task /\ queue[l].st = "processing" /\ queue[l].proj = cur
                   => queue[l].id \in cancelling'

\* When no processNext follows the save, no task can run that could not before.
NoneFreed ==
    \A k \in DOMAIN queue' : queue'[k].st = "pending" /\ queue'[k].id \notin restored' =>
       ~ paused /\ \E l \in DOMAIN queue : /\ queue[l].id = queue'[k].id
                                           /\ queue[l].st = "pending" /\ queue[l].id \notin restored

\* Tasks leave the queue only when they are settled.
Accounted ==
    /\ Ids(queue) \ settled' \subseteq Ids(queue')
    /\ Ids(queue') \cap settled' \subseteq Ids(queue) \cap settled
    /\ settled \ settled' \subseteq Ids(queue) \cup (TaskIds \ UsedIds)

\* What the calls have in common that change the queue.
Edit ==
    /\ UNCHANGED <<cur, active, limit, sched, switch, inactive, disk, lost>>
    /\ cur \in Projects /\ (Switching => "calls" \in Overlap)
    /\ calls' \in 0..MaxCalls /\ settled' \subseteq TaskIds
    /\ queue' \in Queues /\ restored' \subseteq restored
    /\ cancelling' \subseteq TaskIds
    /\ paused' \in BOOLEAN /\ timer' \in {timer, NoProject}
    /\ Flagged({}) /\ Tracked /\ Accounted
    /\ \/ Saved(writes, cur, <<"next">>)
       \/ (Saved(writes, cur, <<"none">>) \/ UNCHANGED writes) /\ (paused' \/ NoneFreed)

LEMMA AbortFlags ==
  ASSUME TypeInv, NEW S, NEW T, AbortUnwanted(S, T)
  PROVE  /\ Flagged({})
         /\ \A r \in RunIds : runs'[r].unwanted /\ ~ runs[r].unwanted
                                 => Working(r) /\ runs[r].task \in T
<1>1. \A r \in RunIds : runs[r] \in Run
  BY DEF TypeInv, RunsTyped
<1>2. ASSUME NEW r \in RunIds
      PROVE  /\ runs'[r] \in Run
             /\ runs'[r].stage = runs[r].stage /\ runs'[r].task = runs[r].task
             /\ runs'[r].own = runs[r].own /\ runs'[r].proj = runs[r].proj
             /\ runs'[r].fresh = runs[r].fresh
             /\ runs[r].aborted => runs'[r].aborted
             /\ runs'[r].unwanted /\ ~ runs[r].unwanted => Working(r) /\ runs[r].task \in T
  <2>1. runs'[r] = [runs[r] EXCEPT
           !.aborted = @ \/ r \in S,
           !.unwanted = @ \/ (runs[r].stage \in {"save", "prepare", "commit"}
                              /\ runs[r].task \in T /\ runs[r].fresh)]
    BY DEF AbortUnwanted
  <2> QED BY <1>1, <2>1 DEF Run, Working
<1>3. runs' = [r \in RunIds |-> runs'[r]]
  BY DEF AbortUnwanted
<1>4. runs' \in [RunIds -> Run]
  BY <1>2, <1>3
<1> QED BY <1>2, <1>4 DEF Flagged

LEMMA AbortOnly ==
  ASSUME TypeInv, NEW S, Abort(S)
  PROVE  Flagged({}) /\ \A r \in RunIds : runs'[r].unwanted = runs[r].unwanted
<1>1. \A r \in RunIds : runs[r] \in Run
  BY DEF TypeInv, RunsTyped
<1>2. ASSUME NEW r \in RunIds
      PROVE  /\ runs'[r] \in Run
             /\ runs'[r].stage = runs[r].stage /\ runs'[r].task = runs[r].task
             /\ runs'[r].own = runs[r].own /\ runs'[r].proj = runs[r].proj
             /\ runs'[r].fresh = runs[r].fresh
             /\ runs[r].aborted => runs'[r].aborted
             /\ runs'[r].unwanted = runs[r].unwanted
  BY <1>1 DEF Abort, Run
<1>3. runs' = [r \in RunIds |-> runs'[r]]
  BY DEF Abort
<1>4. runs' \in [RunIds -> Run]
  BY <1>2, <1>3
<1> QED BY <1>2, <1>4 DEF Flagged

LEMMA SameRuns ==
  ASSUME TypeInv, UNCHANGED runs
  PROVE  Flagged({}) /\ \A r \in RunIds : runs'[r].unwanted = runs[r].unwanted
  BY DEF TypeInv, RunsTyped, Flagged

LEMMA MineFacts ==
  ASSUME TypeInv
  PROVE  /\ Mine \subseteq Ids(queue) /\ Ids(queue) \subseteq TaskIds
         /\ \A l \in DOMAIN queue : queue[l].id \in Mine <=> queue[l].proj = cur
         /\ Mine # {} => cur \in Projects
<1>1. queue \in Queues
  BY DEF TypeInv, MemTyped
<1>2. \A l \in DOMAIN queue : queue[l].id \in Mine <=> queue[l].proj = cur
  BY <1>1, QueueTasks DEF Mine
<1>3. Mine # {} => cur \in Projects
  BY <1>1, QueueIds DEF Mine, Task
<1> QED BY <1>1, <1>2, <1>3, QueueIds DEF Mine

\* The tasks of S get a new status.
LEMMA StampTracked ==
  ASSUME TypeInv, NEW S, NEW st \in {"pending", "cancelled"}, Stamped(queue, queue', S, st),
         cancelling \subseteq cancelling',
         cancelling' \ cancelling \subseteq S \cap Having(queue, "processing"),
         \/ S \cap Mine \cap Having(queue, "processing") \subseteq cancelling'
         \/ "pause" \in Calls /\ \A r \in RunIds : runs'[r].unwanted = runs[r].unwanted,
         \A r \in RunIds : runs'[r].unwanted /\ ~ runs[r].unwanted
                              => Working(r) /\ runs[r].task \in S \cap Ids(queue)
  PROVE  Tracked
<1>1. queue \in Queues
  BY DEF TypeInv, MemTyped
<1>2. /\ DOMAIN queue' = DOMAIN queue
      /\ \A i \in DOMAIN queue :
            /\ queue'[i].id = queue[i].id /\ queue'[i].proj = queue[i].proj
            /\ queue'[i].st = IF queue[i].id \in S THEN st ELSE queue[i].st
  BY DEF Stamped, Altered
<1>3. \A l \in DOMAIN queue :
         /\ queue[l].id \in Having(queue, "processing") <=> queue[l].st = "processing"
         /\ queue[l].id \in Mine <=> queue[l].proj = cur
  BY <1>1, HavingFacts, MineFacts
<1>4. \A k \in DOMAIN queue' : queue'[k].st = "processing" => queue[k].id \notin S
  BY <1>2
<1>5. \A l \in DOMAIN queue : queue[l].st = "processing" /\ queue[l].proj = cur =>
          \/ queue[l].id \in cancelling' \/ "pause" \in Calls
          \/ \A k \in DOMAIN queue' : queue'[k].id = queue[l].id => queue'[k].st = "processing"
  <2> TAKE l \in DOMAIN queue
  <2> HAVE queue[l].st = "processing" /\ queue[l].proj = cur
  <2>1. CASE queue[l].id \in S
    BY <1>3, <2>1
  <2>2. CASE queue[l].id \notin S
    <3>1. \A k \in DOMAIN queue' : queue'[k].id = queue[l].id => k = l
      BY <1>1, <1>2 DEF Queues, Distinct
    <3> QED BY <1>2, <2>2, <3>1
  <2> QED BY <2>1, <2>2
<1>6. \A r \in RunIds : runs'[r].unwanted /\ ~ runs[r].unwanted =>
          /\ Working(r) /\ runs[r].task \in Ids(queue)
          /\ \A l \in DOMAIN queue :
                queue[l].id = runs[r].task /\ queue[l].st = "processing" /\ queue[l].proj = cur
                   => queue[l].id \in cancelling'
  BY <1>3
<1>7. \A k \in DOMAIN queue' :
          queue'[k].st = "processing" /\ queue'[k].id \in cancelling'
             => queue'[k].id \in cancelling
  BY <1>2, <1>4
<1>8. cancelling' \ cancelling \subseteq Having(queue, "processing")
  OBVIOUS
<1> QED BY <1>2, <1>5, <1>6, <1>7, <1>8 DEF Tracked

\* The tasks of S are taken out.
LEMMA LeftTracked ==
  ASSUME TypeInv, NEW S, Left(queue, queue', S),
         cancelling \subseteq cancelling',
         cancelling' \ cancelling \subseteq S \cap Having(queue, "processing"),
         S \cap Having(queue, "processing") \subseteq cancelling',
         \A r \in RunIds : runs'[r].unwanted /\ ~ runs[r].unwanted
                              => Working(r) /\ runs[r].task \in S \cap Ids(queue)
  PROVE  Tracked
<1>1. queue \in Queues
  BY DEF TypeInv, MemTyped
<1>2. /\ queue' \in Queues /\ Ids(queue') = Ids(queue) \ S
      /\ \A i \in DOMAIN queue' : \E k \in DOMAIN queue : queue'[i] = queue[k]
  BY DEF Left
<1>3. \A l \in DOMAIN queue :
         queue[l].id \in Having(queue, "processing") <=> queue[l].st = "processing"
  BY <1>1, HavingFacts
<1>4. \A k \in DOMAIN queue' : queue'[k].id \notin S
  BY <1>2, QueueTasks
<1>5. \A l \in DOMAIN queue : queue[l].st = "processing" /\ queue[l].proj = cur =>
          \/ queue[l].id \in cancelling'
          \/ \A k \in DOMAIN queue' : queue'[k].id = queue[l].id => queue'[k].st = "processing"
  <2> TAKE l \in DOMAIN queue
  <2> HAVE queue[l].st = "processing" /\ queue[l].proj = cur
  <2>1. ASSUME NEW k \in DOMAIN queue', queue'[k].id = queue[l].id
        PROVE  queue'[k].st = "processing"
    <3>1. PICK m \in DOMAIN queue : queue'[k] = queue[m]
      BY <1>2
    <3>2. m = l
      BY <1>1, <2>1, <3>1 DEF Queues, Distinct
    <3> QED BY <3>1, <3>2
  <2> QED BY <2>1
<1>6. \A r \in RunIds : runs'[r].unwanted /\ ~ runs[r].unwanted =>
          /\ Working(r) /\ runs[r].task \in Ids(queue)
          /\ \A l \in DOMAIN queue :
                queue[l].id = runs[r].task /\ queue[l].st = "processing" /\ queue[l].proj = cur
                   => queue[l].id \in cancelling'
  BY <1>3
<1>7. \A k \in DOMAIN queue' : queue'[k].id \in cancelling' => queue'[k].id \in cancelling
  BY <1>4
<1>8. \A k \in DOMAIN queue' : \E l \in DOMAIN queue :
         /\ queue[l].id = queue'[k].id /\ queue[l].proj = queue'[k].proj
         /\ queue'[k].st = queue[l].st
  BY <1>2
<1>9. cancelling' \ cancelling \subseteq Having(queue, "processing")
  OBVIOUS
<1> QED BY <1>5, <1>6, <1>7, <1>8, <1>9 DEF Tracked

LEMMA CallFacts ==
  ASSUME TypeInv, NEW op, Call(op)
  PROVE  calls' \in 0..MaxCalls /\ op \in Calls /\ (Switching => "calls" \in Overlap)
<1>1. calls \in 0..MaxCalls /\ MaxCalls \in Nat
  BY QueueAssumption DEF TypeInv, BookTyped
<1>2. calls < MaxCalls /\ calls' = calls + 1
  BY DEF Call
<1> QED BY <1>1, <1>2 DEF Call

LEMMA Unsettled ==
  ASSUME TypeInv, Ids(queue') = Ids(queue), UNCHANGED settled
  PROVE  Accounted /\ settled' \subseteq TaskIds
  BY DEF Accounted, TypeInv, BookTyped

LEMMA SettledNow ==
  ASSUME TypeInv, NEW S \in SUBSET TaskIds, Ids(queue') = Ids(queue) \ S,
         settled' = settled \cup S
  PROVE  Accounted /\ settled' \subseteq TaskIds
  BY DEF Accounted, TypeInv, BookTyped

LEMMA EnqueueEdits ==
  ASSUME TypeInv, NEW files \in Batches, Enqueue(files)
  PROVE  Edit
<1> DEFINE st == UpsertAll(files)
<1>1. /\ Call("enqueue") /\ cur # NoProject
      /\ Cardinality(TaskIds \ UsedIds) >= Len(files)
      /\ queue' = st.q /\ restored' = restored \ st.asked /\ settled' = settled \ st.asked
      /\ Save(cur, <<"next">>)
      /\ UNCHANGED <<cur, cancelling, active, paused, limit, timer, sched, switch,
                     runs, inactive, disk, lost>>
  BY DEF Enqueue
<1>2. queue \in Queues /\ cur \in Projects /\ files \in Seq(Sources)
  BY <1>1, QueueAssumption DEF TypeInv, MemTyped
<1>3. Upserted(st, Len(files))
  BY <1>1, <1>2, UpsertAllFacts
<1> HIDE DEF st
<1>4. st.q \in Queues /\ Ids(queue) \subseteq Ids(st.q) /\ st.asked \subseteq Ids(st.q)
      /\ Ids(st.q) \ Ids(queue) \subseteq st.asked
      /\ \A k \in DOMAIN st.q :
            \/ \E l \in DOMAIN queue :
                /\ queue[l].id = st.q[k].id /\ queue[l].proj = st.q[k].proj
                /\ \/ st.q[k].st = queue[l].st
                   \/ st.q[k].st = "pending" /\ queue[l].st # "processing"
            \/ st.q[k].id \notin UsedIds /\ st.q[k].proj = cur /\ st.q[k].st = "pending"
  BY <1>3 DEF Upserted, Adding
<1>5. queue' \in Queues /\ Ids(queue') \subseteq TaskIds
  BY <1>1, <1>4, QueueIds
<1>6. Saved(writes, cur, <<"next">>)
  BY <1>1, <1>2, <1>5, SaveTyped, Kinds
<1>7. Flagged({}) /\ \A r \in RunIds : runs'[r].unwanted = runs[r].unwanted
  BY <1>1, SameRuns
<1>8. \A l \in DOMAIN queue : queue[l].st = "processing" =>
         \A k \in DOMAIN queue' : queue'[k].id = queue[l].id => queue'[k].st = "processing"
  <2> TAKE l \in DOMAIN queue
  <2> HAVE queue[l].st = "processing"
  <2> TAKE k \in DOMAIN queue'
  <2> HAVE queue'[k].id = queue[l].id
  <2>1. queue[l].id \in UsedIds
    BY UsedQueue DEF Ids
  <2>2. PICK m \in DOMAIN queue :
                /\ queue[m].id = st.q[k].id
                /\ \/ st.q[k].st = queue[m].st
                   \/ st.q[k].st = "pending" /\ queue[m].st # "processing"
    BY <1>1, <1>4, <2>1
  <2>3. m = l
    BY <1>1, <1>2, <2>2 DEF Queues, Distinct
  <2> QED BY <1>1, <2>2, <2>3
<1>9. Tracked
  BY <1>1, <1>4, <1>7, <1>8 DEF Tracked
<1>10. Accounted /\ settled' \subseteq TaskIds
  <2>1. settled \ settled' \subseteq Ids(queue) \cup (TaskIds \ UsedIds)
    <3> SUFFICES ASSUME NEW id \in st.asked, id \notin Ids(queue)
                 PROVE  id \in TaskIds \ UsedIds
      BY <1>1
    <3>1. PICK k \in DOMAIN st.q : st.q[k].id = id
      BY <1>4 DEF Ids
    <3>2. ~ \E l \in DOMAIN queue : queue[l].id = id
      BY DEF Ids
    <3> QED BY <1>1, <1>4, <1>5, <3>1, <3>2
  <2>2. settled \subseteq TaskIds
    BY DEF TypeInv, BookTyped
  <2> QED BY <1>1, <1>4, <2>1, <2>2 DEF Accounted
<1>11. calls' \in 0..MaxCalls /\ (Switching => "calls" \in Overlap)
  BY <1>1, CallFacts
<1>12. paused' \in BOOLEAN /\ cancelling' \subseteq TaskIds
  BY <1>1 DEF TypeInv, MemTyped
<1> QED BY <1>1, <1>2, <1>5, <1>6, <1>7, <1>9, <1>10, <1>11, <1>12 DEF Edit

LEMMA RetryEdits ==
  ASSUME TypeInv, NEW S, Retry(S)
  PROVE  Edit
<1>1. /\ Call("retry") /\ S # {} /\ S \subseteq Mine
      /\ queue' = Revise(queue, S, Requeue) /\ restored' = restored \ S
      /\ S \subseteq Having(queue, "failed") \cup Having(queue, "cancelled")
      /\ Save(cur, <<"next">>)
      /\ UNCHANGED <<cur, cancelling, active, paused, limit, timer, sched, switch,
                     runs, inactive, disk, lost, settled>>
  BY DEF Retry
<1>2. queue \in Queues /\ cur \in Projects
  BY <1>1, MineFacts DEF TypeInv, MemTyped
<1>3. Stamped(queue, queue', S, "pending")
  BY <1>1, <1>2, RequeueFacts
<1>4. queue' \in Queues /\ Ids(queue') = Ids(queue)
  BY <1>3, AlteredIds DEF Stamped, Altered
<1>5. Saved(writes, cur, <<"next">>)
  BY <1>1, <1>2, <1>4, SaveTyped, Kinds
<1>6. Flagged({}) /\ \A r \in RunIds : runs'[r].unwanted = runs[r].unwanted
  BY <1>1, SameRuns
<1>7. S \cap Having(queue, "processing") = {}
  BY <1>1 DEF Having
<1>8. Tracked
  BY <1>1, <1>3, <1>6, <1>7, StampTracked
<1>9. Accounted /\ settled' \subseteq TaskIds
  BY <1>1, <1>4, Unsettled
<1>10. calls' \in 0..MaxCalls /\ (Switching => "calls" \in Overlap)
  BY <1>1, CallFacts
<1>11. paused' \in BOOLEAN /\ cancelling' \subseteq TaskIds
  BY <1>1 DEF TypeInv, MemTyped
<1> QED BY <1>1, <1>2, <1>4, <1>5, <1>6, <1>8, <1>9, <1>10, <1>11 DEF Edit

\* An idle queue is not paused, and has no task to start.
LEMMA IdleFacts ==
  ASSUME TypeInv, queue' \in Queues, UnpauseIfIdle
  PROVE  /\ paused' \in BOOLEAN /\ timer' \in {timer, NoProject}
         /\ UNCHANGED <<paused, timer>> \/ \A k \in DOMAIN queue' : queue'[k].st # "pending"
<1>1. CASE Having(queue', "pending") \cup Having(queue', "processing") = {}
  <2>1. \A k \in DOMAIN queue' : queue'[k].st # "pending"
    BY <1>1, HavingFacts
  <2> QED BY <1>1, <2>1 DEF UnpauseIfIdle
<1>2. CASE ~ (Having(queue', "pending") \cup Having(queue', "processing") = {})
  BY <1>2 DEF UnpauseIfIdle, TypeInv, MemTyped
<1> QED BY <1>1, <1>2

\* The tasks that may start after some were cancelled could start before.
LEMMA CancelFreesNone ==
  ASSUME TypeInv, NEW S, restored' = restored \ S,
         \A k \in DOMAIN queue' :
            queue'[k].st = "pending" =>
               queue'[k].id \notin S /\ \E l \in DOMAIN queue : queue[l].id = queue'[k].id
                                                               /\ queue[l].st = "pending",
         paused' \in BOOLEAN,
         UNCHANGED paused \/ \A k \in DOMAIN queue' : queue'[k].st # "pending"
  PROVE  paused' \/ NoneFreed
<1>1. CASE paused' = paused /\ ~ paused'
  BY <1>1 DEF NoneFreed
<1>2. CASE \A k \in DOMAIN queue' : queue'[k].st # "pending"
  BY <1>2 DEF NoneFreed
<1> QED BY <1>1, <1>2

LEMMA CancelKinds ==
  ASSUME TypeInv, cur \in Projects, queue' \in Queues, NEW S, Save(cur, AfterCancel(S))
  PROVE  Saved(writes, cur, <<"next">>) \/ Saved(writes, cur, <<"none">>)
<1>1. AfterCancel(S) = <<"next">> \/ AfterCancel(S) = <<"none">>
  BY DEF AfterCancel
<1> QED BY <1>1, SaveTyped, Kinds

LEMMA CancelledEdits ==
  ASSUME TypeInv, cur \in Projects, NEW S, S \subseteq Ids(queue),
         NEW T, T \subseteq S \cap Having(queue, "processing"),
         S \cap Mine \cap Having(queue, "processing") \subseteq T,
         cancelling' = cancelling \cup T, restored' = restored \ S,
         queue' = WithStatus(queue, S, "cancelled"),
         NEW W, Save(cur, AfterCancel(W)),
         NEW A, AbortUnwanted(A, S),
         paused' \in BOOLEAN, timer' \in {timer, NoProject},
         UNCHANGED paused \/ \A k \in DOMAIN queue' : queue'[k].st # "pending",
         NEW op, Call(op),
         UNCHANGED <<cur, active, limit, sched, switch, inactive, disk, lost, settled>>
  PROVE  Edit
<1>1. queue \in Queues
  BY DEF TypeInv, MemTyped
<1>2. Stamped(queue, queue', S, "cancelled")
  BY <1>1, StampFacts DEF Statuses
<1>3. queue' \in Queues /\ Ids(queue') = Ids(queue) /\ DOMAIN queue' = DOMAIN queue
      /\ \A k \in DOMAIN queue : queue'[k].id = queue[k].id
                                 /\ queue'[k].st = IF queue[k].id \in S THEN "cancelled"
                                                   ELSE queue[k].st
  BY <1>2, AlteredIds DEF Stamped, Altered
<1>4. Saved(writes, cur, <<"next">>) \/ Saved(writes, cur, <<"none">>)
  BY <1>3, CancelKinds
<1>5. Flagged({}) /\ \A r \in RunIds : runs'[r].unwanted /\ ~ runs[r].unwanted
                        => Working(r) /\ runs[r].task \in S \cap Ids(queue)
  BY AbortFlags
<1>6. Tracked
  BY <1>2, <1>5, StampTracked
<1>7. Accounted /\ settled' \subseteq TaskIds
  BY <1>3, Unsettled
<1>8. calls' \in 0..MaxCalls /\ (Switching => "calls" \in Overlap)
  BY CallFacts
<1>9. cancelling' \subseteq TaskIds
  BY <1>1, QueueIds DEF TypeInv, MemTyped
<1>10. paused' \/ NoneFreed
  BY <1>3, CancelFreesNone
<1> QED BY <1>3, <1>4, <1>5, <1>6, <1>7, <1>8, <1>9, <1>10 DEF Edit

LEMMA CancelEdits ==
  ASSUME TypeInv, NEW S, Cancel(S)
  PROVE  Edit
<1> DEFINE T == S \cap Having(queue, "processing")
<1>1. /\ Call("cancel") /\ S # {} /\ S \subseteq Mine
      /\ cancelling' = cancelling \cup T
      /\ AbortUnwanted(RunsOf(S), S)
      /\ restored' = restored \ S
      /\ queue' = WithStatus(queue, S, "cancelled")
      /\ UnpauseIfIdle
      /\ Save(cur, AfterCancel(S))
      /\ UNCHANGED <<cur, active, limit, sched, switch, inactive, disk, lost, settled>>
  BY DEF Cancel
<1>2. queue \in Queues /\ cur \in Projects /\ S \subseteq Ids(queue)
  BY <1>1, MineFacts DEF TypeInv, MemTyped
<1>3. queue' \in Queues
  BY <1>1, <1>2, StampFacts DEF Statuses, Stamped, Altered
<1>4. /\ paused' \in BOOLEAN /\ timer' \in {timer, NoProject}
      /\ UNCHANGED paused \/ \A k \in DOMAIN queue' : queue'[k].st # "pending"
  BY <1>1, <1>3, IdleFacts
<1>5. T \subseteq S \cap Having(queue, "processing")
      /\ S \cap Mine \cap Having(queue, "processing") \subseteq T
  OBVIOUS
<1> HIDE DEF T
<1> QED BY <1>1, <1>2, <1>4, <1>5, CancelledEdits

LEMMA CancelAllEdits ==
  ASSUME TypeInv, CancelAll
  PROVE  Edit
<1> DEFINE S == Having(queue, "pending") \cup Having(queue, "processing")
           T == Mine \cap Having(queue, "processing")
<1>1. /\ Call("cancelAll") /\ cur # NoProject
      /\ cancelling' = cancelling \cup T
      /\ AbortUnwanted(RunsOf(TaskIds), S)
      /\ restored' = restored \ S
      /\ queue' = WithStatus(queue, S, "cancelled")
      /\ paused' = FALSE /\ timer' = NoProject
      /\ Save(cur, AfterCancel(S \cap Mine))
      /\ UNCHANGED <<cur, active, limit, sched, switch, inactive, disk, lost, settled>>
  BY DEF CancelAll
<1>2. queue \in Queues /\ cur \in Projects /\ S \subseteq Ids(queue)
  BY <1>1, QueueIds DEF TypeInv, MemTyped
<1>3. Stamped(queue, queue', S, "cancelled")
  BY <1>1, <1>2, StampFacts DEF Statuses
<1>4. \A k \in DOMAIN queue : queue[k].st = "pending" => queue[k].id \in S
  BY <1>2, HavingFacts
<1>5. \A k \in DOMAIN queue' : queue'[k].st # "pending"
  BY <1>3, <1>4 DEF Stamped, Altered
<1>6. T \subseteq S \cap Having(queue, "processing")
      /\ S \cap Mine \cap Having(queue, "processing") \subseteq T
  OBVIOUS
<1> HIDE DEF T, S
<1> QED BY <1>1, <1>2, <1>5, <1>6, CancelledEdits

LEMMA DiscardEdits ==
  ASSUME TypeInv, NEW s, Discard(s)
  PROVE  Edit
<1> DEFINE S == {id \in Mine : Entry(queue, id).src = s}
           T == S \cap Having(queue, "processing")
<1>1. /\ Call("discard") /\ S # {} /\ S \subseteq Mine
      /\ cancelling' = cancelling \cup T
      /\ AbortUnwanted(RunsOf(S), S)
      /\ restored' = restored \ S
      /\ queue' = Without(queue, S)
      /\ settled' = settled \cup S
      /\ UnpauseIfIdle
      /\ Save(cur, AfterCancel(S))
      /\ UNCHANGED <<cur, active, limit, sched, switch, inactive, disk, lost>>
  BY DEF Discard
<1>2. queue \in Queues /\ cur \in Projects /\ S \subseteq Ids(queue) /\ S \subseteq TaskIds
  BY <1>1, MineFacts DEF TypeInv, MemTyped
<1> HIDE DEF S
<1>3. Left(queue, queue', S)
  BY <1>1, <1>2, LeftFacts
<1>4. queue' \in Queues /\ Ids(queue') = Ids(queue) \ S
      /\ \A k \in DOMAIN queue' : \E l \in DOMAIN queue : queue'[k] = queue[l]
  BY <1>3 DEF Left
<1>5. /\ paused' \in BOOLEAN /\ timer' \in {timer, NoProject}
      /\ UNCHANGED paused \/ \A k \in DOMAIN queue' : queue'[k].st # "pending"
  BY <1>1, <1>4, IdleFacts
<1>6. Saved(writes, cur, <<"next">>) \/ Saved(writes, cur, <<"none">>)
  BY <1>1, <1>2, <1>4, CancelKinds
<1>7. Flagged({}) /\ \A r \in RunIds : runs'[r].unwanted /\ ~ runs[r].unwanted
                        => Working(r) /\ runs[r].task \in S \cap Ids(queue)
  BY <1>1, <1>2, AbortFlags
<1>8. Tracked
  BY <1>1, <1>3, <1>7, LeftTracked
<1>9. Accounted /\ settled' \subseteq TaskIds
  BY <1>1, <1>2, <1>4, SettledNow
<1>10. calls' \in 0..MaxCalls /\ (Switching => "calls" \in Overlap)
  BY <1>1, CallFacts
<1>11. cancelling' \subseteq TaskIds
  BY <1>1, <1>2 DEF TypeInv, MemTyped
<1>12. \A k \in DOMAIN queue' : queue'[k].id \notin S
  BY <1>4, QueueTasks
<1>13. paused' \/ NoneFreed
  <2>1. restored' = restored \ S /\ paused' \in BOOLEAN
        /\ (UNCHANGED paused \/ \A k \in DOMAIN queue' : queue'[k].st # "pending")
    BY <1>1, <1>5
  <2>2. ASSUME NEW k \in DOMAIN queue', queue'[k].st = "pending"
        PROVE  queue'[k].id \notin S /\ \E l \in DOMAIN queue : queue[l].id = queue'[k].id
                                                               /\ queue[l].st = "pending"
    BY <1>4, <1>12, <2>2
  <2> QED BY <2>1, <2>2, CancelFreesNone
<1>14. UNCHANGED <<cur, active, limit, sched, switch, inactive, disk, lost>>
       /\ restored' \subseteq restored
  BY <1>1
<1> QED BY <1>2, <1>4, <1>5, <1>6, <1>7, <1>8, <1>9, <1>10, <1>11, <1>13, <1>14 DEF Edit

LEMMA TakenEdits ==
  ASSUME TypeInv, cur \in Projects, NEW S \in SUBSET Ids(queue), Left(queue, queue', S),
         NEW op, Call(op), Save(cur, <<"none">>), Accounted, settled' \subseteq TaskIds,
         S \cap Having(queue, "processing") = {},
         UNCHANGED <<cur, restored, cancelling, active, paused, limit, timer, sched,
                     switch, runs, inactive, disk, lost>>
  PROVE  Edit
<1>1. queue' \in Queues /\ Ids(queue') = Ids(queue) \ S
      /\ \A k \in DOMAIN queue' : \E l \in DOMAIN queue : queue'[k] = queue[l]
  BY DEF Left
<1>2. Saved(writes, cur, <<"none">>)
  BY <1>1, SaveTyped, Kinds
<1>3. Flagged({}) /\ \A r \in RunIds : runs'[r].unwanted = runs[r].unwanted
  BY SameRuns
<1>4. Tracked
  BY <1>3, LeftTracked
<1>5. calls' \in 0..MaxCalls /\ (Switching => "calls" \in Overlap)
  BY CallFacts
<1>6. paused' \in BOOLEAN /\ cancelling' \subseteq TaskIds
  BY DEF TypeInv, MemTyped
<1>7. paused' \/ NoneFreed
  BY <1>1, <1>6 DEF NoneFreed
<1> QED BY <1>1, <1>2, <1>3, <1>4, <1>5, <1>6, <1>7 DEF Edit

LEMMA ClearEdits ==
  ASSUME TypeInv, ClearCompleted
  PROVE  Edit
<1> DEFINE S == Having(queue, "failed") \cup Having(queue, "cancelled")
<1>1. /\ Call("clear") /\ cur # NoProject
      /\ queue' = Without(queue, S)
      /\ settled' = settled \cup S
      /\ Save(cur, <<"none">>)
      /\ UNCHANGED <<cur, restored, cancelling, active, paused, limit, timer, sched,
                     switch, runs, inactive, disk, lost>>
  BY DEF ClearCompleted
<1>2. queue \in Queues /\ cur \in Projects /\ S \subseteq Ids(queue) /\ S \subseteq TaskIds
  BY <1>1, QueueIds DEF TypeInv, MemTyped
<1>3. S \cap Having(queue, "processing") = {}
  BY DEF Having
<1> HIDE DEF S
<1>4. Left(queue, queue', S)
  BY <1>1, <1>2, LeftFacts
<1>5. Accounted /\ settled' \subseteq TaskIds
  BY <1>1, <1>2, <1>4, SettledNow DEF Left
<1> QED BY <1>1, <1>2, <1>3, <1>4, <1>5, TakenEdits

LEMMA MoveEdits ==
  ASSUME TypeInv, NEW i \in DOMAIN queue, NEW j \in DOMAIN queue, MovePending(i, j)
  PROVE  Edit
<1>1. /\ Call("move") /\ Waits(i) /\ Waits(j)
      /\ queue' = [queue EXCEPT ![i] = queue[j], ![j] = queue[i]]
      /\ Save(cur, <<"none">>)
      /\ UNCHANGED <<cur, restored, cancelling, active, paused, limit, timer, sched,
                     switch, runs, inactive, disk, lost, settled>>
  BY DEF MovePending
<1>2. queue \in Queues
  BY DEF TypeInv, MemTyped
<1>3. cur \in Projects
  BY <1>1, <1>2, QueueTasks DEF Waits
<1>4. Left(queue, queue', {})
  BY <1>1, <1>2, SwapKeeps
<1>5. Accounted /\ settled' \subseteq TaskIds
  BY <1>1, <1>4, Unsettled DEF Left
<1>6. {} \in SUBSET Ids(queue) /\ {} \cap Having(queue, "processing") = {}
  OBVIOUS
<1>7. /\ Call("move") /\ Save(cur, <<"none">>)
      /\ UNCHANGED <<cur, restored, cancelling, active, paused, limit, timer, sched,
                     switch, runs, inactive, disk, lost>>
  BY <1>1
<1> QED BY <1>3, <1>4, <1>5, <1>6, <1>7, TakenEdits

LEMMA PauseEdits ==
  ASSUME TypeInv, PauseProcessing
  PROVE  Edit
<1> DEFINE S == Mine \cap Having(queue, "processing")
<1>1. /\ Call("pause") /\ cur # NoProject /\ paused' = TRUE /\ timer' = NoProject
      /\ queue' = WithStatus(queue, S, "pending")
      /\ Abort(RunsOf(S))
      /\ Save(cur, <<"none">>) \/ UNCHANGED writes
      /\ UNCHANGED <<cur, restored, cancelling, active, limit, sched, switch, inactive,
                     disk, lost, settled>>
  BY DEF PauseProcessing
<1>2. queue \in Queues /\ cur \in Projects /\ cancelling' \subseteq TaskIds
  BY <1>1 DEF TypeInv, MemTyped
<1>3. Stamped(queue, queue', S, "pending")
  BY <1>1, <1>2, StampFacts DEF Statuses
<1>4. queue' \in Queues /\ Ids(queue') = Ids(queue)
  BY <1>3, AlteredIds DEF Stamped, Altered
<1>5. Saved(writes, cur, <<"none">>) \/ UNCHANGED writes
  BY <1>1, <1>2, <1>4, SaveTyped, Kinds
<1>6. Flagged({}) /\ \A r \in RunIds : runs'[r].unwanted = runs[r].unwanted
  BY <1>1, AbortOnly
<1>7. calls' \in 0..MaxCalls /\ "pause" \in Calls /\ (Switching => "calls" \in Overlap)
  BY <1>1, CallFacts
<1> HIDE DEF S
<1>8. Tracked
  BY <1>1, <1>3, <1>6, <1>7, StampTracked
<1>9. Accounted /\ settled' \subseteq TaskIds
  BY <1>1, <1>4, Unsettled
<1>10. paused' \in BOOLEAN /\ paused' /\ timer' \in {timer, NoProject} /\ restored' \subseteq restored
  BY <1>1
<1> QED BY <1>1, <1>2, <1>4, <1>5, <1>6, <1>7, <1>8, <1>9, <1>10 DEF Edit

LEMMA EditTyped ==
  ASSUME TypeInv, Edit
  PROVE  TypeInv'
<1>1. /\ UNCHANGED <<cur, active, limit, sched, switch, inactive, disk, lost>>
      /\ calls' \in 0..MaxCalls /\ settled' \subseteq TaskIds
      /\ queue' \in Queues /\ restored' \subseteq restored /\ cancelling' \subseteq TaskIds
      /\ paused' \in BOOLEAN /\ timer' \in {timer, NoProject} /\ Flagged({})
      /\ Saved(writes, cur, <<"next">>) \/ Saved(writes, cur, <<"none">>) \/ UNCHANGED writes
  BY DEF Edit
<1>2. writes' \in Seq(Write)
  BY <1>1 DEF Saved, TypeInv, FilesTyped
<1>3. MemTyped'
  BY <1>1 DEF TypeInv, MemTyped
<1>4. SchedTyped' /\ SwitchTyped'
  BY <1>1 DEF TypeInv, SchedTyped, SwitchTyped, sched, switch
<1>5. RunsTyped' /\ BookTyped'
  BY <1>1 DEF Flagged, RunsTyped, BookTyped
<1>6. FilesTyped'
  BY <1>1, <1>2 DEF TypeInv, FilesTyped
<1> QED BY <1>3, <1>4, <1>5, <1>6 DEF TypeInv

\* The queue of a user's call is that of one of these.
UserEdit ==
    \/ \E files \in Batches : Enqueue(files)
    \/ \E s \in Sources : Discard(s)
    \/ \E S \in SUBSET Ids(queue) : Retry(S) \/ Cancel(S)
    \/ CancelAll \/ ClearCompleted \/ PauseProcessing
    \/ \E i, j \in DOMAIN queue : MovePending(i, j)

LEMMA UserEdits ==
  ASSUME TypeInv, UserEdit
  PROVE  Edit
  BY EnqueueEdits, DiscardEdits, RetryEdits, CancelEdits, CancelAllEdits, ClearEdits,
     PauseEdits, MoveEdits DEF UserEdit

-----------------------------------------------------------------------------
(* Calls that only wake the scheduler, and the timer *)

Nudge ==
    /\ UNCHANGED <<cur, queue, cancelling, active, switch, writes, runs, inactive, disk, lost,
                   settled>>
    /\ restored' \subseteq restored /\ paused' \in {paused, FALSE} /\ limit' \in Limits
    /\ "limit" \notin Calls => UNCHANGED limit
    /\ timer' \in {timer, NoProject} /\ calls' \in 0..MaxCalls
    /\ (Switching => "calls" \in Overlap) \/ timer # NoProject
    /\ Kick(cur) \/ UNCHANGED <<sched, paused, restored, limit>>

LEMMA ResumeNudges ==
  ASSUME TypeInv, ResumeProcessing
  PROVE  Nudge
<1>1. Call("resume")
  BY DEF ResumeProcessing
<1>2. calls' \in 0..MaxCalls /\ (Switching => "calls" \in Overlap)
  BY <1>1, CallFacts
<1> QED BY <1>2 DEF ResumeProcessing, Nudge, TypeInv, MemTyped

LEMMA LimitNudges ==
  ASSUME TypeInv, NEW n \in Limits, SetWorkerLimit(n)
  PROVE  Nudge
<1>1. Call("limit")
  BY DEF SetWorkerLimit
<1>2. calls' \in 0..MaxCalls /\ "limit" \in Calls /\ (Switching => "calls" \in Overlap)
  BY <1>1, CallFacts
<1> QED BY <1>2 DEF SetWorkerLimit, Nudge, TypeInv, MemTyped

LEMMA TimerNudges ==
  ASSUME TypeInv, TimerFires
  PROVE  Nudge
<1>1. calls \in 0..MaxCalls /\ limit \in Limits /\ paused \in BOOLEAN
  BY DEF TypeInv, MemTyped, BookTyped
<1>2. /\ timer # NoProject /\ timer' = NoProject
      /\ UNCHANGED <<cur, queue, restored, cancelling, active, limit, switch, writes, runs,
                     inactive, disk, lost, calls, settled>>
  BY DEF TimerFires
<1>3. CASE cur = timer
  BY <1>1, <1>2, <1>3 DEF TimerFires, Nudge
<1>4. CASE cur # timer
  BY <1>1, <1>2, <1>4 DEF TimerFires, Nudge
<1> QED BY <1>3, <1>4

LEMMA NudgeTyped ==
  ASSUME TypeInv, Nudge
  PROVE  TypeInv'
<1>1. queue' \in Queues /\ cur \in Projects \cup {NoProject} /\ SchedTyped
  BY DEF TypeInv, MemTyped, Nudge
<1>2. SchedTyped'
  <2>1. CASE Kick(cur)
    BY <1>1, <2>1, KickTyped
  <2>2. CASE UNCHANGED sched
    BY <1>1, <2>2 DEF SchedTyped, sched
  <2> QED BY <2>1, <2>2 DEF Nudge
<1>3. MemTyped'
  BY DEF Nudge, TypeInv, MemTyped
<1>4. RunsTyped' /\ SwitchTyped' /\ FilesTyped' /\ BookTyped'
  BY DEF Nudge, TypeInv, RunsTyped, SwitchTyped, switch, FilesTyped, BookTyped
<1> QED BY <1>2, <1>3, <1>4 DEF TypeInv

-----------------------------------------------------------------------------
(* startTask *)

\* The task's object, if it is still the queue's, has got the status st.
OwnSet(own, id, st) ==
    /\ queue' \in Queues /\ Ids(queue') = Ids(queue) /\ DOMAIN queue' = DOMAIN queue
    /\ \A k \in DOMAIN queue :
          /\ queue'[k].id = queue[k].id /\ queue'[k].proj = queue[k].proj
          /\ queue'[k].st = IF own /\ queue[k].id = id THEN st ELSE queue[k].st

LEMMA SetOwnFacts ==
  ASSUME TypeInv, NEW own, NEW id, NEW st \in Statuses, queue' = SetOwn(own, id, st)
  PROVE  OwnSet(own, id, st)
<1>1. queue \in Queues
  BY DEF TypeInv, MemTyped
<1>2. CASE own
  <2>1. Stamped(queue, queue', {id}, st)
    BY <1>1, <1>2, StampFacts DEF SetOwn
  <2> QED BY <1>2, <2>1, AlteredIds DEF Stamped, Altered, OwnSet
<1>3. CASE ~ own
  BY <1>1, <1>3 DEF SetOwn, OwnSet
<1> QED BY <1>2, <1>3

LEMMA StaleTyped ==
  ASSUME TypeInv, NEW i \in SchedIds, StartStale(i)
  PROVE  TypeInv'
<1>1. UNCHANGED <<mem, switch, writes, runs, inactive, disk, lost, calls, settled>> /\ GoOn(i)
  BY DEF StartStale
<1>2. MemTyped' /\ RunsTyped' /\ SwitchTyped' /\ FilesTyped' /\ BookTyped'
  BY <1>1 DEF TypeInv, MemTyped, RunsTyped, SwitchTyped, switch, FilesTyped, BookTyped, mem
<1>3. queue' \in Queues /\ SchedTyped
  BY <1>2 DEF MemTyped, TypeInv
<1>4. SchedTyped'
  BY <1>1, <1>3, GoOnTyped
<1> QED BY <1>2, <1>4 DEF TypeInv

\* startTask fails the task.
Impossible(i) ==
    /\ scheds[i].pc = "registry" /\ cur = scheds[i].proj /\ scheds[i].fresh /\ cur \in Projects
    /\ OwnSet(scheds[i].own, scheds[i].task, "failed")
    /\ scheds' = [scheds EXCEPT ![i].pc = "failed"]
    /\ Saved(writes, cur, <<"sched", i>>)
    /\ UNCHANGED <<cur, restored, cancelling, active, paused, limit, timer, scheduling,
                   drainDue, switch, runs, inactive, disk, lost, calls, settled>>

LEMMA ImpossibleFacts ==
  ASSUME TypeInv, NEW i \in SchedIds, StartImpossible(i)
  PROVE  Impossible(i)
<1>1. /\ scheds[i].pc = "registry" /\ cur = scheds[i].proj /\ scheds[i].fresh
      /\ queue' = SetOwn(scheds[i].own, scheds[i].task, "failed")
      /\ Save(cur, <<"sched", i>>)
  BY DEF StartImpossible, SchedulerStale
<1>2. OwnSet(scheds[i].own, scheds[i].task, "failed")
  BY <1>1, SetOwnFacts DEF Statuses
<1>3. cur \in Projects
  BY <1>1 DEF TypeInv, SchedTyped, Sched
<1>4. Saved(writes, cur, <<"sched", i>>)
  BY <1>1, <1>2, <1>3, SaveTyped, Kinds DEF OwnSet
<1> QED BY <1>1, <1>2, <1>3, <1>4 DEF StartImpossible, Impossible

LEMMA ImpossibleTyped ==
  ASSUME TypeInv, NEW i \in SchedIds, Impossible(i)
  PROVE  TypeInv'
<1>1. scheds[i] \in Sched
  BY DEF TypeInv, SchedTyped
<1>2. [scheds[i] EXCEPT !.pc = "failed"] \in Sched
  BY <1>1 DEF Sched
<1>3. SchedTyped'
  BY <1>2 DEF Impossible, TypeInv, SchedTyped
<1>4. MemTyped' /\ RunsTyped' /\ SwitchTyped' /\ FilesTyped' /\ BookTyped'
  BY DEF Impossible, OwnSet, Saved, TypeInv, MemTyped, RunsTyped, SwitchTyped, switch,
         FilesTyped, BookTyped
<1> QED BY <1>3, <1>4 DEF TypeInv

\* Run r takes task t for the suspended call i of processNext.
Starts(i, r, t) ==
    /\ scheds[i].pc = "registry" /\ cur = scheds[i].proj /\ scheds[i].fresh /\ cur \in Projects
    /\ t = scheds[i].task /\ t \in TaskIds /\ runs[r].stage = "none"
    /\ runs' \in [RunIds -> Run]
    /\ \A x \in RunIds \ {r} : runs'[x] = runs[x]
    /\ runs'[r] = [stage |-> "save", task |-> t, own |-> scheds[i].own, proj |-> cur,
                   fresh |-> TRUE, aborted |-> FALSE, unwanted |-> FALSE]
    /\ restored' = restored \ {t}
    /\ OwnSet(scheds[i].own, t, "processing")
    /\ active' = [active EXCEPT ![t] = r]
    /\ scheds' = [scheds EXCEPT ![i].pc = "start", ![i].run = r]
    /\ Saved(writes, cur, <<"sched", i>>)
    /\ UNCHANGED <<cur, cancelling, paused, limit, timer, scheduling, drainDue, switch,
                   inactive, disk, lost, calls, settled>>

LEMMA StartFacts ==
  ASSUME TypeInv, NEW i \in SchedIds, StartRun(i)
  PROVE  \E r \in RunIds : Starts(i, r, scheds[i].task)
<1> DEFINE t == scheds[i].task
           r == CHOOSE x \in RunIds : ~ Live(x)
           new == [stage |-> "save", task |-> t, own |-> scheds[i].own, proj |-> cur,
                   fresh |-> TRUE, aborted |-> FALSE, unwanted |-> FALSE]
<1>1. /\ scheds[i].pc = "registry" /\ cur = scheds[i].proj /\ scheds[i].fresh
      /\ \E x \in RunIds : ~ Live(x)
      /\ runs' = [runs EXCEPT ![r] = new]
      /\ restored' = restored \ {t}
      /\ queue' = SetOwn(scheds[i].own, t, "processing")
      /\ active' = [active EXCEPT ![t] = r]
      /\ scheds' = [scheds EXCEPT ![i].pc = "start", ![i].run = r]
      /\ Save(cur, <<"sched", i>>)
      /\ UNCHANGED <<cur, cancelling, paused, limit, timer, scheduling, drainDue, switch,
                     inactive, disk, lost, calls, settled>>
  BY DEF StartRun, SchedulerStale
<1>2. r \in RunIds /\ runs[r].stage = "none"
  BY <1>1 DEF Live
<1>3. scheds[i] \in Sched /\ runs \in [RunIds -> Run]
  BY DEF TypeInv, SchedTyped, RunsTyped
<1>4. cur \in Projects /\ t \in TaskIds /\ scheds[i].own \in BOOLEAN
  BY <1>1, <1>3 DEF Sched
<1>5. OwnSet(scheds[i].own, t, "processing")
  BY <1>1, SetOwnFacts DEF Statuses
<1>6. Saved(writes, cur, <<"sched", i>>)
  BY <1>1, <1>4, <1>5, SaveTyped, Kinds DEF OwnSet
<1>7. new \in Run
  BY <1>4 DEF Run
<1> HIDE DEF r
<1>8. runs'[r] = new /\ runs' \in [RunIds -> Run] /\ \A x \in RunIds \ {r} : runs'[x] = runs[x]
  <2> HIDE DEF new
  <2> QED BY <1>1, <1>2, <1>3, <1>7
<1>9. Starts(i, r, t)
  BY <1>1, <1>2, <1>4, <1>5, <1>6, <1>8 DEF Starts
<1> QED BY <1>2, <1>9

LEMMA StartTyped ==
  ASSUME TypeInv, NEW i \in SchedIds, NEW r \in RunIds, NEW t, Starts(i, r, t)
  PROVE  TypeInv'
<1>1. scheds \in [SchedIds -> Sched] /\ scheds[i] \in Sched
  BY DEF TypeInv, SchedTyped
<1>2. [scheds[i] EXCEPT !.pc = "start", !.run = r] \in Sched
  BY <1>1 DEF Sched
<1>3. scheds' \in [SchedIds -> Sched]
  BY <1>1, <1>2 DEF Starts
<1>4. SchedTyped'
  BY <1>3 DEF Starts, TypeInv, SchedTyped
<1>5. MemTyped'
  BY DEF Starts, OwnSet, TypeInv, MemTyped
<1>6. RunsTyped' /\ SwitchTyped' /\ FilesTyped' /\ BookTyped'
  BY DEF Starts, Saved, TypeInv, RunsTyped, SwitchTyped, switch, FilesTyped, BookTyped
<1> QED BY <1>4, <1>5, <1>6 DEF TypeInv

-----------------------------------------------------------------------------
(* autoIngest and what follows it *)

\* Run r is changed, to the record `new`, and no other one.
RunBecomes(r, new) ==
    /\ runs' \in [RunIds -> Run] /\ runs'[r] = new
    /\ \A x \in RunIds \ {r} : runs'[x] = runs[x]

LEMMA RunChange ==
  ASSUME TypeInv, NEW r \in RunIds, NEW new \in Run, runs' = [runs EXCEPT ![r] = new]
  PROVE  RunBecomes(r, new)
  BY DEF TypeInv, RunsTyped, RunBecomes

LEMMA RunStage ==
  ASSUME TypeInv, NEW r \in RunIds, NEW s \in {"prepare", "commit", "finish"}
  PROVE  /\ [runs[r] EXCEPT !.stage = s] \in Run
         /\ [runs[r] EXCEPT !.stage = s].stage = s
         /\ [runs[r] EXCEPT !.stage = s].task = runs[r].task
         /\ [runs[r] EXCEPT !.stage = s].own = runs[r].own
         /\ [runs[r] EXCEPT !.stage = s].proj = runs[r].proj
         /\ [runs[r] EXCEPT !.stage = s].fresh = runs[r].fresh
         /\ [runs[r] EXCEPT !.stage = s].aborted = runs[r].aborted
         /\ [runs[r] EXCEPT !.stage = s].unwanted = runs[r].unwanted
<1>1. runs[r] \in Run
  BY DEF TypeInv, RunsTyped
<1> QED BY <1>1 DEF Run

Begins(r) ==
    /\ runs[r].stage = "prepare" /\ ~ runs[r].aborted
    /\ RunBecomes(r, [runs[r] EXCEPT !.stage = "commit"])
    /\ UNCHANGED <<mem, sched, switch, writes, inactive, disk, lost, calls, settled>>

LEMMA BeginFacts ==
  ASSUME TypeInv, NEW r \in RunIds, BeginCommit(r)
  PROVE  Begins(r)
<1> DEFINE new == [runs[r] EXCEPT !.stage = "commit"]
<1>1. new \in Run
  BY RunStage
<1>2. runs' = [runs EXCEPT ![r] = new]
  BY DEF BeginCommit
<1> HIDE DEF new
<1>3. RunBecomes(r, new)
  BY <1>1, <1>2, RunChange
<1> QED BY <1>3 DEF BeginCommit, Begins, new

LEMMA BeginTyped ==
  ASSUME TypeInv, NEW r \in RunIds, Begins(r)
  PROVE  TypeInv'
<1>1. MemTyped' /\ SchedTyped' /\ SwitchTyped' /\ FilesTyped' /\ BookTyped'
  BY DEF Begins, TypeInv, MemTyped, SchedTyped, SwitchTyped, FilesTyped, BookTyped, mem,
         sched, switch
<1>2. RunsTyped'
  BY DEF Begins, RunBecomes, RunsTyped
<1> QED BY <1>1, <1>2 DEF TypeInv

\* activeRuns without the run r
Forgotten(r) ==
    /\ active' \in [TaskIds -> RunIds \cup {NoRun}]
    /\ \A id \in TaskIds : active'[id] = IF active[id] = r THEN NoRun ELSE active[id]

LEMMA ForgetFacts ==
  ASSUME TypeInv, NEW r, Forget(r)
  PROVE  Forgotten(r)
  BY DEF TypeInv, MemTyped, Forget, Forgotten

\* pauseQueue waits for r no longer.
Awaited(r) ==
    /\ closing' \in [pc: {"idle", "commits", "save1", "save2"}, proj: Projects,
                     waiting: SUBSET RunIds]
    /\ closing'.pc = closing.pc /\ closing'.proj = closing.proj
    /\ closing'.waiting = closing.waiting \ {r}

LEMMA AwaitFacts ==
  ASSUME TypeInv, NEW r, Completed(r)
  PROVE  Awaited(r)
  BY DEF TypeInv, SwitchTyped, Completed, Awaited

\* The end of a run of a project that was left.
Ignored(r) ==
    /\ runs[r].stage \in {"prepare", "commit"} /\ RunStale(r)
    /\ RunBecomes(r, FreeRun) /\ Forgotten(r) /\ Awaited(r)
    /\ UNCHANGED <<cur, queue, restored, cancelling, paused, limit, timer, sched,
                   opening, overlapped, writes, inactive, disk, lost, calls, settled>>

LEMMA IgnoredFacts ==
  ASSUME TypeInv, NEW r \in RunIds, NEW outcome, EndStale(r, outcome)
  PROVE  Ignored(r)
<1>1. /\ MayEnd(r, outcome) /\ RunStale(r)
      /\ runs' = [runs EXCEPT ![r] = FreeRun] /\ Forget(r) /\ Completed(r)
      /\ UNCHANGED <<cur, queue, restored, cancelling, paused, limit, timer, sched,
                     opening, overlapped, writes, inactive, disk, lost, calls, settled>>
  BY DEF EndStale
<1>2. RunBecomes(r, FreeRun)
  BY <1>1, RunChange, FreeTyped
<1>3. runs[r].stage \in {"prepare", "commit"}
  BY <1>1 DEF MayEnd
<1> QED BY <1>1, <1>2, <1>3, ForgetFacts, AwaitFacts DEF Ignored

LEMMA IgnoredTyped ==
  ASSUME TypeInv, NEW r \in RunIds, Ignored(r)
  PROVE  TypeInv'
<1>1. MemTyped' /\ SchedTyped' /\ RunsTyped' /\ SwitchTyped'
  BY DEF Ignored, TypeInv, MemTyped, SchedTyped, SwitchTyped, sched, RunsTyped, RunBecomes,
         Forgotten, Awaited
<1>2. FilesTyped' /\ BookTyped'
  BY DEF Ignored, TypeInv, FilesTyped, BookTyped
<1> QED BY <1>1, <1>2 DEF TypeInv

\* What becomes of the tasks at the end of run r.
Decided(r) ==
    /\ \A k \in DOMAIN queue' : \E l \in DOMAIN queue :
          /\ queue[l].id = queue'[k].id /\ queue[l].proj = queue'[k].proj
          /\ queue'[k].st = "processing" =>
                /\ queue[l].st = "processing"
                /\ queue[l].id = runs[r].task =>
                      ~ runs[r].own \/ runs[r].task \in cancelling
          /\ queue'[k].st = "pending" =>
                paused' \/ queue[l].id = runs[r].task \/ queue[l].st = "pending"
          /\ "limit" \in Faults \/ queue[l].id = runs[r].task \/ queue'[k].st = queue[l].st
    /\ cancelling' = cancelling \ {runs[r].task}
    /\ runs[r].task \in cancelling => UNCHANGED queue

\* The end of a run: its last save is under way.
Finishes(r) ==
    /\ runs[r].stage \in {"prepare", "commit"} /\ ~ RunStale(r) /\ cur \in Projects
    /\ Flagged({r}) /\ runs'[r].stage = "finish"
    /\ runs'[r].task = runs[r].task /\ runs'[r].proj = runs[r].proj
    /\ runs'[r].own = runs[r].own /\ runs'[r].fresh = runs[r].fresh
    /\ \A x \in RunIds : runs'[x].unwanted = runs[x].unwanted
    /\ \E b \in BOOLEAN : Saved(writes, cur, <<"run", r, b>>)
    /\ queue' \in Queues /\ paused' \in BOOLEAN /\ (paused => paused')
    /\ drainDue' \in BOOLEAN /\ settled' \subseteq TaskIds
    /\ Decided(r) /\ Accounted
    /\ UNCHANGED <<cur, restored, active, limit, timer, scheduling, scheds, switch,
                   inactive, disk, lost, calls>>

LEMMA FinishingFacts ==
  ASSUME TypeInv, NEW r \in RunIds, NEW b \in BOOLEAN, Finishing(r, b), cur \in Projects,
         queue' \in Queues
  PROVE  /\ Flagged({r}) /\ runs'[r].stage = "finish"
         /\ runs'[r].task = runs[r].task /\ runs'[r].proj = runs[r].proj
         /\ runs'[r].own = runs[r].own /\ runs'[r].fresh = runs[r].fresh
         /\ \A x \in RunIds : runs'[x].unwanted = runs[x].unwanted
         /\ \E c \in BOOLEAN : Saved(writes, cur, <<"run", r, c>>)
<1> DEFINE new == [runs[r] EXCEPT !.stage = "finish"]
<1>1. runs' = [runs EXCEPT ![r] = new] /\ Save(cur, <<"run", r, b>>)
  BY DEF Finishing
<1>2. /\ new \in Run /\ new.stage = "finish" /\ new.task = runs[r].task /\ new.own = runs[r].own
      /\ new.proj = runs[r].proj /\ new.fresh = runs[r].fresh /\ new.unwanted = runs[r].unwanted
  BY RunStage
<1> HIDE DEF new
<1>3. RunBecomes(r, new)
  BY <1>1, <1>2, RunChange
<1>4. Saved(writes, cur, <<"run", r, b>>)
  BY <1>1, SaveTyped, Kinds
<1>5. Flagged({r})
  BY <1>3 DEF Flagged, RunBecomes
<1> QED BY <1>2, <1>3, <1>4, <1>5 DEF RunBecomes

LEMMA EndingFacts ==
  ASSUME TypeInv, NEW r \in RunIds, ~ RunStale(r), NEW outcome, MayEnd(r, outcome)
  PROVE  /\ runs[r].stage \in {"prepare", "commit"} /\ cur \in Projects
         /\ runs[r].task \in TaskIds /\ queue \in Queues
         /\ ~ Unwanted(runs[r].task) => runs[r].task \notin cancelling
         /\ paused \in BOOLEAN /\ drainDue \in BOOLEAN
<1>1. runs[r] \in Run
  BY DEF TypeInv, RunsTyped
<1> QED BY <1>1 DEF RunStale, MayEnd, Run, TypeInv, MemTyped, SchedTyped, Unwanted

LEMMA CancelledFinish ==
  ASSUME TypeInv, NEW r \in RunIds, NEW outcome, EndCancelled(r, outcome)
  PROVE  Finishes(r)
<1>1. /\ MayEnd(r, outcome) /\ ~ RunStale(r) /\ Unwanted(runs[r].task)
      /\ cancelling' = cancelling \ {runs[r].task}
      /\ UNCHANGED <<cur, queue, restored, active, paused, limit, timer, sched, switch,
                     inactive, disk, lost, calls, settled>>
      /\ Finishing(r, FALSE)
  BY DEF EndCancelled
<1>2. /\ runs[r].stage \in {"prepare", "commit"} /\ cur \in Projects /\ queue' \in Queues
      /\ queue \in Queues /\ paused' \in BOOLEAN /\ drainDue \in BOOLEAN
  BY <1>1, EndingFacts
<1>3. /\ Flagged({r}) /\ runs'[r].stage = "finish"
      /\ runs'[r].task = runs[r].task /\ runs'[r].proj = runs[r].proj
      /\ runs'[r].own = runs[r].own /\ runs'[r].fresh = runs[r].fresh
      /\ \A x \in RunIds : runs'[x].unwanted = runs[x].unwanted
      /\ \E c \in BOOLEAN : Saved(writes, cur, <<"run", r, c>>)
  BY <1>1, <1>2, FinishingFacts
<1>4. \A k \in DOMAIN queue : queue[k].st = "processing" /\ queue[k].id = runs[r].task
                                 => runs[r].task \in cancelling
  BY <1>1, <1>2, QueueTasks DEF Unwanted
<1>5. Decided(r)
  BY <1>1, <1>4 DEF Decided
<1>6. Accounted /\ settled' \subseteq TaskIds
  BY <1>1, Unsettled
<1>7. drainDue' \in BOOLEAN /\ UNCHANGED <<scheduling, scheds>>
  BY <1>1, <1>2 DEF sched
<1> QED BY <1>1, <1>2, <1>3, <1>5, <1>6, <1>7 DEF Finishes

LEMMA DoneFinish ==
  ASSUME TypeInv, NEW r \in RunIds, EndDone(r)
  PROVE  Finishes(r)
<1>1. /\ MayEnd(r, "ok") /\ ~ RunStale(r) /\ ~ Unwanted(runs[r].task)
      /\ queue' = Without(queue, {runs[r].task})
      /\ settled' = settled \cup {runs[r].task}
      /\ drainDue' = TRUE /\ Finishing(r, FALSE)
      /\ UNCHANGED <<cur, restored, cancelling, active, paused, limit, timer, scheduling,
                     scheds, switch, inactive, disk, lost, calls>>
  BY DEF EndDone
<1>2. /\ runs[r].stage \in {"prepare", "commit"} /\ cur \in Projects
      /\ queue \in Queues /\ paused' \in BOOLEAN
      /\ runs[r].task \in TaskIds /\ runs[r].task \notin cancelling
  BY <1>1, EndingFacts
<1>3. Left(queue, queue', {runs[r].task})
  BY <1>1, <1>2, LeftFacts
<1>4. queue' \in Queues
  BY <1>3 DEF Left
<1>5. /\ Flagged({r}) /\ runs'[r].stage = "finish"
      /\ runs'[r].task = runs[r].task /\ runs'[r].proj = runs[r].proj
      /\ runs'[r].own = runs[r].own /\ runs'[r].fresh = runs[r].fresh
      /\ \A x \in RunIds : runs'[x].unwanted = runs[x].unwanted
      /\ \E c \in BOOLEAN : Saved(writes, cur, <<"run", r, c>>)
  BY <1>1, <1>2, <1>4, FinishingFacts
<1>6. \A k \in DOMAIN queue' : queue'[k].id # runs[r].task
  BY <1>3, QueueTasks DEF Left
<1>7. Decided(r)
  <2>1. \A k \in DOMAIN queue' : \E l \in DOMAIN queue : queue'[k] = queue[l]
    BY <1>3 DEF Left
  <2>2. cancelling' = cancelling \ {runs[r].task}
    BY <1>1, <1>2
  <2> QED BY <1>2, <1>6, <2>1, <2>2 DEF Decided
<1>8. Accounted /\ settled' \subseteq TaskIds
  BY <1>1, <1>2, <1>3, SettledNow DEF Left
<1> QED BY <1>1, <1>2, <1>4, <1>5, <1>7, <1>8 DEF Finishes

LEMMA PausedFinish ==
  ASSUME TypeInv, NEW r \in RunIds, NEW outcome, EndPaused(r, outcome)
  PROVE  Finishes(r)
<1>1. /\ MayEnd(r, outcome) /\ ~ RunStale(r) /\ ~ Unwanted(runs[r].task)
      /\ Status(queue, runs[r].task) = "pending"
      /\ UNCHANGED <<mem, sched, switch, inactive, disk, lost, calls, settled>>
      /\ Finishing(r, FALSE)
  BY DEF EndPaused
<1>2. UNCHANGED <<cur, queue, restored, cancelling, active, paused, limit, timer>>
  BY <1>1 DEF mem
<1>3. /\ runs[r].stage \in {"prepare", "commit"} /\ cur \in Projects /\ queue' \in Queues
      /\ queue \in Queues /\ paused' \in BOOLEAN /\ drainDue \in BOOLEAN
      /\ runs[r].task \notin cancelling
  BY <1>1, <1>2, EndingFacts
<1>4. /\ Flagged({r}) /\ runs'[r].stage = "finish"
      /\ runs'[r].task = runs[r].task /\ runs'[r].proj = runs[r].proj
      /\ runs'[r].own = runs[r].own /\ runs'[r].fresh = runs[r].fresh
      /\ \A x \in RunIds : runs'[x].unwanted = runs[x].unwanted
      /\ \E c \in BOOLEAN : Saved(writes, cur, <<"run", r, c>>)
  BY <1>1, <1>3, FinishingFacts
<1>5. \A k \in DOMAIN queue : queue[k].id = runs[r].task => queue[k].st = "pending"
  BY <1>1, <1>3, QueueTasks
<1>6. Decided(r)
  BY <1>2, <1>3, <1>5 DEF Decided
<1>7. Accounted /\ settled' \subseteq TaskIds
  BY <1>1, <1>2, Unsettled
<1>8. drainDue' \in BOOLEAN /\ UNCHANGED <<scheduling, scheds>>
  BY <1>1, <1>3 DEF sched
<1> QED BY <1>1, <1>2, <1>3, <1>4, <1>6, <1>7, <1>8 DEF Finishes

LEMMA FailedFinish ==
  ASSUME TypeInv, NEW r \in RunIds, EndFailed(r)
  PROVE  Finishes(r)
<1>1. /\ MayEnd(r, "error") /\ ~ RunStale(r) /\ ~ Unwanted(runs[r].task)
      /\ queue' = IF runs[r].own THEN Revise(queue, {runs[r].task}, Failed) ELSE queue
      /\ UNCHANGED <<cur, restored, cancelling, active, paused, limit, timer, sched, switch,
                     inactive, disk, lost, calls, settled>>
      /\ Finishing(r, FALSE)
  BY DEF EndFailed, Failing
<1>2. /\ runs[r].stage \in {"prepare", "commit"} /\ cur \in Projects
      /\ queue \in Queues /\ paused' \in BOOLEAN /\ drainDue \in BOOLEAN
      /\ runs[r].task \notin cancelling
  BY <1>1, EndingFacts
<1>3. /\ queue' \in Queues /\ Ids(queue') = Ids(queue) /\ DOMAIN queue' = DOMAIN queue
      /\ \A k \in DOMAIN queue :
            /\ queue'[k].id = queue[k].id /\ queue'[k].proj = queue[k].proj
            /\ IF runs[r].own /\ queue[k].id = runs[r].task
               THEN queue'[k].st \in {"pending", "failed"} ELSE queue'[k].st = queue[k].st
  <2>1. CASE runs[r].own
    <3> DEFINE w == Revise(queue, {runs[r].task}, Failed)
    <3>1. /\ Altered(queue, w)
          /\ \A k \in DOMAIN queue : LET st == w[k].st IN
                IF queue[k].id \in {runs[r].task} THEN st \in {"pending", "failed"}
                ELSE st = queue[k].st
      BY <1>2, FailFacts
    <3>2. queue' = w
      BY <1>1, <2>1
    <3> HIDE DEF w
    <3> QED BY <2>1, <3>1, <3>2, AlteredIds DEF Altered
  <2>2. CASE ~ runs[r].own
    BY <1>1, <1>2, <2>2
  <2> QED BY <2>1, <2>2
<1>4. /\ Flagged({r}) /\ runs'[r].stage = "finish"
      /\ runs'[r].task = runs[r].task /\ runs'[r].proj = runs[r].proj
      /\ runs'[r].own = runs[r].own /\ runs'[r].fresh = runs[r].fresh
      /\ \A x \in RunIds : runs'[x].unwanted = runs[x].unwanted
      /\ \E c \in BOOLEAN : Saved(writes, cur, <<"run", r, c>>)
  BY <1>1, <1>2, <1>3, FinishingFacts
<1>5. Decided(r)
  BY <1>1, <1>2, <1>3 DEF Decided
<1>6. Accounted /\ settled' \subseteq TaskIds
  BY <1>1, <1>3, Unsettled
<1>7. drainDue' \in BOOLEAN /\ UNCHANGED <<scheduling, scheds>>
  BY <1>1, <1>2 DEF sched
<1> QED BY <1>1, <1>2, <1>3, <1>4, <1>5, <1>6, <1>7 DEF Finishes

LEMMA LimitedFinish ==
  ASSUME TypeInv, NEW r \in RunIds, EndLimited(r)
  PROVE  Finishes(r)
<1> DEFINE siblings == {id \in Having(queue, "processing") :
                          active[id] # NoRun /\ id # runs[r].task
                          /\ Entry(queue, id).proj = runs[r].proj}
           q == SetOwn(runs[r].own, runs[r].task, "pending")
<1>1. /\ MayEnd(r, "limit") /\ ~ RunStale(r) /\ ~ Unwanted(runs[r].task)
      /\ queue' = WithStatus(q, siblings, "pending") /\ paused' = TRUE
      /\ runs' = [x \in RunIds |->
                  IF x = r THEN [runs[r] EXCEPT !.stage = "finish"]
                  ELSE [runs[x] EXCEPT !.aborted = @ \/ x \in RunsOf(siblings)]]
      /\ Save(cur, <<"run", r, TRUE>>)
      /\ UNCHANGED <<cur, restored, cancelling, active, limit, timer, sched, switch,
                     inactive, disk, lost, calls, settled>>
  BY DEF EndLimited, Failing
<1> HIDE DEF siblings
<1>2. /\ runs[r].stage \in {"prepare", "commit"} /\ cur \in Projects
      /\ queue \in Queues /\ drainDue \in BOOLEAN /\ runs[r].task \notin cancelling
  BY <1>1, EndingFacts
<1>3. Stamped(queue, q, IF runs[r].own THEN {runs[r].task} ELSE {}, "pending")
  <2>1. CASE runs[r].own
    BY <1>2, <2>1, StampFacts DEF SetOwn, Statuses
  <2>2. CASE ~ runs[r].own
    BY <1>2, <2>2 DEF SetOwn, Stamped, Altered
  <2> QED BY <2>1, <2>2
<1> HIDE DEF q
<1>4. q \in Queues
  BY <1>3 DEF Stamped, Altered
<1>5. Stamped(q, queue', siblings, "pending")
  BY <1>1, <1>4, StampFacts DEF Statuses
<1>6. /\ queue' \in Queues /\ Ids(queue') = Ids(queue) /\ DOMAIN queue' = DOMAIN queue
      /\ \A k \in DOMAIN queue :
            /\ queue'[k].id = queue[k].id /\ queue'[k].proj = queue[k].proj
            /\ queue'[k].st = "processing" =>
                  queue[k].st = "processing" /\ (queue[k].id = runs[r].task => ~ runs[r].own)
  <2>1. Altered(queue, q) /\ Altered(q, queue')
    BY <1>3, <1>5 DEF Stamped
  <2>2. Ids(queue') = Ids(queue)
    BY <2>1, AlteredIds
  <2>3. \A k \in DOMAIN queue : queue'[k].st = "processing" => q[k].st = "processing"
    BY <1>5, <2>1 DEF Stamped, Altered
  <2>4. \A k \in DOMAIN queue : q[k].st = "processing" =>
           queue[k].st = "processing" /\ (queue[k].id = runs[r].task => ~ runs[r].own)
    BY <1>3 DEF Stamped
  <2> QED BY <2>1, <2>2, <2>3, <2>4 DEF Altered
<1>7. "limit" \in Faults
  BY <1>1 DEF MayEnd
<1>8. Decided(r)
  BY <1>1, <1>2, <1>6, <1>7 DEF Decided
<1>9. Accounted /\ settled' \subseteq TaskIds
  BY <1>1, <1>6, Unsettled
<1>10. Saved(writes, cur, <<"run", r, TRUE>>)
  BY <1>1, <1>2, <1>6, SaveTyped, Kinds
<1>11. /\ Flagged({r}) /\ runs'[r].stage = "finish"
       /\ runs'[r].task = runs[r].task /\ runs'[r].proj = runs[r].proj
       /\ runs'[r].own = runs[r].own /\ runs'[r].fresh = runs[r].fresh
       /\ \A x \in RunIds : runs'[x].unwanted = runs[x].unwanted
  <2>1. /\ [runs[r] EXCEPT !.stage = "finish"] \in Run
        /\ [runs[r] EXCEPT !.stage = "finish"].stage = "finish"
        /\ [runs[r] EXCEPT !.stage = "finish"].task = runs[r].task
        /\ [runs[r] EXCEPT !.stage = "finish"].own = runs[r].own
        /\ [runs[r] EXCEPT !.stage = "finish"].proj = runs[r].proj
        /\ [runs[r] EXCEPT !.stage = "finish"].fresh = runs[r].fresh
        /\ [runs[r] EXCEPT !.stage = "finish"].unwanted = runs[r].unwanted
    BY RunStage
  <2>2. ASSUME NEW x \in RunIds \ {r}
        PROVE  /\ runs'[x] \in Run
               /\ runs'[x].stage = runs[x].stage /\ runs'[x].task = runs[x].task
               /\ runs'[x].own = runs[x].own /\ runs'[x].proj = runs[x].proj
               /\ runs'[x].fresh = runs[x].fresh /\ runs'[x].unwanted = runs[x].unwanted
               /\ runs[x].aborted => runs'[x].aborted
    <3>1. runs[x] \in Run
      BY DEF TypeInv, RunsTyped
    <3>2. runs'[x] = [runs[x] EXCEPT !.aborted = @ \/ x \in RunsOf(siblings)]
      BY <1>1
    <3> QED BY <3>1, <3>2 DEF Run
  <2>3. runs'[r] = [runs[r] EXCEPT !.stage = "finish"]
    BY <1>1
  <2>4. runs' = [x \in RunIds |-> runs'[x]]
    BY <1>1
  <2>5. runs' \in [RunIds -> Run]
    BY <2>1, <2>2, <2>3, <2>4
  <2> QED BY <2>1, <2>2, <2>3, <2>5 DEF Flagged
<1>12. drainDue' \in BOOLEAN /\ UNCHANGED <<scheduling, scheds>>
  BY <1>1, <1>2 DEF sched
<1> QED BY <1>1, <1>2, <1>6, <1>8, <1>9, <1>10, <1>11, <1>12 DEF Finishes

\* A step of autoIngest's end ignores the result or decides about the task.
LEMMA RunStepFacts ==
  ASSUME TypeInv, NEW r \in RunIds, RunStep(r)
  PROVE  Ignored(r) \/ Finishes(r)
  BY IgnoredFacts, CancelledFinish, DoneFinish, PausedFinish, FailedFinish, LimitedFinish
     DEF RunStep

LEMMA FinishTyped ==
  ASSUME TypeInv, NEW r \in RunIds, Finishes(r)
  PROVE  TypeInv'
<1>1. writes' \in Seq(Write)
  BY DEF Finishes, Saved
<1>2. MemTyped'
  BY DEF Finishes, Decided, TypeInv, MemTyped
<1>3. SchedTyped' /\ SwitchTyped' /\ RunsTyped' /\ BookTyped'
  BY DEF Finishes, Flagged, TypeInv, SchedTyped, SwitchTyped, switch, RunsTyped, BookTyped
<1>4. FilesTyped'
  BY <1>1 DEF Finishes, TypeInv, FilesTyped
<1> QED BY <1>2, <1>3, <1>4 DEF TypeInv

-----------------------------------------------------------------------------
(* What follows a disk write *)

\* The first write is over, and has or has not reached the disk.
Landed ==
    /\ 1 \in DOMAIN writes /\ writes[1] \in Write
    /\ disk' \in [Projects -> Queues] /\ lost' \subseteq Projects
    /\ Reached(writes[1].proj, writes[1].tasks)

\* The others go on waiting.
Popped ==
    /\ writes' \in Seq(Write) /\ Len(writes') = Len(writes) - 1
    /\ \A j \in DOMAIN writes' : /\ j \in Nat /\ j + 1 \in DOMAIN writes
                                 /\ writes'[j] = writes[j + 1]

LEMMA LandedFacts ==
  ASSUME TypeInv, Written
  PROVE  Landed /\ Head(writes) = writes[1] /\ (writes' = Tail(writes) => Popped)
<1>1. /\ Head(writes) = writes[1] /\ 1 \in DOMAIN writes
      /\ writes[1] \in Write /\ Tail(writes) \in Seq(Write)
      /\ Len(Tail(writes)) = Len(writes) - 1
      /\ \A i \in DOMAIN Tail(writes) : i \in Nat /\ i + 1 \in DOMAIN writes
                                        /\ Tail(writes)[i] = writes[i + 1]
      /\ FilesStay /\ Reached(writes[1].proj, writes[1].tasks)
  BY WrittenFacts
<1> QED BY <1>1 DEF Landed, Popped, FilesStay

CallSaved ==
    /\ Landed /\ Popped
    /\ UNCHANGED <<mem, switch, runs, inactive, calls, settled>>
    /\ \/ writes[1].k = <<"next">> /\ Kick(cur)
       \/ writes[1].k = <<"none">> /\ UNCHANGED sched

LEMMA CallSavedFacts ==
  ASSUME TypeInv, SavedCall
  PROVE  CallSaved
<1>1. Landed /\ Popped /\ Head(writes) = writes[1]
  BY LandedFacts DEF SavedCall
<1>2. \/ writes[1].k = <<"next">> /\ Kick(cur)
      \/ writes[1].k = <<"none">> /\ UNCHANGED sched
  <2>1. writes[1].k \in {<<"next">>, <<"none">>}
        /\ IF writes[1].k = <<"next">> THEN Kick(cur) ELSE UNCHANGED sched
    BY <1>1 DEF SavedCall, Wakes
  <2> QED BY <2>1
<1> QED BY <1>1, <1>2 DEF SavedCall, CallSaved

LEMMA CallSavedTyped ==
  ASSUME TypeInv, CallSaved
  PROVE  TypeInv'
<1>1. MemTyped' /\ RunsTyped' /\ SwitchTyped' /\ BookTyped'
  BY DEF CallSaved, TypeInv, MemTyped, RunsTyped, SwitchTyped, BookTyped, mem, switch
<1>2. FilesTyped'
  BY DEF CallSaved, Landed, Popped, TypeInv, FilesTyped
<1>3. queue' \in Queues /\ cur \in Projects \cup {NoProject} /\ SchedTyped
  BY <1>1 DEF MemTyped, TypeInv
<1>4. SchedTyped'
  <2>1. CASE Kick(cur)
    BY <1>3, <2>1, KickTyped
  <2>2. CASE UNCHANGED sched
    BY <1>3, <2>2 DEF SchedTyped, sched
  <2> QED BY <2>1, <2>2 DEF CallSaved
<1> QED BY <1>1, <1>2, <1>4 DEF TypeInv

ImpossibleSaved(i) ==
    /\ Landed /\ Popped /\ writes[1].k = <<"sched", i>> /\ scheds[i].pc = "failed"
    /\ UNCHANGED <<mem, switch, runs, inactive, calls, settled>>
    /\ GoOn(i)

LEMMA ImpossibleSavedFacts ==
  ASSUME TypeInv, NEW i \in SchedIds, SavedImpossible(i)
  PROVE  ImpossibleSaved(i)
<1>1. Landed /\ Popped /\ Head(writes) = writes[1]
  BY LandedFacts DEF SavedImpossible
<1> QED BY <1>1 DEF SavedImpossible, ImpossibleSaved

LEMMA ImpossibleSavedTyped ==
  ASSUME TypeInv, NEW i \in SchedIds, ImpossibleSaved(i)
  PROVE  TypeInv'
<1>1. MemTyped' /\ RunsTyped' /\ SwitchTyped' /\ BookTyped'
  BY DEF ImpossibleSaved, TypeInv, MemTyped, RunsTyped, SwitchTyped, BookTyped, mem, switch
<1>2. FilesTyped'
  BY DEF ImpossibleSaved, Landed, Popped, TypeInv, FilesTyped
<1>3. queue' \in Queues /\ SchedTyped
  BY <1>1 DEF MemTyped, TypeInv
<1>4. SchedTyped'
  BY <1>3, GoOnTyped DEF ImpossibleSaved
<1> QED BY <1>1, <1>2, <1>4 DEF TypeInv

StartSaved(i, r) ==
    /\ Landed /\ Popped /\ writes[1].k = <<"sched", i>> /\ scheds[i].pc = "start"
    /\ r = scheds[i].run
    /\ \/ /\ cur # scheds[i].proj \/ ~ runs[r].fresh
          /\ runs' = [runs EXCEPT ![r] = FreeRun]
          /\ active' = [active EXCEPT ![runs[r].task] = NoRun]
       \/ /\ cur = scheds[i].proj /\ runs[r].fresh
          /\ runs' = [runs EXCEPT ![r].stage = "prepare"]
          /\ UNCHANGED active
    /\ UNCHANGED <<cur, queue, restored, cancelling, paused, limit, timer, switch,
                   inactive, calls, settled>>
    /\ GoOn(i)

LEMMA StartSavedFacts ==
  ASSUME TypeInv, NEW i \in SchedIds, SavedStart(i)
  PROVE  StartSaved(i, scheds[i].run)
<1>1. Landed /\ Popped /\ Head(writes) = writes[1]
  BY LandedFacts DEF SavedStart
<1> QED BY <1>1 DEF SavedStart, StartSaved

LEMMA StartSavedTyped ==
  ASSUME TypeInv, NEW i \in SchedIds, NEW r, StartSaved(i, r)
  PROVE  TypeInv'
<1>1. SwitchTyped' /\ BookTyped'
  BY DEF StartSaved, TypeInv, SwitchTyped, BookTyped, switch
<1>2. FilesTyped'
  BY DEF StartSaved, Landed, Popped, TypeInv, FilesTyped
<1>3. MemTyped'
  BY DEF StartSaved, TypeInv, MemTyped
<1>4. RunsTyped'
  <2>1. runs \in [RunIds -> Run]
    BY DEF TypeInv, RunsTyped
  <2>2. CASE r \in RunIds
    <3>1. [runs[r] EXCEPT !.stage = "prepare"] \in Run
      BY <2>2, RunStage
    <3> QED BY <2>1, <2>2, <3>1, FreeTyped DEF StartSaved, RunsTyped
  <2>3. CASE r \notin RunIds
    BY <2>1, <2>3 DEF StartSaved, RunsTyped
  <2> QED BY <2>2, <2>3
<1>5. queue' \in Queues /\ SchedTyped
  BY <1>3 DEF MemTyped, TypeInv
<1>6. SchedTyped'
  BY <1>5, GoOnTyped DEF StartSaved
<1> QED BY <1>1, <1>2, <1>3, <1>4, <1>6 DEF TypeInv

RunSaved(r) ==
    /\ Landed /\ Popped
    /\ \E b \in BOOLEAN : writes[1].k = <<"run", r, b>>
    /\ RunBecomes(r, FreeRun) /\ Forgotten(r) /\ Awaited(r)
    /\ timer' \in {timer, runs[r].proj}
    /\ UNCHANGED <<cur, queue, restored, cancelling, paused, limit, opening, overlapped,
                   inactive, calls, settled>>
    /\ \/ RunStale(r) /\ UNCHANGED sched
       \/ ~ RunStale(r) /\ Kick(runs[r].proj)

LEMMA RunSavedFacts ==
  ASSUME TypeInv, NEW r \in RunIds, SavedRun(r)
  PROVE  RunSaved(r)
<1>1. Landed /\ Popped /\ Head(writes) = writes[1]
  BY LandedFacts DEF SavedRun
<1>2. \E b \in BOOLEAN : writes[1].k = <<"run", r, b>>
  <2>1. writes[1].k \in {<<"run", r, TRUE>>, <<"run", r, FALSE>>}
    BY <1>1 DEF SavedRun
  <2> QED BY <2>1
<1>3. runs' = [runs EXCEPT ![r] = FreeRun] /\ Forget(r) /\ Completed(r)
  BY DEF SavedRun
<1>4. RunBecomes(r, FreeRun) /\ Forgotten(r) /\ Awaited(r)
  BY <1>3, RunChange, FreeTyped, ForgetFacts, AwaitFacts
<1>5. timer' \in {timer, runs[r].proj}
  BY DEF SavedRun, Arm
<1> QED BY <1>1, <1>2, <1>4, <1>5 DEF SavedRun, SlotFreed, RunSaved

LEMMA RunSavedTyped ==
  ASSUME TypeInv, NEW r \in RunIds, RunSaved(r)
  PROVE  TypeInv'
<1>1. runs[r].proj \in Projects
  BY DEF TypeInv, RunsTyped, Run
<1>2. FilesTyped' /\ BookTyped'
  BY DEF RunSaved, Landed, Popped, TypeInv, FilesTyped, BookTyped
<1>3. MemTyped' /\ RunsTyped' /\ SwitchTyped'
  BY <1>1 DEF RunSaved, RunBecomes, Forgotten, Awaited, TypeInv, MemTyped, RunsTyped, SwitchTyped
<1>4. queue' \in Queues /\ SchedTyped
  BY <1>3 DEF MemTyped, TypeInv
<1>5. SchedTyped'
  <2>1. CASE Kick(runs[r].proj)
    BY <1>1, <1>4, <2>1, KickTyped
  <2>2. CASE UNCHANGED sched
    BY <1>4, <2>2 DEF SchedTyped, sched
  <2> QED BY <2>1, <2>2 DEF RunSaved
<1> QED BY <1>2, <1>3, <1>5 DEF TypeInv

-----------------------------------------------------------------------------
(* Closing and opening a project *)

\* The queue epoch has moved on.
OutOfDate ==
    /\ scheds' \in [SchedIds -> Sched] /\ scheduling' = FALSE /\ UNCHANGED drainDue
    /\ \A i \in SchedIds : scheds'[i].pc = scheds[i].pc /\ ~ scheds'[i].fresh
    /\ runs' \in [RunIds -> Run]
    /\ \A r \in RunIds :
          /\ runs'[r].stage = runs[r].stage /\ runs'[r].task = runs[r].task
          /\ runs'[r].proj = runs[r].proj /\ ~ runs'[r].fresh
          /\ runs[r].aborted => runs'[r].aborted

LEMMA OutdatedFacts ==
  ASSUME TypeInv, Outdated
  PROVE  /\ scheds' \in [SchedIds -> Sched] /\ scheduling' = FALSE /\ UNCHANGED drainDue
         /\ \A i \in SchedIds : scheds'[i].pc = scheds[i].pc /\ ~ scheds'[i].fresh
<1>1. \A i \in SchedIds : scheds[i] \in Sched
  BY DEF TypeInv, SchedTyped
<1>2. ASSUME NEW i \in SchedIds
      PROVE  scheds'[i] \in Sched /\ scheds'[i].pc = scheds[i].pc /\ ~ scheds'[i].fresh
  <2>1. scheds'[i] = [scheds[i] EXCEPT !.fresh = FALSE]
    BY DEF Outdated
  <2> QED BY <1>1, <2>1 DEF Sched
<1>3. scheds' = [i \in SchedIds |-> scheds'[i]]
  BY DEF Outdated
<1>4. scheds' \in [SchedIds -> Sched]
  BY <1>2, <1>3
<1> QED BY <1>2, <1>4 DEF Outdated

\* The queue is put away, to the file of p.
Flushed(p) ==
    /\ p \in Projects /\ active' = [id \in TaskIds |-> NoRun]
    /\ queue' \in Queues /\ Ids(queue') = Ids(queue) /\ DOMAIN queue' = DOMAIN queue
    /\ Having(queue', "processing") = {}
    /\ \A k \in DOMAIN queue : queue'[k].id = queue[k].id /\ queue'[k].proj = queue[k].proj
                               /\ queue'[k].st # "processing"
    /\ closing' = [pc |-> "save1", proj |-> p, waiting |-> {}]
    /\ Saved(writes, p, <<"close">>)

LEMMA FlushFacts ==
  ASSUME TypeInv, NEW p \in Projects, Flush(p)
  PROVE  Flushed(p)
<1>1. /\ queue' = Interrupted(queue) /\ Save(p, <<"close">>) /\ queue \in Queues
      /\ active' = [id \in TaskIds |-> NoRun]
      /\ closing' = [pc |-> "save1", proj |-> p, waiting |-> {}]
  BY DEF Flush, TypeInv, MemTyped
<1>2. /\ Altered(queue, queue') /\ Having(queue', "processing") = {}
      /\ \A k \in DOMAIN queue : queue'[k].st # "processing"
  BY <1>1, InterruptFacts DEF Stamped
<1>3. Ids(queue') = Ids(queue) /\ queue' \in Queues
  BY <1>2, AlteredIds DEF Altered
<1>4. Saved(writes, p, <<"close">>)
  BY <1>1, <1>3, SaveTyped, Kinds
<1> QED BY <1>1, <1>2, <1>3, <1>4 DEF Flushed, Altered

Pauses ==
    /\ Switching => "calls" \in Overlap
    /\ Suspended => "suspended" \in Overlap
    /\ cur \in Projects /\ closing.pc = "idle" /\ timer' = NoProject
    /\ overlapped' = (overlapped \/ Suspended)
    /\ OutOfDate
    /\ \A r \in RunIds : runs'[r].own = runs[r].own /\ (r \in RunsOf(TaskIds) => runs'[r].aborted)
    /\ \/ Committing = {} /\ Flushed(cur)
       \/ /\ closing' = [pc |-> "commits", proj |-> cur, waiting |-> Committing]
          /\ UNCHANGED <<active, queue, writes>>
    /\ calls' \in 0..MaxCalls
    /\ UNCHANGED <<cur, restored, cancelling, paused, limit, opening, inactive, disk, lost, settled>>

LEMMA SwitchCallFacts ==
  ASSUME TypeInv, SwitchCall
  PROVE  /\ calls' \in 0..MaxCalls /\ (Switching => "calls" \in Overlap)
         /\ Suspended => "suspended" \in Overlap
<1>1. Call("switch")
  BY DEF SwitchCall
<1> QED BY <1>1, CallFacts DEF SwitchCall

LEMMA PausesFacts ==
  ASSUME TypeInv, PauseQueue
  PROVE  Pauses
<1>1. /\ SwitchCall /\ cur # NoProject /\ closing.pc = "idle" /\ timer' = NoProject /\ Outdated
      /\ overlapped' = (overlapped \/ Suspended)
      /\ runs' = [r \in RunIds |-> [runs[r] EXCEPT !.fresh = FALSE,
                                        !.aborted = @ \/ r \in RunsOf(TaskIds)]]
      /\ IF Committing = {} THEN Flush(cur)
         ELSE /\ closing' = [pc |-> "commits", proj |-> cur, waiting |-> Committing]
              /\ UNCHANGED <<active, queue, writes>>
      /\ UNCHANGED <<cur, restored, cancelling, paused, limit, opening, inactive, disk, lost, settled>>
  BY DEF PauseQueue
<1>2. cur \in Projects
  BY <1>1 DEF TypeInv, MemTyped
<1>3. ASSUME NEW r \in RunIds
      PROVE  /\ runs'[r] \in Run
             /\ runs'[r].stage = runs[r].stage /\ runs'[r].task = runs[r].task
             /\ runs'[r].proj = runs[r].proj /\ ~ runs'[r].fresh /\ runs'[r].own = runs[r].own
             /\ runs[r].aborted => runs'[r].aborted
             /\ r \in RunsOf(TaskIds) => runs'[r].aborted
  <2>1. runs[r] \in Run
    BY DEF TypeInv, RunsTyped
  <2>2. runs'[r] = [runs[r] EXCEPT !.fresh = FALSE, !.aborted = @ \/ r \in RunsOf(TaskIds)]
    BY <1>1
  <2> QED BY <2>1, <2>2 DEF Run
<1>4. runs' \in [RunIds -> Run]
  <2>1. runs' = [r \in RunIds |-> runs'[r]]
    BY <1>1
  <2> QED BY <1>3, <2>1
<1>5. OutOfDate
  BY <1>1, <1>3, <1>4, OutdatedFacts DEF OutOfDate
<1>6. \/ Committing = {} /\ Flushed(cur)
      \/ /\ closing' = [pc |-> "commits", proj |-> cur, waiting |-> Committing]
         /\ UNCHANGED <<active, queue, writes>>
  BY <1>1, <1>2, FlushFacts
<1> QED BY <1>1, <1>2, <1>3, <1>5, <1>6, SwitchCallFacts DEF Pauses

LEMMA FlushedTyped ==
  ASSUME TypeInv, NEW p, Flushed(p)
  PROVE  /\ active' \in [TaskIds -> RunIds \cup {NoRun}] /\ queue' \in Queues
         /\ writes' \in Seq(Write)
         /\ closing' \in [pc: {"idle", "commits", "save1", "save2"}, proj: Projects,
                          waiting: SUBSET RunIds]
  BY DEF Flushed, Saved

LEMMA PausesTyped ==
  ASSUME TypeInv, Pauses
  PROVE  TypeInv'
<1>1. /\ active' \in [TaskIds -> RunIds \cup {NoRun}] /\ queue' \in Queues
      /\ writes' \in Seq(Write)
      /\ closing' \in [pc: {"idle", "commits", "save1", "save2"}, proj: Projects,
                       waiting: SUBSET RunIds]
  <2>1. CASE Flushed(cur)
    BY <2>1, FlushedTyped
  <2>2. CASE closing' = [pc |-> "commits", proj |-> cur, waiting |-> Committing]
             /\ UNCHANGED <<active, queue, writes>>
    <3>1. Committing \subseteq RunIds
      BY DEF Committing, RunsOf, TypeInv, MemTyped
    <3> QED BY <2>2, <3>1 DEF Pauses, TypeInv, MemTyped, FilesTyped
  <2> QED BY <2>1, <2>2 DEF Pauses
<1>2. MemTyped'
  BY <1>1 DEF Pauses, TypeInv, MemTyped
<1>3. SchedTyped' /\ RunsTyped' /\ BookTyped'
  BY DEF Pauses, OutOfDate, TypeInv, SchedTyped, RunsTyped, BookTyped
<1>4. FilesTyped'
  BY <1>1 DEF Pauses, TypeInv, FilesTyped
<1>5. SwitchTyped'
  <2>1. overlapped' \in BOOLEAN
    BY DEF Pauses, Suspended, TypeInv, SwitchTyped
  <2> QED BY <1>1, <2>1 DEF Pauses, TypeInv, SwitchTyped
<1> QED BY <1>2, <1>3, <1>4, <1>5 DEF TypeInv

Flushes ==
    /\ closing.pc = "commits" /\ closing.waiting = {} /\ Flushed(closing.proj)
    /\ UNCHANGED <<cur, restored, cancelling, paused, limit, timer, sched, opening, overlapped,
                   runs, inactive, disk, lost, calls, settled>>

LEMMA FlushesFacts ==
  ASSUME TypeInv, CommitsOver
  PROVE  Flushes
<1>1. closing.proj \in Projects
  BY DEF TypeInv, SwitchTyped
<1> QED BY <1>1, FlushFacts DEF CommitsOver, Flushes

LEMMA FlushesTyped ==
  ASSUME TypeInv, Flushes
  PROVE  TypeInv'
<1>1. /\ active' \in [TaskIds -> RunIds \cup {NoRun}] /\ queue' \in Queues
      /\ writes' \in Seq(Write)
      /\ closing' \in [pc: {"idle", "commits", "save1", "save2"}, proj: Projects,
                       waiting: SUBSET RunIds]
  BY FlushedTyped DEF Flushes
<1>2. MemTyped' /\ FilesTyped'
  BY <1>1 DEF Flushes, TypeInv, MemTyped, FilesTyped
<1>3. SchedTyped' /\ RunsTyped' /\ BookTyped' /\ SwitchTyped'
  BY <1>1 DEF Flushes, TypeInv, SchedTyped, sched, RunsTyped, BookTyped, SwitchTyped
<1> QED BY <1>2, <1>3 DEF TypeInv

\* The second flush follows the first one.
FlushedAgain ==
    /\ closing.pc = "save1" /\ closing.proj \in Projects
    /\ queue' \in Queues /\ Ids(queue') = Ids(queue) /\ DOMAIN queue' = DOMAIN queue
    /\ Having(queue', "processing") = {}
    /\ \A k \in DOMAIN queue : queue'[k].id = queue[k].id /\ queue'[k].proj = queue[k].proj
                               /\ queue'[k].st # "processing"
    /\ Tail(writes) \in Seq(Write) /\ Len(Tail(writes)) = Len(writes) - 1
    /\ \A j \in DOMAIN Tail(writes) : /\ j \in Nat /\ j + 1 \in DOMAIN writes
                                      /\ Tail(writes)[j] = writes[j + 1]
    /\ Saved(Tail(writes), closing.proj, <<"close">>)
    /\ closing' = [closing EXCEPT !.pc = "save2"]
    /\ UNCHANGED <<cur, restored, cancelling, drainDue>>

\* After the second one the module state is wiped.
Wiped ==
    /\ closing.pc # "save1"
    /\ queue' = << >> /\ restored' = {} /\ cancelling' = {} /\ cur' = NoProject
    /\ drainDue' = FALSE /\ closing' = IdleClosing
    /\ Popped

CloseSaved ==
    /\ Landed /\ writes[1].k = <<"close">>
    /\ FlushedAgain \/ Wiped
    /\ UNCHANGED <<active, paused, limit, timer, scheduling, scheds, opening, overlapped,
                   runs, inactive, calls, settled>>

LEMMA CloseSavedFacts ==
  ASSUME TypeInv, SavedClose
  PROVE  CloseSaved
<1>1. Written /\ Landed /\ Head(writes) = writes[1] /\ (writes' = Tail(writes) => Popped)
  BY LandedFacts DEF SavedClose
<1>2. queue \in Queues /\ closing.proj \in Projects
  BY DEF TypeInv, MemTyped, SwitchTyped
<1>3. CASE FlushAgain
  <2>1. /\ queue' = Interrupted(queue)
        /\ writes' = Append(Tail(writes), Request(closing.proj, <<"close">>))
        /\ closing' = [closing EXCEPT !.pc = "save2"]
        /\ UNCHANGED <<cur, restored, cancelling, drainDue>>
    BY <1>3 DEF SavedClose
  <2>2. /\ Altered(queue, queue') /\ Having(queue', "processing") = {}
        /\ \A k \in DOMAIN queue : queue'[k].st # "processing"
    BY <1>2, <2>1, InterruptFacts DEF Stamped
  <2>3. Ids(queue') = Ids(queue) /\ queue' \in Queues
    BY <2>2, AlteredIds DEF Altered
  <2>4. /\ Tail(writes) \in Seq(Write) /\ Len(Tail(writes)) = Len(writes) - 1
        /\ \A i \in DOMAIN Tail(writes) : i \in Nat /\ i + 1 \in DOMAIN writes
                                          /\ Tail(writes)[i] = writes[i + 1]
    BY <1>1, WrittenFacts
  <2>5. Saved(Tail(writes), closing.proj, <<"close">>)
    BY <1>2, <2>1, <2>3, <2>4, SaveFacts, Kinds
  <2>6. FlushedAgain
    BY <1>2, <1>3, <2>1, <2>2, <2>3, <2>4, <2>5 DEF FlushedAgain, FlushAgain, Altered
  <2> QED BY <1>1, <2>6 DEF SavedClose, CloseSaved
<1>4. CASE ~ FlushAgain
  <2>1. Wiped
    BY <1>1, <1>4 DEF SavedClose, Wiped, FlushAgain
  <2> QED BY <1>1, <2>1 DEF SavedClose, CloseSaved
<1> QED BY <1>3, <1>4

LEMMA CloseSavedTyped ==
  ASSUME TypeInv, CloseSaved
  PROVE  TypeInv'
<1>1. /\ queue' \in Queues /\ cur' \in Projects \cup {NoProject} /\ restored' \subseteq TaskIds
      /\ cancelling' \subseteq TaskIds /\ drainDue' \in BOOLEAN /\ writes' \in Seq(Write)
      /\ closing' \in [pc: {"idle", "commits", "save1", "save2"}, proj: Projects,
                       waiting: SUBSET RunIds]
  <2>1. CASE FlushedAgain
    <3>1. closing' \in [pc: {"idle", "commits", "save1", "save2"}, proj: Projects,
                        waiting: SUBSET RunIds]
      BY <2>1 DEF FlushedAgain, TypeInv, SwitchTyped
    <3> QED BY <2>1, <3>1 DEF FlushedAgain, Saved, TypeInv, MemTyped, SchedTyped
  <2>2. CASE Wiped
    BY <2>2, FreeTyped, EmptyQueue DEF Wiped, Popped
  <2> QED BY <2>1, <2>2 DEF CloseSaved
<1>2. MemTyped'
  BY <1>1 DEF CloseSaved, TypeInv, MemTyped
<1>3. FilesTyped'
  BY <1>1 DEF CloseSaved, Landed, TypeInv, FilesTyped
<1>4. SchedTyped' /\ RunsTyped' /\ SwitchTyped' /\ BookTyped'
  BY <1>1 DEF CloseSaved, TypeInv, SchedTyped, RunsTyped, SwitchTyped, BookTyped
<1> QED BY <1>2, <1>3, <1>4 DEF TypeInv

Opens(p) ==
    /\ p \in Projects /\ opening.pc = "idle"
    /\ (cur # NoProject \/ Switching) => "calls" \in Overlap
    /\ Suspended => "suspended" \in Overlap
    /\ queue' = << >> /\ restored' = {} /\ cancelling' = {}
    /\ active' = [id \in TaskIds |-> NoRun] /\ timer' = NoProject /\ paused' = FALSE
    /\ cur' = p /\ OutOfDate
    /\ opening' = [pc |-> "load", proj |-> p, waits |-> InactiveBusy]
    /\ calls' \in 0..MaxCalls
    /\ UNCHANGED <<limit, closing, overlapped, writes, inactive, disk, lost, settled>>

LEMMA OpensFacts ==
  ASSUME TypeInv, NEW p \in Projects, RestoreQueue(p)
  PROVE  Opens(p)
<1>1. SwitchCall /\ Outdated /\ runs' = [r \in RunIds |-> [runs[r] EXCEPT !.fresh = FALSE]]
  BY DEF RestoreQueue
<1>2. ASSUME NEW r \in RunIds
      PROVE  /\ runs'[r] \in Run
             /\ runs'[r].stage = runs[r].stage /\ runs'[r].task = runs[r].task
             /\ runs'[r].proj = runs[r].proj /\ ~ runs'[r].fresh
             /\ runs[r].aborted => runs'[r].aborted
  <2>1. runs[r] \in Run
    BY DEF TypeInv, RunsTyped
  <2>2. runs'[r] = [runs[r] EXCEPT !.fresh = FALSE]
    BY <1>1
  <2> QED BY <2>1, <2>2 DEF Run
<1>3. runs' \in [RunIds -> Run]
  <2>1. runs' = [r \in RunIds |-> runs'[r]]
    BY <1>1
  <2> QED BY <1>2, <2>1
<1>4. OutOfDate
  BY <1>1, <1>2, <1>3, OutdatedFacts DEF OutOfDate
<1> QED BY <1>1, <1>4, SwitchCallFacts DEF RestoreQueue, Opens

LEMMA OpensTyped ==
  ASSUME TypeInv, NEW p, Opens(p)
  PROVE  TypeInv'
<1>1. MemTyped'
  BY EmptyQueue DEF Opens, TypeInv, MemTyped
<1>2. SchedTyped' /\ RunsTyped' /\ BookTyped'
  BY DEF Opens, OutOfDate, TypeInv, SchedTyped, RunsTyped, BookTyped
<1>3. FilesTyped'
  BY DEF Opens, TypeInv, FilesTyped
<1>4. SwitchTyped'
  <2>1. InactiveBusy \in BOOLEAN
    BY DEF InactiveBusy
  <2> QED BY <2>1 DEF Opens, TypeInv, SwitchTyped
<1> QED BY <1>1, <1>2, <1>3, <1>4 DEF TypeInv

\* The tasks of the project's file become the queue.
Loads ==
    /\ queue' \in Queues
    /\ Ids(queue') \subseteq Ids(disk[opening.proj])
    /\ \A k \in DOMAIN queue' : queue'[k].proj = opening.proj /\ queue'[k].st # "processing"
    /\ (\A k \in DOMAIN disk[opening.proj] : disk[opening.proj][k].proj = opening.proj)
          => Ids(queue') = Ids(disk[opening.proj])
    /\ restored' = {id \in Having(queue', "pending") : ~ Entry(queue', id).auto}
    /\ runs' \in [RunIds -> Run]
    /\ \A r \in RunIds :
          /\ runs'[r].stage = runs[r].stage /\ runs'[r].task = runs[r].task
          /\ runs'[r].proj = runs[r].proj /\ runs'[r].fresh = runs[r].fresh
          /\ runs'[r].aborted = runs[r].aborted
    /\ scheds' \in [SchedIds -> Sched]
    /\ \A i \in SchedIds : scheds'[i].pc = scheds[i].pc /\ scheds'[i].fresh = scheds[i].fresh
                           /\ scheds'[i].task = scheds[i].task
    /\ opening' = [opening EXCEPT !.pc = "save"]
    /\ \E b \in BOOLEAN : Saved(writes, opening.proj, <<"open", b>>)

Loaded ==
    /\ opening.pc = "load" /\ ~ opening.waits /\ opening.proj \in Projects
    /\ lost' \subseteq Projects /\ (\A x \in lost : x # opening.proj => x \in lost')
    /\ \/ /\ disk[opening.proj] = << >> \/ opening.proj \in lost'
          /\ opening' = IdleOpening
          /\ UNCHANGED <<queue, restored, writes, runs, scheds, settled>>
       \/ Loads /\ settled' = settled \ Ids(disk[opening.proj])
    /\ UNCHANGED <<cur, cancelling, active, paused, limit, timer, scheduling, drainDue,
                   closing, overlapped, inactive, disk, calls>>

LEMMA LoadedFacts ==
  ASSUME TypeInv, RestoreLoad
  PROVE  Loaded
<1> DEFINE p == opening.proj
           saved == disk[p]
           other == {id \in Ids(saved) : Entry(saved, id).proj # p}
           mine == Without(saved, other)
<1>0. /\ opening.pc = "load" /\ ~ opening.waits
      /\ UNCHANGED <<cur, cancelling, active, paused, limit, timer, scheduling, drainDue,
                     closing, overlapped, inactive, disk, calls>>
  BY DEF RestoreLoad
<1>2. p \in Projects /\ saved \in Queues
  BY DEF TypeInv, SwitchTyped, FilesTyped
<1>10. PICK q \in Loadable(p) : LoadFile(p, q) /\ Restored(q)
  BY DEF RestoreLoad
<1>11. /\ q = saved \/ (q = << >> /\ q # saved)
       /\ lost' = IF q = saved THEN lost \ {p} ELSE lost \cup {p}
  BY <1>10 DEF Loadable, LoadFile
<1>12. lost' \subseteq Projects /\ (\A x \in lost : x # p => x \in lost')
  BY <1>2, <1>11 DEF TypeInv, FilesTyped
<1>13. CASE q = << >>
  <2>1. Ids(q) = {}
    BY <1>13 DEF Ids
  <2>2. opening' = IdleOpening /\ UNCHANGED <<queue, restored, writes, runs, scheds>>
        /\ settled' = settled \ Ids(q)
    BY <1>10, <1>13 DEF Restored
  <2>3. saved = << >> \/ p \in lost'
    BY <1>11, <1>13
  <2> QED BY <1>0, <1>2, <1>12, <2>1, <2>2, <2>3 DEF Loaded
<1>1. ASSUME q = saved
      PROVE  /\ settled' = settled \ Ids(saved)
             /\ saved # << >> =>
                   /\ queue' = Interrupted(mine)
                   /\ restored' = {id \in Having(queue', "pending") : ~ Entry(queue', id).auto}
                   /\ runs' = [r \in RunIds |-> [runs[r] EXCEPT !.own = FALSE]]
                   /\ scheds' = [i \in SchedIds |-> [scheds[i] EXCEPT !.own = FALSE]]
                   /\ opening' = [opening EXCEPT !.pc = "save"]
                   /\ Save(p, <<"open", Having(mine, "processing") # {}>>)
  BY <1>1, <1>10 DEF Restored
<1>3. Left(saved, mine, other)
  BY <1>2, LeftFacts
<1>4. \A k \in DOMAIN saved : saved[k].id \in other <=> saved[k].proj # p
  BY <1>2, QueueTasks
<1>5. /\ mine \in Queues /\ Ids(mine) = Ids(saved) \ other
      /\ \A i \in DOMAIN mine : \E k \in DOMAIN saved : mine[i] = saved[k]
      /\ \A i \in DOMAIN mine : mine[i].id \in Ids(mine)
  BY <1>3, QueueTasks DEF Left
<1>6. \A i \in DOMAIN mine : mine[i].proj = p
  <2> HIDE DEF saved, mine, other, p
  <2> QED BY <1>4, <1>5
<1>7. (\A k \in DOMAIN saved : saved[k].proj = p) => Ids(mine) = Ids(saved)
  <2> HAVE \A k \in DOMAIN saved : saved[k].proj = p
  <2>1. \A id \in Ids(saved) : \E k \in DOMAIN saved : saved[k].id = id
    BY DEF Ids
  <2>2. other \subseteq Ids(saved)
    OBVIOUS
  <2> HIDE DEF saved, mine, other, p
  <2> QED BY <1>4, <1>5, <2>1, <2>2
<1> HIDE DEF mine, other
<1>9. CASE q = saved /\ saved # << >>
  <2>1. /\ Altered(mine, queue') /\ \A i \in DOMAIN mine : queue'[i].st # "processing"
    BY <1>1, <1>5, <1>9, InterruptFacts DEF Stamped
  <2>2. queue' \in Queues /\ Ids(queue') = Ids(mine)
    BY <2>1, AlteredIds DEF Altered
  <2>3. \A k \in DOMAIN queue' : queue'[k].proj = p /\ queue'[k].st # "processing"
    BY <1>6, <2>1 DEF Altered
  <2>4. ASSUME NEW r \in RunIds
        PROVE  /\ runs'[r] \in Run
               /\ runs'[r].stage = runs[r].stage /\ runs'[r].task = runs[r].task
               /\ runs'[r].proj = runs[r].proj /\ runs'[r].fresh = runs[r].fresh
               /\ runs'[r].aborted = runs[r].aborted
    <3>1. runs[r] \in Run
      BY DEF TypeInv, RunsTyped
    <3>2. runs'[r] = [runs[r] EXCEPT !.own = FALSE]
      BY <1>1, <1>9
    <3> QED BY <3>1, <3>2 DEF Run
  <2>5. ASSUME NEW i \in SchedIds
        PROVE  /\ scheds'[i] \in Sched /\ scheds'[i].pc = scheds[i].pc
               /\ scheds'[i].fresh = scheds[i].fresh /\ scheds'[i].task = scheds[i].task
    <3>1. scheds[i] \in Sched
      BY DEF TypeInv, SchedTyped
    <3>2. scheds'[i] = [scheds[i] EXCEPT !.own = FALSE]
      BY <1>1, <1>9
    <3> QED BY <3>1, <3>2 DEF Sched
  <2>6. runs' \in [RunIds -> Run] /\ scheds' \in [SchedIds -> Sched]
    <3>1. runs' = [r \in RunIds |-> runs'[r]] /\ scheds' = [i \in SchedIds |-> scheds'[i]]
      BY <1>1, <1>9
    <3> QED BY <2>4, <2>5, <3>1
  <2> DEFINE b == Having(mine, "processing") # {}
  <2>7. b \in BOOLEAN /\ Save(p, <<"open", b>>)
    BY <1>1, <1>9
  <2> HIDE DEF b
  <2>8. Saved(writes, p, <<"open", b>>)
    BY <1>2, <2>2, <2>7, SaveTyped, Kinds
  <2>9. Ids(queue') \subseteq Ids(saved)
    BY <1>5, <2>2
  <2>10. (\A k \in DOMAIN saved : saved[k].proj = p) => Ids(queue') = Ids(saved)
    BY <1>7, <2>2
  <2>11. /\ restored' = {id \in Having(queue', "pending") : ~ Entry(queue', id).auto}
         /\ opening' = [opening EXCEPT !.pc = "save"]
    BY <1>1, <1>9
  <2>12. Loads
    BY <1>9, <2>2, <2>3, <2>4, <2>5, <2>6, <2>7, <2>8, <2>9, <2>10, <2>11 DEF Loads
  <2> QED BY <1>0, <1>1, <1>2, <1>9, <1>12, <2>12 DEF Loaded
<1> QED BY <1>9, <1>11, <1>13

LEMMA LoadedTyped ==
  ASSUME TypeInv, Loaded
  PROVE  TypeInv'
<1>1. /\ queue' \in Queues /\ restored' \subseteq TaskIds /\ writes' \in Seq(Write)
      /\ runs' \in [RunIds -> Run] /\ scheds' \in [SchedIds -> Sched]
      /\ opening' \in [pc: {"idle", "load", "save"}, proj: Projects, waits: BOOLEAN]
  <2>1. CASE Loads
    <3>1. queue' \in Queues /\ restored' \subseteq Having(queue', "pending")
      BY <2>1 DEF Loads
    <3>2. restored' \subseteq TaskIds
      BY <3>1, QueueIds
    <3>3. opening' \in [pc: {"idle", "load", "save"}, proj: Projects, waits: BOOLEAN]
      BY <2>1 DEF Loads, TypeInv, SwitchTyped
    <3> QED BY <2>1, <3>2, <3>3 DEF Loads, Saved
  <2>2. CASE opening' = IdleOpening /\ UNCHANGED <<queue, restored, writes, runs, scheds>>
    BY <2>2, FreeTyped DEF TypeInv, MemTyped, FilesTyped, RunsTyped, SchedTyped
  <2> QED BY <2>1, <2>2 DEF Loaded
<1>2. MemTyped' /\ FilesTyped' /\ RunsTyped'
  BY <1>1 DEF Loaded, TypeInv, MemTyped, FilesTyped, RunsTyped
<1>3. SchedTyped' /\ SwitchTyped' /\ BookTyped'
  BY <1>1 DEF Loaded, TypeInv, SchedTyped, SwitchTyped, BookTyped
<1> QED BY <1>2, <1>3 DEF TypeInv

OpenSaved ==
    /\ Landed /\ Popped /\ (\E b \in BOOLEAN : writes[1].k = <<"open", b>>)
    /\ opening' = IdleOpening
    /\ UNCHANGED <<mem, closing, overlapped, runs, inactive, calls, settled>>
    /\ \/ Kick(opening.proj)
       \/ Having(queue, "pending") = {} /\ UNCHANGED sched

LEMMA OpenSavedFacts ==
  ASSUME TypeInv, SavedOpen
  PROVE  OpenSaved
<1>1. Landed /\ Popped /\ Head(writes) = writes[1]
  BY LandedFacts DEF SavedOpen
<1>2. writes[1].k \in {<<"open", TRUE>>, <<"open", FALSE>>}
  BY <1>1 DEF SavedOpen
<1>3. \E b \in BOOLEAN : writes[1].k = <<"open", b>>
  BY <1>2
<1> QED BY <1>1, <1>3 DEF SavedOpen, OpenSaved

LEMMA OpenSavedTyped ==
  ASSUME TypeInv, OpenSaved
  PROVE  TypeInv'
<1>1. MemTyped' /\ RunsTyped' /\ BookTyped'
  BY DEF OpenSaved, TypeInv, MemTyped, RunsTyped, BookTyped, mem
<1>2. FilesTyped' /\ SwitchTyped'
  BY FreeTyped DEF OpenSaved, Landed, Popped, TypeInv, FilesTyped, SwitchTyped
<1>3. queue' \in Queues /\ opening.proj \in Projects /\ SchedTyped
  BY <1>1 DEF MemTyped, TypeInv, SwitchTyped
<1>4. SchedTyped'
  <2>1. CASE Kick(opening.proj)
    BY <1>3, <2>1, KickTyped
  <2>2. CASE UNCHANGED sched
    BY <1>3, <2>2 DEF SchedTyped, sched
  <2> QED BY <2>1, <2>2 DEF OpenSaved
<1> QED BY <1>1, <1>2, <1>4 DEF TypeInv

-----------------------------------------------------------------------------
(* Imports into a project that is not open *)

Asks(p) ==
    /\ p \in Projects /\ cur # p /\ inactive.pc = "idle" /\ calls' \in 0..MaxCalls
    /\ inactive' \in [pc: {"idle", "load", "write"}, proj: Projects, src: Sources,
                      tasks: Queues]
    /\ inactive'.pc = "load" /\ inactive'.proj = p /\ inactive'.tasks = << >>
    /\ Switching => "calls" \in Overlap
    /\ UNCHANGED <<mem, sched, switch, writes, runs, disk, lost, settled>>

LEMMA AsksFacts ==
  ASSUME TypeInv, NEW p \in Projects, NEW s \in Sources, EnqueueInactive(p, s)
  PROVE  Asks(p)
<1>1. /\ Call("inactive") /\ cur # p /\ inactive.pc = "idle"
      /\ inactive' = [pc |-> "load", proj |-> p, src |-> s, tasks |-> << >>]
      /\ UNCHANGED <<mem, sched, switch, writes, runs, disk, lost, settled>>
  BY DEF EnqueueInactive
<1>2. calls' \in 0..MaxCalls /\ (Switching => "calls" \in Overlap)
  BY <1>1, CallFacts
<1> QED BY <1>1, <1>2, EmptyQueue DEF Asks

LEMMA AsksTyped ==
  ASSUME TypeInv, NEW p, Asks(p)
  PROVE  TypeInv'
<1>1. MemTyped' /\ SchedTyped' /\ RunsTyped' /\ SwitchTyped'
  BY DEF Asks, TypeInv, MemTyped, SchedTyped, RunsTyped, SwitchTyped, mem, sched, switch
<1>2. FilesTyped' /\ BookTyped'
  BY DEF Asks, TypeInv, FilesTyped, BookTyped
<1> QED BY <1>1, <1>2 DEF TypeInv

\* The queue q of a closed project p with one more request for a source.
Extended(p, q) ==
    /\ q \in Queues /\ (p \in lost' \/ Ids(disk[p]) \subseteq Ids(q))
    /\ (\A k \in DOMAIN disk[p] : disk[p][k].proj = p) => \A k \in DOMAIN q : q[k].proj = p

LEMMA AgainExtends ==
  ASSUME TypeInv, NEW p \in Projects, NEW i \in DOMAIN disk[p]
  PROVE  Extended(p, [disk[p] EXCEPT ![i] = [Requeue(@) EXCEPT !.auto = TRUE]])
<1> DEFINE q == disk[p]
           t == [Requeue(q[i]) EXCEPT !.auto = TRUE]
           w == [q EXCEPT ![i] = t]
<1>1. q \in Queues
  BY DEF TypeInv, FilesTyped
<1>2. w = [k \in DOMAIN q |-> w[k]] /\ w[i] = t /\ \A k \in DOMAIN q : k # i => w[k] = q[k]
  OBVIOUS
<1>3. \A k \in DOMAIN q : q[k] \in Task
  BY <1>1, QueueTasks
<1>4. t \in Task /\ t.id = q[i].id /\ t.proj = q[i].proj
  BY <1>3 DEF Requeue, Task, Statuses
<1>5. Altered(q, w)
  <2> HIDE DEF w, t, q
  <2> QED BY <1>1, <1>2, <1>3, <1>4, ChangedAlters
<1>6. w = [disk[p] EXCEPT ![i] = [Requeue(@) EXCEPT !.auto = TRUE]]
  OBVIOUS
<1> HIDE DEF w
<1> QED BY <1>5, <1>6, AlteredIds DEF Altered, Extended

LEMMA NewExtends ==
  ASSUME TypeInv, NEW p \in Projects, NEW id \in TaskIds \ UsedIds, NEW s \in Sources,
         NEW q, q = disk[p] \/ (q = << >> /\ p \in lost')
  PROVE  Extended(p, Append(q, NewTask(id, p, s, TRUE)))
<1> DEFINE t == NewTask(id, p, s, TRUE)
           w == Append(q, t)
<1>1. q \in Queues
  BY EmptyQueue DEF TypeInv, FilesTyped
<1>2. t \in Task /\ t.id = id /\ t.proj = p
  BY DEF NewTask, Task, Statuses
<1>3. id \notin Ids(q)
  BY DEF UsedIds, Ids
<1> HIDE DEF t
<1>4. /\ w \in Queues /\ Ids(w) = Ids(q) \cup {t.id}
      /\ \A i \in DOMAIN w : (i \in DOMAIN q /\ w[i] = q[i]) \/ w[i] = t
  BY <1>1, <1>2, <1>3, AddTask
<1> HIDE DEF w
<1>5. Extended(p, w)
  BY <1>2, <1>4 DEF Extended
<1> QED BY <1>5 DEF w, t

Imports ==
    /\ inactive.pc = "load" /\ inactive.proj \in Projects
    /\ \/ /\ cur = inactive.proj /\ inactive' = IdleInactive
          /\ opening' = [opening EXCEPT !.waits = FALSE] /\ UNCHANGED <<lost, settled>>
       \/ /\ cur # inactive.proj /\ inactive'.pc = "write" /\ inactive'.proj = inactive.proj
          /\ inactive' \in [pc: {"idle", "load", "write"}, proj: Projects, src: Sources,
                            tasks: Queues]
          /\ Extended(inactive.proj, inactive'.tasks)
          /\ lost' \subseteq Projects /\ (\A x \in lost : x # inactive.proj => x \in lost')
          /\ settled' \subseteq settled /\ settled \ settled' \subseteq TaskIds \ UsedIds
          /\ UNCHANGED opening
    /\ UNCHANGED <<mem, sched, closing, overlapped, writes, runs, disk, calls>>

LEMMA ImportsFacts ==
  ASSUME TypeInv, InactiveLoad
  PROVE  Imports
<1> DEFINE p == inactive.proj
<1>1. /\ inactive.pc = "load"
      /\ UNCHANGED <<mem, sched, closing, overlapped, writes, runs, disk, calls>>
  BY DEF InactiveLoad
<1>2. inactive \in [pc: {"idle", "load", "write"}, proj: Projects, src: Sources,
                    tasks: Queues] /\ disk[p] \in Queues /\ p \in Projects
      /\ lost \subseteq Projects
  BY DEF TypeInv, FilesTyped
<1>3. CASE cur = p
  <2>1. /\ inactive' = IdleInactive /\ opening' = [opening EXCEPT !.waits = FALSE]
        /\ UNCHANGED <<lost, settled>>
    BY <1>3 DEF InactiveLoad
  <2> QED BY <1>1, <1>2, <1>3, <2>1 DEF Imports
<1>4. CASE cur # p
  <2>1. PICK saved \in Loadable(p) : LoadFile(p, saved) /\ Import(saved)
    BY <1>4 DEF InactiveLoad
  <2> DEFINE same == {i \in DOMAIN saved : saved[i].proj = p /\ saved[i].src = inactive.src}
             first == CHOOSE i \in same : \A j \in same : i <= j
             id == CHOOSE x \in TaskIds \ UsedIds : TRUE
             again == [saved EXCEPT ![first] = [Requeue(@) EXCEPT !.auto = TRUE]]
             longer == Append(saved, NewTask(id, p, inactive.src, TRUE))
             written == IF same # {} THEN again ELSE longer
  <2>2. /\ saved = disk[p] \/ (saved = << >> /\ p \in lost')
        /\ lost' \subseteq Projects /\ (\A x \in lost : x # p => x \in lost')
    BY <1>2, <2>1 DEF Loadable, LoadFile
  <2>3. /\ same # {} \/ TaskIds \ UsedIds # {}
        /\ inactive' = [inactive EXCEPT !.pc = "write", !.tasks = written]
        /\ settled' = IF same # {} THEN settled ELSE settled \ {id}
        /\ UNCHANGED opening
    BY <1>4, <2>1 DEF InactiveLoad, Import
  <2>4. Extended(p, written)
    <3>1. CASE same # {}
      <4>1. saved = disk[p]
        BY <2>2, <3>1
      <4>2. same \subseteq DOMAIN saved /\ DOMAIN saved \subseteq Nat
        BY <1>2, <4>1 DEF Queues
      <4>3. first \in same
        BY <3>1, <4>2, FirstExists
      <4> HIDE DEF same, first
      <4>4. Extended(p, again)
        BY <1>2, <4>1, <4>2, <4>3, AgainExtends
      <4> QED BY <3>1, <4>4
    <3>2. CASE same = {}
      <4>1. id \in TaskIds \ UsedIds
        BY <2>3, <3>2
      <4> HIDE DEF id, same
      <4>2. Extended(p, longer)
        BY <1>2, <2>2, <4>1, NewExtends
      <4> QED BY <3>2, <4>2
    <3> QED BY <3>1, <3>2
  <2>5. settled' \subseteq settled /\ settled \ settled' \subseteq TaskIds \ UsedIds
    <3>1. same = {} => id \in TaskIds \ UsedIds
      BY <2>3
    <3> HIDE DEF id, same
    <3> QED BY <2>3, <3>1
  <2> HIDE DEF same, first, id, written
  <2>6. written \in Queues
    BY <2>4 DEF Extended
  <2>7. /\ inactive'.pc = "write" /\ inactive'.proj = p /\ inactive'.tasks = written
        /\ inactive' \in [pc: {"idle", "load", "write"}, proj: Projects, src: Sources,
                          tasks: Queues]
    BY <1>2, <2>3, <2>6
  <2> QED BY <1>1, <1>2, <1>4, <2>2, <2>3, <2>4, <2>5, <2>7 DEF Imports
<1> QED BY <1>3, <1>4

LEMMA ImportsTyped ==
  ASSUME TypeInv, Imports
  PROVE  TypeInv'
<1>1. MemTyped' /\ SchedTyped' /\ RunsTyped'
  BY DEF Imports, TypeInv, MemTyped, SchedTyped, RunsTyped, mem, sched
<1>2. FilesTyped'
  BY FreeTyped DEF Imports, TypeInv, FilesTyped
<1>3. SwitchTyped' /\ BookTyped'
  BY DEF Imports, TypeInv, SwitchTyped, BookTyped
<1> QED BY <1>1, <1>2, <1>3 DEF TypeInv

ImportSaved ==
    /\ inactive.pc = "write" /\ inactive' = IdleInactive
    /\ disk' \in [Projects -> Queues] /\ lost' \subseteq Projects
    /\ Reached(inactive.proj, inactive.tasks)
    /\ opening' = [opening EXCEPT !.waits = FALSE]
    /\ UNCHANGED <<mem, sched, closing, overlapped, writes, runs, calls, settled>>

LEMMA ImportSavedFacts ==
  ASSUME TypeInv, InactiveWrite
  PROVE  ImportSaved
<1>1. inactive.tasks \in Queues /\ inactive.proj \in Projects
  BY DEF TypeInv, FilesTyped
<1>2. FilesStay /\ Reached(inactive.proj, inactive.tasks)
  BY <1>1, WriteFileFacts DEF InactiveWrite
<1> QED BY <1>2 DEF InactiveWrite, ImportSaved, FilesStay

LEMMA ImportSavedTyped ==
  ASSUME TypeInv, ImportSaved
  PROVE  TypeInv'
<1>1. MemTyped' /\ SchedTyped' /\ RunsTyped'
  BY DEF ImportSaved, TypeInv, MemTyped, SchedTyped, RunsTyped, mem, sched
<1>2. FilesTyped'
  BY FreeTyped DEF ImportSaved, TypeInv, FilesTyped
<1>3. SwitchTyped' /\ BookTyped'
  BY DEF ImportSaved, TypeInv, SwitchTyped, BookTyped
<1> QED BY <1>1, <1>2, <1>3 DEF TypeInv

-----------------------------------------------------------------------------
(* Every step *)

Crashes ==
    /\ cur' = NoProject /\ queue' = << >> /\ restored' = {} /\ cancelling' = {}
    /\ active' = [id \in TaskIds |-> NoRun]
    /\ paused' = FALSE /\ timer' = NoProject /\ scheduling' = FALSE /\ drainDue' = FALSE
    /\ writes' = << >>
    /\ runs' = [r \in RunIds |-> FreeRun]
    /\ scheds' = [i \in SchedIds |-> FreeSched]
    /\ closing' = IdleClosing /\ opening' = IdleOpening /\ inactive' = IdleInactive
    /\ calls' \in 0..MaxCalls /\ calls' # calls
    /\ disk' \in [Projects -> Queues] /\ lost' \subseteq Projects /\ CutOff
    /\ UNCHANGED <<limit, overlapped, settled>>

LEMMA CrashFacts ==
  ASSUME TypeInv, Crash
  PROVE  Crashes
<1>1. calls \in 0..MaxCalls /\ MaxCalls \in Nat /\ calls < MaxCalls /\ calls' = calls + 1
  BY QueueAssumption DEF Crash, TypeInv, BookTyped
<1>2. calls' \in 0..MaxCalls /\ calls' # calls
  BY <1>1
<1>3. PICK S \in SUBSET Projects : Cut(S)
  BY DEF Crash, BeingWritten
<1>4. FilesStay /\ CutOff
  BY <1>3, CutFacts
<1> QED BY <1>2, <1>4 DEF Crash, Crashes, FilesStay

LEMMA CrashTyped ==
  ASSUME TypeInv, Crashes
  PROVE  TypeInv'
<1>1. << >> \in Seq(Write)
  OBVIOUS
<1>2. MemTyped'
  BY EmptyQueue DEF Crashes, TypeInv, MemTyped
<1>3. SchedTyped' /\ RunsTyped' /\ SwitchTyped' /\ BookTyped'
  BY FreeTyped DEF Crashes, TypeInv, SchedTyped, RunsTyped, SwitchTyped, BookTyped
<1>4. FilesTyped'
  BY <1>1, FreeTyped, EmptyQueue DEF Crashes, TypeInv, FilesTyped
<1> QED BY <1>2, <1>3, <1>4 DEF TypeInv

\* What a step does, by its kind.
Effect ==
    \/ Edit \/ Nudge
    \/ \E i \in SchedIds : StartStale(i) \/ Impossible(i) \/ ImpossibleSaved(i)
                           \/ StartSaved(i, scheds[i].run)
    \/ \E i \in SchedIds, r \in RunIds : Starts(i, r, scheds[i].task)
    \/ \E r \in RunIds : Begins(r) \/ Ignored(r) \/ Finishes(r) \/ RunSaved(r)
    \/ CallSaved \/ CloseSaved \/ OpenSaved \/ Pauses \/ Flushes \/ Loaded
    \/ \E p \in Projects : Opens(p) \/ Asks(p)
    \/ Imports \/ ImportSaved \/ Crashes

LEMMA StepEffect ==
  ASSUME TypeInv, Next
  PROVE  Effect
<1>1. CASE UserStep
  <2>1. CASE UserEdit
    BY <2>1, UserEdits DEF Effect
  <2>2. CASE ResumeProcessing \/ \E n \in Limits : SetWorkerLimit(n)
    BY <2>2, ResumeNudges, LimitNudges DEF Effect
  <2>3. CASE PauseQueue \/ Crash
    BY <2>3, PausesFacts, CrashFacts DEF Effect
  <2>4. CASE (\E p \in Projects : RestoreQueue(p))
             \/ \E p \in Projects, s \in Sources : EnqueueInactive(p, s)
    BY <2>4, OpensFacts, AsksFacts DEF Effect
  <2> QED BY <1>1, <2>1, <2>2, <2>3, <2>4 DEF UserStep, UserEdit
<1>2. CASE Scheduler
  BY <1>2, ImpossibleFacts, StartFacts DEF Scheduler, Effect
<1>3. CASE \E r \in RunIds : BeginCommit(r) \/ RunStep(r)
  BY <1>3, BeginFacts, RunStepFacts DEF Effect
<1>4. CASE DiskStep
  BY <1>4, CallSavedFacts, CloseSavedFacts, OpenSavedFacts, ImpossibleSavedFacts,
     StartSavedFacts, RunSavedFacts DEF DiskStep, Effect
<1>5. CASE SwitchStep
  BY <1>5, FlushesFacts, LoadedFacts DEF SwitchStep, Effect
<1>6. CASE InactiveLoad \/ InactiveWrite \/ TimerFires
  BY <1>6, ImportsFacts, ImportSavedFacts, TimerNudges DEF Effect
<1> QED BY <1>1, <1>2, <1>3, <1>4, <1>5, <1>6 DEF Next

LEMMA TypeInvNext ==
  ASSUME TypeInv, Effect
  PROVE  TypeInv'
<1>1. CASE Edit \/ Nudge
  BY <1>1, EditTyped, NudgeTyped
<1>2. CASE \E i \in SchedIds : StartStale(i) \/ Impossible(i) \/ ImpossibleSaved(i)
                               \/ StartSaved(i, scheds[i].run)
  BY <1>2, StaleTyped, ImpossibleTyped, ImpossibleSavedTyped, StartSavedTyped
<1>3. CASE \E i \in SchedIds, r \in RunIds : Starts(i, r, scheds[i].task)
  BY <1>3, StartTyped
<1>4. CASE \E r \in RunIds : Begins(r) \/ Ignored(r) \/ Finishes(r) \/ RunSaved(r)
  BY <1>4, BeginTyped, IgnoredTyped, FinishTyped, RunSavedTyped
<1>5. CASE CallSaved \/ CloseSaved \/ OpenSaved \/ Pauses \/ Flushes \/ Loaded
  BY <1>5, CallSavedTyped, CloseSavedTyped, OpenSavedTyped, PausesTyped, FlushesTyped,
     LoadedTyped
<1>6. CASE \E p \in Projects : Opens(p) \/ Asks(p)
  BY <1>6, OpensTyped, AsksTyped
<1>7. CASE Imports \/ ImportSaved \/ Crashes
  BY <1>7, ImportsTyped, ImportSavedTyped, CrashTyped
<1> QED BY <1>1, <1>2, <1>3, <1>4, <1>5, <1>6, <1>7 DEF Effect

LEMMA TypeInvStutter ==
  ASSUME TypeInv, UNCHANGED vars
  PROVE  TypeInv'
<1>1. MemTyped' /\ SchedTyped' /\ RunsTyped' /\ SwitchTyped' /\ FilesTyped' /\ BookTyped'
  BY DEF TypeInv, vars, mem, sched, switch, MemTyped, SchedTyped, RunsTyped, SwitchTyped,
         FilesTyped, BookTyped
<1> QED BY <1>1 DEF TypeInv

\* Every variable keeps its type, and neither the queue in memory nor one that
\* is written to a file, or read back, ever has two tasks of one id: what the
\* code finds with tasks.find((t) => t.id === id) is the task.
THEOREM IngestInvariance == Spec => []TypeInv
<1>1. TypeInv /\ [Next]_vars => TypeInv'
  BY StepEffect, TypeInvNext, TypeInvStutter
<1> QED BY <1>1, TypeInvInit, PTL DEF Spec

\* Whatever overlaps, fails or crashes, the variables of the ingest queue keep
\* their types: tasks in memory, on disk and in the writes under way are tasks,
\* and activeRuns refers to runs.
THEOREM IngestTyping == Spec => []TypeOK
<1>1. TypeInv => TypeOK
  BY TypeInvGives
<1> QED BY <1>1, IngestInvariance, PTL

-----------------------------------------------------------------------------
(* When no call of the user overlaps with the opening or the closing of a  *)
(* project                                                                 *)

IsClose(w) == w.k = <<"close">>

\* One project at a time is opened or closed, with one save at a time, and the
\* second save of a closing has what the queue has.
Phases ==
    /\ closing.pc = "idle" \/ opening.pc = "idle"
    /\ \A j \in DOMAIN writes : IsClose(writes[j]) => closing.pc \in {"save1", "save2"}
    /\ \A j, k \in DOMAIN writes : IsClose(writes[j]) /\ IsClose(writes[k]) => j = k
    /\ closing.pc = "save2" => \A j \in DOMAIN writes : IsClose(writes[j]) =>
         Ids(queue) \subseteq Ids(writes[j].tasks) /\ Having(writes[j].tasks, "processing") = {}

\* While the file is loaded there is no task, and nobody who knows of one.
Loading ==
    opening.pc = "load" =>
       /\ queue = << >>
       /\ \A i \in SchedIds : ~ scheds[i].fresh
       /\ \A r \in RunIds : ~ runs[r].fresh

\* The scheduler is not about to start a task that waits for the user.
Held == \A i \in SchedIds : scheds[i].pc = "registry" /\ scheds[i].fresh
                               => scheds[i].task \notin restored

SwitchInv == TypeInv /\ Phases /\ Loading /\ Held

\* processNext has looked for a task, or has not been called.
Rescheduled ==
    UNCHANGED scheds \/ \E i \in SchedIds, p \in Projects : LooksUp(i, p) \/ Stops(i, p)

LEMMA KickReschedules ==
  ASSUME TypeInv, NEW p \in Projects \cup {NoProject}, queue' \in Queues, Kick(p)
  PROVE  Rescheduled
<1>1. SchedTyped
  BY DEF TypeInv
<1> QED BY <1>1, KickFacts DEF Idles, sched, Rescheduled

LEMMA GoOnReschedules ==
  ASSUME TypeInv, NEW i \in SchedIds, queue' \in Queues, GoOn(i)
  PROVE  Rescheduled
<1>1. SchedTyped
  BY DEF TypeInv
<1>2. LET p == scheds[i].proj IN
      p \in Projects /\ ((LooksUp(i, p) /\ UNCHANGED scheduling) \/ Stops(i, p))
  BY <1>1, GoOnFacts
<1> QED BY <1>2 DEF Rescheduled

LEMMA RescheduledHeld ==
  ASSUME TypeInv, Held, Rescheduled, restored' \subseteq restored, queue' \in Queues
  PROVE  Held'
<1>1. CASE UNCHANGED scheds
  BY <1>1 DEF Held
<1>2. ASSUME NEW i \in SchedIds, NEW p \in Projects, LooksUp(i, p) PROVE Held'
  <2>1. PICK k \in DOMAIN queue' : /\ scheds' = [scheds EXCEPT ![i] = Waiting(queue'[k].id, p)]
                                   /\ queue'[k].id \notin restored'
    BY <1>2 DEF LooksUp
  <2>2. scheds \in [SchedIds -> Sched]
    BY DEF TypeInv, SchedTyped
  <2>3. scheds'[i].task = queue'[k].id /\ \A j \in SchedIds \ {i} : scheds'[j] = scheds[j]
    BY <2>1, <2>2 DEF Waiting
  <2> QED BY <2>1, <2>3 DEF Held
<1>3. ASSUME NEW i \in SchedIds, NEW p \in Projects, Stops(i, p) PROVE Held'
  <2>1. scheds \in [SchedIds -> Sched]
    BY DEF TypeInv, SchedTyped
  <2>2. scheds'[i] = FreeSched /\ \A j \in SchedIds \ {i} : scheds'[j] = scheds[j]
    BY <1>3, <2>1 DEF Stops
  <2> QED BY <2>2 DEF Held, FreeSched
<1> QED BY <1>1, <1>2, <1>3 DEF Rescheduled

LEMMA RescheduledLoading ==
  ASSUME TypeInv, Loading, Rescheduled, UNCHANGED queue,
         opening'.pc = "load" => opening.pc = "load",
         \A r \in RunIds : runs'[r].fresh => runs[r].fresh
  PROVE  Loading'
<1> SUFFICES ASSUME opening'.pc = "load"
             PROVE  queue' = << >> /\ (\A i \in SchedIds : ~ scheds'[i].fresh)
                    /\ \A r \in RunIds : ~ runs'[r].fresh
  BY DEF Loading
<1>1. queue' = << >> /\ (\A i \in SchedIds : ~ scheds[i].fresh)
      /\ \A r \in RunIds : ~ runs'[r].fresh
  BY DEF Loading
<1>2. DOMAIN queue' = {}
  BY <1>1
<1>3. \A i \in SchedIds, p \in Projects : ~ LooksUp(i, p)
  BY <1>2 DEF LooksUp
<1>4. scheds \in [SchedIds -> Sched]
  BY DEF TypeInv, SchedTyped
<1>5. \A i \in SchedIds : ~ scheds'[i].fresh
  BY <1>1, <1>3, <1>4 DEF Rescheduled, Stops, FreeSched
<1> QED BY <1>1, <1>5

\* Saves of other kinds and the end of a save leave the phases alone.
LEMMA PhasesKept ==
  ASSUME TypeInv, Phases, closing'.pc = closing.pc,
         opening'.pc \in {opening.pc, "idle"},
         Ids(queue') \subseteq Ids(queue) \/ closing.pc # "save2",
         \/ UNCHANGED writes
         \/ Popped
         \/ \E p, k : Saved(writes, p, k) /\ k # <<"close">>
  PROVE  Phases'
<1>1. CASE UNCHANGED writes
  BY <1>1 DEF Phases, IsClose
<1>2. CASE Popped
  <2>1. \A j \in DOMAIN writes' : /\ j \in Nat /\ j + 1 \in DOMAIN writes
                                  /\ writes'[j] = writes[j + 1]
    BY <1>2 DEF Popped
  <2>2. \A j, k \in DOMAIN writes' : IsClose(writes'[j]) /\ IsClose(writes'[k]) => j = k
    <3> TAKE j, k \in DOMAIN writes'
    <3> HAVE IsClose(writes'[j]) /\ IsClose(writes'[k])
    <3>1. j + 1 = k + 1
      BY <2>1 DEF Phases
    <3> QED BY <2>1, <3>1
  <2>3. \A j \in DOMAIN writes' : IsClose(writes'[j]) => closing.pc \in {"save1", "save2"}
    BY <2>1 DEF Phases
  <2>4. closing.pc = "save2" => \A j \in DOMAIN writes' : IsClose(writes'[j]) =>
          Ids(queue') \subseteq Ids(writes'[j].tasks)
          /\ Having(writes'[j].tasks, "processing") = {}
    BY <2>1 DEF Phases
  <2> QED BY <2>2, <2>3, <2>4 DEF Phases, IsClose
<1>3. ASSUME NEW p, NEW k, Saved(writes, p, k), k # <<"close">> PROVE Phases'
  <2>1. \A j \in DOMAIN writes' :
           \/ j \in DOMAIN writes /\ writes'[j] = writes[j]
           \/ writes'[j].k # <<"close">>
    <3>1. writes'[Len(writes) + 1].k = k
      BY <1>3 DEF Saved
    <3>2. \A j \in DOMAIN writes' :
             (j \in DOMAIN writes /\ writes'[j] = writes[j]) \/ j = Len(writes) + 1
      BY <1>3 DEF Saved
    <3> QED BY <1>3, <3>1, <3>2
  <2>2. \A j \in DOMAIN writes' : IsClose(writes'[j])
                                     => j \in DOMAIN writes /\ writes'[j] = writes[j]
    BY <2>1 DEF IsClose
  <2> QED BY <2>2 DEF Phases, IsClose
<1> QED BY <1>1, <1>2, <1>3

LEMMA KeptPhases ==
  ASSUME TypeInv, Phases, UNCHANGED <<closing, opening, queue, writes>>
  PROVE  Phases'
  BY DEF Phases, IsClose

LEMMA SwitchInvInit == Init => SwitchInv
<1> SUFFICES ASSUME Init PROVE Phases /\ Loading /\ Held
  BY TypeInvInit DEF SwitchInv
<1>1. DOMAIN writes = {}
  BY DEF Init, ProcessStart
<1>2. /\ closing.pc = "idle" /\ opening.pc = "idle"
      /\ \A i \in SchedIds : scheds[i].pc = "none"
  BY DEF Init, ProcessStart, IdleClosing, IdleOpening, FreeSched
<1> QED BY <1>1, <1>2 DEF Phases, Loading, Held

\* What H1 says of a step: no call of the user while a project is switched.
Alone == "calls" \notin Overlap

LEMMA EditPhases ==
  ASSUME SwitchInv, Alone, Edit
  PROVE  Phases' /\ Loading' /\ Held'
<1>1. closing.pc = "idle" /\ opening.pc = "idle" /\ UNCHANGED <<closing, opening, scheds>>
  BY DEF Edit, Alone, Switching, switch, sched
<1>2. TypeInv /\ Phases /\ Held /\ restored' \subseteq restored
  BY DEF SwitchInv, Edit
<1>3. \/ UNCHANGED writes
      \/ \E p, k : Saved(writes, p, k) /\ k # <<"close">>
  <2>1. Saved(writes, cur, <<"next">>) \/ Saved(writes, cur, <<"none">>) \/ UNCHANGED writes
    BY DEF Edit
  <2>2. <<"next">> # <<"close">> /\ <<"none">> # <<"close">>
    OBVIOUS
  <2> QED BY <2>1, <2>2
<1>4. Phases'
  BY <1>1, <1>2, <1>3, PhasesKept
<1>5. Loading' /\ Held'
  BY <1>1, <1>2 DEF Loading, Held
<1> QED BY <1>4, <1>5

LEMMA NudgePhases ==
  ASSUME SwitchInv, Nudge
  PROVE  Phases' /\ Loading' /\ Held'
<1>1. /\ UNCHANGED <<cur, queue, switch, writes, runs>> /\ restored' \subseteq restored
      /\ TypeInv /\ Phases /\ Held /\ Loading
      /\ Kick(cur) \/ UNCHANGED sched
  BY DEF Nudge, SwitchInv
<1>2. queue' \in Queues /\ cur \in Projects \cup {NoProject}
  BY <1>1 DEF TypeInv, MemTyped
<1>3. Rescheduled
  BY <1>1, <1>2, KickReschedules DEF Rescheduled, sched
<1> QED BY <1>1, <1>2, <1>3, KeptPhases, RescheduledLoading, RescheduledHeld DEF switch

LEMMA SchedPhases ==
  ASSUME SwitchInv, NEW i \in SchedIds,
         StartStale(i) \/ ImpossibleSaved(i) \/ StartSaved(i, scheds[i].run)
  PROVE  Phases' /\ Loading' /\ Held'
<1>1. /\ UNCHANGED <<cur, queue, closing, opening, restored>> /\ GoOn(i)
      /\ TypeInv /\ Phases /\ Held /\ Loading
      /\ Popped \/ UNCHANGED writes
  BY DEF StartStale, ImpossibleSaved, StartSaved, SwitchInv, switch, mem
<1>2. queue' \in Queues
  BY <1>1 DEF TypeInv, MemTyped
<1>3. Rescheduled
  BY <1>1, <1>2, GoOnReschedules
<1>4. \A r \in RunIds : runs'[r].fresh => runs[r].fresh
  <2>1. runs \in [RunIds -> Run]
    BY <1>1 DEF TypeInv, RunsTyped
  <2>2. CASE UNCHANGED runs
    BY <2>2
  <2>3. CASE runs' = [runs EXCEPT ![scheds[i].run] = FreeRun]
    BY <2>1, <2>3 DEF FreeRun
  <2>4. CASE runs' = [runs EXCEPT ![scheds[i].run].stage = "prepare"]
    BY <2>1, <2>4 DEF Run
  <2> QED BY <2>2, <2>3, <2>4 DEF StartStale, ImpossibleSaved, StartSaved
<1>5. Phases'
  BY <1>1, PhasesKept
<1> QED BY <1>1, <1>2, <1>3, <1>4, <1>5, RescheduledLoading, RescheduledHeld

LEMMA TakePhases ==
  ASSUME SwitchInv, NEW i \in SchedIds, NEW r,
         Impossible(i) \/ Starts(i, r, scheds[i].task)
  PROVE  Phases' /\ Loading' /\ Held'
<1>1. /\ scheds[i].fresh /\ UNCHANGED <<closing, opening>> /\ Ids(queue') = Ids(queue)
      /\ Saved(writes, cur, <<"sched", i>>) /\ restored' \subseteq restored
      /\ TypeInv /\ Phases /\ Held /\ Loading
  BY DEF Impossible, Starts, SwitchInv, switch, OwnSet
<1>2. <<"sched", i>> # <<"close">>
  OBVIOUS
<1>3. Phases'
  BY <1>1, <1>2, PhasesKept
<1>4. Loading'
  BY <1>1 DEF Loading
<1>5. Held'
  <2>1. scheds \in [SchedIds -> Sched]
    BY <1>1 DEF TypeInv, SchedTyped
  <2>2. \A j \in SchedIds : scheds'[j] = scheds[j] \/ scheds'[j].pc # "registry"
    BY <2>1 DEF Impossible, Starts, Sched
  <2> QED BY <1>1, <2>2 DEF Held
<1> QED BY <1>3, <1>4, <1>5

LEMMA RunPhases ==
  ASSUME SwitchInv, NEW r \in RunIds, Begins(r) \/ Ignored(r) \/ Finishes(r)
  PROVE  Phases' /\ Loading' /\ Held'
<1>1. /\ closing'.pc = closing.pc /\ UNCHANGED <<opening, scheds, restored>>
      /\ TypeInv /\ Phases /\ Held /\ Loading
  BY DEF Begins, Ignored, Finishes, SwitchInv, switch, sched, mem, Awaited
<1>2. Held'
  BY <1>1 DEF Held
<1>3. CASE Begins(r)
  <2>1. UNCHANGED <<queue, writes, closing>>
    BY <1>3 DEF Begins, mem, switch
  <2>2. \A x \in RunIds : runs'[x].fresh = runs[x].fresh
    <3>1. [runs[r] EXCEPT !.stage = "commit"].fresh = runs[r].fresh
      BY <1>1, RunStage
    <3> QED BY <1>3, <3>1 DEF Begins, RunBecomes
  <2>3. Loading'
    BY <1>1, <2>1, <2>2 DEF Loading
  <2> QED BY <1>1, <1>2, <2>1, <2>3, KeptPhases
<1>4. CASE Ignored(r)
  <2>1. UNCHANGED <<queue, writes>>
    BY <1>4 DEF Ignored
  <2>2. \A x \in RunIds : runs'[x].fresh => runs[x].fresh
    BY <1>4 DEF Ignored, RunBecomes, FreeRun
  <2>3. Loading'
    BY <1>1, <2>1, <2>2 DEF Loading
  <2> QED BY <1>1, <1>2, <2>1, <2>3, PhasesKept
<1>5. CASE Finishes(r)
  <2>1. runs[r].fresh
    BY <1>5 DEF Finishes, RunStale
  <2>2. Loading'
    BY <1>1, <2>1 DEF Loading
  <2>3. Ids(queue') \subseteq Ids(queue)
    BY <1>5 DEF Finishes, Decided, Ids
  <2>4. PICK b \in BOOLEAN : Saved(writes, cur, <<"run", r, b>>)
    BY <1>5 DEF Finishes
  <2>5. <<"run", r, b>> # <<"close">>
    OBVIOUS
  <2>6. Phases'
    BY <1>1, <2>3, <2>4, <2>5, PhasesKept
  <2> QED BY <1>2, <2>2, <2>6
<1> QED BY <1>3, <1>4, <1>5

LEMMA SavedPhases ==
  ASSUME SwitchInv, CallSaved \/ (\E r \in RunIds : RunSaved(r)) \/ OpenSaved
  PROVE  Phases' /\ Loading' /\ Held'
<1>1. /\ closing'.pc = closing.pc /\ opening'.pc \in {opening.pc, "idle"}
      /\ UNCHANGED <<queue, restored>> /\ Popped
      /\ TypeInv /\ Phases /\ Held /\ Loading
  BY DEF CallSaved, RunSaved, OpenSaved, SwitchInv, switch, mem, Awaited, IdleOpening
<1>2. queue' \in Queues /\ cur \in Projects \cup {NoProject} /\ opening.proj \in Projects
      /\ \A r \in RunIds : runs[r].proj \in Projects
  BY <1>1 DEF TypeInv, MemTyped, SwitchTyped, RunsTyped, Run
<1>3. Rescheduled
  BY <1>1, <1>2, KickReschedules DEF CallSaved, RunSaved, OpenSaved, Rescheduled, sched
<1>4. \A r \in RunIds : runs'[r].fresh => runs[r].fresh
  BY DEF CallSaved, RunSaved, OpenSaved, RunBecomes, FreeRun
<1>5. opening'.pc = "load" => opening.pc = "load"
  BY <1>1
<1>6. Phases'
  BY <1>1, PhasesKept
<1> QED BY <1>1, <1>2, <1>3, <1>4, <1>5, <1>6, RescheduledLoading, RescheduledHeld

LEMMA OutOfDateHeld ==
  ASSUME OutOfDate
  PROVE  Held'
  BY DEF OutOfDate, Held

\* A queue that was put away has no close in its writes but the one of now.
LEMMA FlushedPhases ==
  ASSUME TypeInv, Phases, closing.pc \in {"idle", "commits"}, opening'.pc = "idle", NEW p,
         Flushed(p)
  PROVE  Phases'
<1>1. \A j \in DOMAIN writes : ~ IsClose(writes[j])
  BY DEF Phases
<1>2. \A j \in DOMAIN writes' : \/ j \in DOMAIN writes /\ writes'[j] = writes[j]
                                \/ j = Len(writes) + 1
  BY DEF Flushed, Saved
<1>3. closing'.pc = "save1"
  BY DEF Flushed
<1>4. \A j, k \in DOMAIN writes' : IsClose(writes'[j]) /\ IsClose(writes'[k]) => j = k
  BY <1>1, <1>2
<1> QED BY <1>3, <1>4 DEF Phases, IsClose

LEMMA PausesPhases ==
  ASSUME SwitchInv, Alone, Pauses
  PROVE  Phases' /\ Loading' /\ Held'
<1>1. /\ closing.pc = "idle" /\ opening.pc = "idle" /\ UNCHANGED opening /\ OutOfDate
      /\ TypeInv /\ Phases
  BY DEF Pauses, Alone, Switching, SwitchInv
<1>2. Loading'
  BY <1>1 DEF Loading
<1>3. Phases'
  <2>1. CASE Flushed(cur)
    BY <1>1, <2>1, FlushedPhases
  <2>2. CASE closing' = [pc |-> "commits", proj |-> cur, waiting |-> Committing]
             /\ UNCHANGED <<active, queue, writes>>
    BY <1>1, <2>2 DEF Phases, IsClose
  <2> QED BY <2>1, <2>2 DEF Pauses
<1> QED BY <1>1, <1>2, <1>3, OutOfDateHeld

LEMMA FlushesPhases ==
  ASSUME SwitchInv, Flushes
  PROVE  Phases' /\ Loading' /\ Held'
<1>1. /\ closing.pc = "commits" /\ Flushed(closing.proj) /\ TypeInv /\ Phases /\ Held
      /\ UNCHANGED <<opening, scheds, restored, runs>>
  BY DEF Flushes, SwitchInv, sched
<1>2. opening.pc = "idle" /\ opening'.pc = "idle"
  BY <1>1 DEF Phases
<1>3. Loading' /\ Held'
  BY <1>1, <1>2 DEF Loading, Held
<1>4. Phases'
  BY <1>1, <1>2, FlushedPhases
<1> QED BY <1>3, <1>4

LEMMA ClosePhases ==
  ASSUME SwitchInv, CloseSaved
  PROVE  Phases' /\ Loading' /\ Held'
<1>1. /\ 1 \in DOMAIN writes /\ IsClose(writes[1]) /\ TypeInv /\ Phases /\ Held
      /\ UNCHANGED <<opening, scheds>> /\ restored' \in {restored, {}}
  BY DEF CloseSaved, SwitchInv, Landed, FlushedAgain, Wiped, IsClose
<1>2. opening.pc = "idle" /\ \A j \in DOMAIN writes : j # 1 => ~ IsClose(writes[j])
  BY <1>1 DEF Phases
<1>3. Loading' /\ Held'
  BY <1>1, <1>2 DEF Loading, Held
<1>4. CASE FlushedAgain
  <2>1. \A j \in DOMAIN Tail(writes) : ~ IsClose(Tail(writes)[j])
    BY <1>2, <1>4 DEF FlushedAgain
  <2>2. \A j \in DOMAIN writes' : (j \in DOMAIN Tail(writes) /\ writes'[j] = Tail(writes)[j])
                                  \/ j = Len(Tail(writes)) + 1
    BY <1>4 DEF FlushedAgain, Saved
  <2>3. \A j \in DOMAIN writes' : IsClose(writes'[j]) => j = Len(Tail(writes)) + 1
    BY <2>1, <2>2
  <2>4. writes'[Len(Tail(writes)) + 1].tasks = queue' /\ Having(queue', "processing") = {}
    BY <1>4 DEF FlushedAgain, Saved
  <2>5. closing'.pc = "save2"
    BY <1>1, <1>4 DEF FlushedAgain, TypeInv, SwitchTyped
  <2>6. \A j \in DOMAIN writes' : writes'[j].k = <<"close">> => j = Len(Tail(writes)) + 1
    BY <2>3 DEF IsClose
  <2>7. UNCHANGED opening
    BY <1>1
  <2>8. \A j \in DOMAIN writes' : writes'[j].k = <<"close">> =>
           Ids(queue') \subseteq Ids(writes'[j].tasks)
           /\ Having(writes'[j].tasks, "processing") = {}
    BY <2>4, <2>6
  <2> QED BY <1>2, <1>3, <2>5, <2>6, <2>7, <2>8 DEF Phases, IsClose
<1>5. CASE Wiped
  <2>1. \A j \in DOMAIN writes' : ~ IsClose(writes'[j])
    BY <1>2, <1>5 DEF Wiped, Popped
  <2>2. closing'.pc = "idle"
    BY <1>5 DEF Wiped, IdleClosing
  <2>3. \A j \in DOMAIN writes' : writes'[j].k # <<"close">>
    BY <2>1 DEF IsClose
  <2> QED BY <1>3, <2>2, <2>3 DEF Phases, IsClose
<1> QED BY <1>3, <1>4, <1>5 DEF CloseSaved

LEMMA OpensPhases ==
  ASSUME SwitchInv, Alone, NEW p \in Projects, Opens(p)
  PROVE  Phases' /\ Loading' /\ Held'
<1>1. /\ closing.pc = "idle" /\ UNCHANGED <<closing, writes>> /\ OutOfDate /\ queue' = << >>
      /\ Phases
  BY DEF Opens, Alone, Switching, SwitchInv
<1>2. Loading'
  BY <1>1 DEF Loading, OutOfDate
<1>3. Phases'
  BY <1>1 DEF Phases, IsClose
<1> QED BY <1>1, <1>2, <1>3, OutOfDateHeld

LEMMA LoadedPhases ==
  ASSUME SwitchInv, Loaded
  PROVE  Phases' /\ Loading' /\ Held'
<1>1. /\ opening.pc = "load" /\ UNCHANGED closing /\ TypeInv /\ Phases
      /\ \A i \in SchedIds : ~ scheds[i].fresh
      /\ opening \in [pc: {"idle", "load", "save"}, proj: Projects, waits: BOOLEAN]
  BY DEF Loaded, SwitchInv, Loading, TypeInv, SwitchTyped
<1>2. closing.pc = "idle" /\ opening'.pc # "load"
  BY <1>1 DEF Phases, Loaded, Loads, IdleOpening
<1>3. Held'
  BY <1>1 DEF Loaded, Loads, Held
<1>4. \A j \in DOMAIN writes' : ~ IsClose(writes'[j])
  <2>1. \A j \in DOMAIN writes : ~ IsClose(writes[j])
    BY <1>1, <1>2 DEF Phases
  <2>2. CASE UNCHANGED writes
    BY <2>1, <2>2
  <2>3. ASSUME NEW b \in BOOLEAN, Saved(writes, opening.proj, <<"open", b>>)
        PROVE  \A j \in DOMAIN writes' : ~ IsClose(writes'[j])
    <3>1. <<"open", b>> # <<"close">>
      OBVIOUS
    <3> QED BY <2>1, <2>3, <3>1 DEF Saved, IsClose
  <2> QED BY <2>2, <2>3 DEF Loaded, Loads
<1>5. Phases'
  BY <1>1, <1>2, <1>4 DEF Phases, IsClose
<1>6. Loading'
  BY <1>2 DEF Loading
<1> QED BY <1>3, <1>5, <1>6

LEMMA ImportPhases ==
  ASSUME SwitchInv, (\E p \in Projects : Asks(p)) \/ Imports \/ ImportSaved
  PROVE  Phases' /\ Loading' /\ Held'
<1>1. /\ UNCHANGED <<queue, restored, scheds, runs, writes, closing>> /\ opening'.pc = opening.pc
      /\ TypeInv /\ Phases /\ Held /\ Loading
  BY DEF Asks, Imports, ImportSaved, SwitchInv, mem, sched, switch, TypeInv, SwitchTyped
<1>2. Phases'
  BY <1>1, PhasesKept
<1>3. Loading' /\ Held'
  BY <1>1 DEF Loading, Held
<1> QED BY <1>2, <1>3

LEMMA CrashPhases ==
  ASSUME SwitchInv, Crashes
  PROVE  Phases' /\ Loading' /\ Held'
<1>1. /\ writes' = << >> /\ closing'.pc = "idle" /\ opening'.pc = "idle"
      /\ \A i \in SchedIds : scheds'[i].pc = "none"
  BY DEF Crashes, IdleClosing, IdleOpening, FreeSched
<1>2. DOMAIN writes' = {}
  BY <1>1
<1> QED BY <1>1, <1>2 DEF Phases, Loading, Held

LEMMA SwitchInvNext ==
  ASSUME SwitchInv, Alone, Effect
  PROVE  SwitchInv'
<1> SUFFICES Phases' /\ Loading' /\ Held'
  BY TypeInvNext DEF SwitchInv
<1>1. CASE Edit \/ Nudge
  BY <1>1, EditPhases, NudgePhases
<1>2. CASE \E i \in SchedIds : StartStale(i) \/ ImpossibleSaved(i)
                               \/ StartSaved(i, scheds[i].run)
  BY <1>2, SchedPhases
<1>3. CASE (\E i \in SchedIds : Impossible(i))
           \/ \E i \in SchedIds, r \in RunIds : Starts(i, r, scheds[i].task)
  BY <1>3, TakePhases
<1>4. CASE \E r \in RunIds : Begins(r) \/ Ignored(r) \/ Finishes(r) \/ RunSaved(r)
  BY <1>4, RunPhases, SavedPhases
<1>5. CASE CallSaved \/ CloseSaved \/ OpenSaved \/ Pauses \/ Flushes \/ Loaded
  BY <1>5, SavedPhases, ClosePhases, PausesPhases, FlushesPhases, LoadedPhases
<1>6. CASE \E p \in Projects : Opens(p) \/ Asks(p)
  BY <1>6, OpensPhases, ImportPhases
<1>7. CASE Imports \/ ImportSaved \/ Crashes
  BY <1>7, ImportPhases, CrashPhases
<1> QED BY <1>1, <1>2, <1>3, <1>4, <1>5, <1>6, <1>7 DEF Effect

LEMMA SwitchInvStutter ==
  ASSUME SwitchInv, UNCHANGED vars
  PROVE  SwitchInv'
<1>1. UNCHANGED <<queue, restored, scheds, runs, writes, closing, opening>>
  BY DEF vars, mem, sched, switch
<1>2. Phases' /\ Loading' /\ Held'
  BY <1>1, KeptPhases DEF SwitchInv, Loading, Held
<1> QED BY <1>2, TypeInvStutter DEF SwitchInv

LEMMA SwitchInvStep ==
  ASSUME SwitchInv, Alone, [Next]_vars
  PROVE  SwitchInv' /\ (Effect \/ UNCHANGED vars)
<1>1. CASE Next
  BY <1>1, StepEffect, SwitchInvNext DEF SwitchInv
<1>2. CASE UNCHANGED vars
  BY <1>2, SwitchInvStutter
<1> QED BY <1>1, <1>2

\* When no call overlaps with a switch of projects, at most one project is
\* being opened or closed, the queue that is put away last has every task, and
\* the scheduler never holds a task that waits for the user.
THEOREM IngestSwitchInvariance ==
  ASSUME Alone
  PROVE  Spec => []SwitchInv
<1>1. SwitchInv /\ [Next]_vars => SwitchInv'
  BY SwitchInvStep
<1> QED BY <1>1, SwitchInvInit, PTL DEF Spec

\* Tasks loaded from disk are not run before the user resumes the queue or a
\* live event asks for their source, though processNext suspends between its
\* choice of a task and the start of the run.
THEOREM IngestNoSurprise ==
  ASSUME Alone
  PROVE  Spec => NoSurpriseRun
<1>1. SwitchInv /\ [Next]_vars => (\A id \in TaskIds :
          (active[id] = NoRun /\ active'[id] # NoRun) => id \notin restored)
  <2> SUFFICES ASSUME SwitchInv, [Next]_vars, NEW id \in TaskIds,
                      active[id] = NoRun, active'[id] # NoRun
               PROVE  id \notin restored
    OBVIOUS
  <2>1. TypeInv /\ Held /\ active \in [TaskIds -> RunIds \cup {NoRun}]
        /\ \A i \in SchedIds : scheds[i].task \in TaskIds
    BY DEF SwitchInv, TypeInv, MemTyped, SchedTyped, Sched
  <2>2. \/ UNCHANGED active
        \/ active' = [x \in TaskIds |-> NoRun]
        \/ \E r : active' = [active EXCEPT ![r] = NoRun]
        \/ \E r \in RunIds : Forgotten(r)
        \/ \E i \in SchedIds, r \in RunIds : Starts(i, r, scheds[i].task)
    <3>1. Effect \/ UNCHANGED vars
      BY SwitchInvStep
    <3>2. CASE UNCHANGED vars \/ Edit \/ Nudge \/ CallSaved \/ CloseSaved \/ OpenSaved \/ Loaded
               \/ Imports \/ ImportSaved \/ \E p \in Projects : Asks(p)
      BY <3>2 DEF vars, mem, Edit, Nudge, CallSaved, CloseSaved, OpenSaved, Loaded, Imports,
                  ImportSaved, Asks
    <3>3. CASE Pauses \/ Flushes \/ Crashes \/ \E p \in Projects : Opens(p)
      BY <3>3 DEF Pauses, Flushes, Flushed, Crashes, Opens
    <3>4. CASE \E i \in SchedIds : StartStale(i) \/ Impossible(i) \/ ImpossibleSaved(i)
                                   \/ StartSaved(i, scheds[i].run)
      BY <3>4 DEF StartStale, Impossible, ImpossibleSaved, StartSaved, mem
    <3>5. CASE \E r \in RunIds : Begins(r) \/ Ignored(r) \/ Finishes(r) \/ RunSaved(r)
      <4>1. UNCHANGED active \/ \E r \in RunIds : Forgotten(r)
        BY <3>5 DEF Begins, Ignored, Finishes, RunSaved, mem
      <4> QED BY <4>1
    <3> QED BY <3>1, <3>2, <3>3, <3>4, <3>5 DEF Effect
  <2>3. CASE \E i \in SchedIds, r \in RunIds : Starts(i, r, scheds[i].task)
    BY <2>1, <2>3 DEF Starts, Held
  <2>4. CASE ~ \E i \in SchedIds, r \in RunIds : Starts(i, r, scheds[i].task)
    BY <2>1, <2>2, <2>4 DEF Forgotten
  <2> QED BY <2>3, <2>4
<1>2. Spec => []SwitchInv
  BY IngestSwitchInvariance
<1> QED BY <1>1, <1>2, PTL DEF Spec, NoSurpriseRun

\* What pauseQueue writes at its end has every task, ready to be restarted.
THEOREM IngestClosedRestartable ==
  ASSUME Alone
  PROVE  Spec => ClosedRestartable
<1>1. SwitchInv /\ [Next]_vars =>
        ((cur # NoProject /\ cur' = NoProject /\ calls' = calls)
            => LET last == Head(writes).tasks IN
               /\ Ids(queue) \subseteq Ids(last)
               /\ Having(last, "processing") = {})
  <2> SUFFICES ASSUME SwitchInv, [Next]_vars, cur # NoProject, cur' = NoProject, calls' = calls
               PROVE  /\ Ids(queue) \subseteq Ids(Head(writes).tasks)
                      /\ Having(Head(writes).tasks, "processing") = {}
    OBVIOUS
  <2>1. TypeInv /\ Phases /\ NoProject \notin Projects
    BY QueueAssumption DEF SwitchInv
  <2>2. CloseSaved
    <3>1. Effect \/ UNCHANGED vars
      BY SwitchInvStep
    <3>2. ~ UNCHANGED cur
      OBVIOUS
    <3>3. CASE UNCHANGED vars \/ Edit \/ Nudge \/ CallSaved \/ OpenSaved \/ Loaded
               \/ Imports \/ ImportSaved \/ \E p \in Projects : Asks(p)
      BY <3>2, <3>3 DEF vars, mem, Edit, Nudge, CallSaved, OpenSaved, Loaded, Imports,
                        ImportSaved, Asks
    <3>4. CASE Pauses \/ Flushes \/ Crashes \/ \E p \in Projects : Opens(p)
      <4>1. ASSUME NEW p \in Projects, Opens(p) PROVE FALSE
        BY <2>1, <4>1 DEF Opens
      <4> QED BY <3>2, <3>4, <4>1 DEF Pauses, Flushes, Crashes
    <3>5. CASE \E i \in SchedIds : StartStale(i) \/ Impossible(i) \/ ImpossibleSaved(i)
                                   \/ StartSaved(i, scheds[i].run)
      BY <3>2, <3>5 DEF StartStale, Impossible, ImpossibleSaved, StartSaved, mem
    <3>6. CASE \E i \in SchedIds, r \in RunIds : Starts(i, r, scheds[i].task)
      BY <3>2, <3>6 DEF Starts
    <3>7. CASE \E r \in RunIds : Begins(r) \/ Ignored(r) \/ Finishes(r) \/ RunSaved(r)
      BY <3>2, <3>7 DEF Begins, Ignored, Finishes, RunSaved, mem
    <3> QED BY <3>1, <3>3, <3>4, <3>5, <3>6, <3>7 DEF Effect
  <2>3. Wiped
    BY <2>2 DEF CloseSaved, FlushedAgain
  <2>4. 1 \in DOMAIN writes /\ IsClose(writes[1]) /\ closing.pc # "save1"
    BY <2>2, <2>3 DEF CloseSaved, Landed, Wiped, IsClose
  <2>5. /\ Ids(queue) \subseteq Ids(writes[1].tasks)
        /\ Having(writes[1].tasks, "processing") = {}
    BY <2>1, <2>4 DEF Phases
  <2>6. Head(writes) = writes[1]
    BY <2>1 DEF TypeInv, FilesTyped
  <2> QED BY <2>5, <2>6
<1>2. Spec => []SwitchInv
  BY IngestSwitchInvariance
<1> QED BY <1>1, <1>2, PTL DEF Spec, ClosedRestartable

=============================================================================
