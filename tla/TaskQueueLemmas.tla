--------------------------- MODULE TaskQueueLemmas ---------------------------
(***************************************************************************)
(* What the operators of TaskQueues return, for any queue.                 *)
(*                                                                         *)
(* The filter is a recursive function; facts about it are proved by        *)
(* induction on the length read so far.  No induction rule of the library  *)
(* can be cited (they take an operator), so the step is made on sets: a    *)
(* set of naturals with 0 and the successors of its elements is Nat.       *)
(***************************************************************************)
EXTENDS TaskQueues, SequencesExt, WellFoundedInduction, SequenceTheorems, TLAPS

Less == {ss \in Nat \X Nat : ss[1] < ss[2]}

LEMMA LessWellFounded == IsWellFoundedOn(Less, Nat)
  BY NatLessThanWellFounded DEF OpToRel, Less

\* Induction on the naturals, for a set.
LEMMA InductiveSet ==
  ASSUME NEW S \in SUBSET Nat, 0 \in S, \A n \in S : n + 1 \in S
  PROVE  S = Nat
<1> SUFFICES ASSUME Nat \ S # {} PROVE FALSE
  OBVIOUS
<1> DEFINE T == Nat \ S
<1>1. \E x \in T : \A y \in T : ~ (<<y, x>> \in Less)
  <2> HIDE DEF T
  <2>1. T \subseteq Nat /\ T # {}
    BY DEF T
  <2> QED BY <2>1, LessWellFounded, WFMin
<1>2. PICK x \in T : \A y \in T : ~ (<<y, x>> \in Less)
  BY <1>1
<1>3. x # 0 /\ x \in Nat
  OBVIOUS
<1>4. x - 1 \in Nat /\ x - 1 < x
  BY <1>3
<1>5. x - 1 \in S
  BY <1>2, <1>4 DEF Less
<1> QED BY <1>3, <1>5

-----------------------------------------------------------------------------
\* One round of the filter's loop, over the tasks read so far.
Round(q, S, f, n) ==
    IF n = 0 THEN << >>
    ELSE IF q[n].id \in S THEN f[n - 1] ELSE Append(f[n - 1], q[n])

IsFilter(q, S, f, m) == f = [n \in 0..m |-> Round(q, S, f, n)]

\* The filter's recursive definition has a solution.
LEMMA FilterExists ==
  ASSUME NEW q, NEW S, NEW m \in Nat
  PROVE  \E f : IsFilter(q, S, f, m)
<1> DEFINE Good == {n \in Nat : \E f : IsFilter(q, S, f, n)}
<1>1. 0 \in Good
  <2> DEFINE f == [n \in 0..0 |-> << >>]
  <2>1. IsFilter(q, S, f, 0)
    BY DEF IsFilter, Round
  <2> QED BY <2>1
<1>2. ASSUME NEW n \in Good PROVE n + 1 \in Good
  <2>1. PICK f : IsFilter(q, S, f, n)
    OBVIOUS
  <2> DEFINE g == [k \in 0..n + 1 |-> IF k <= n THEN f[k] ELSE Round(q, S, f, k)]
  <2>2. ASSUME NEW k \in 0..n + 1 PROVE g[k] = Round(q, S, g, k)
    <3>1. CASE k <= n
      <4>1. g[k] = f[k] /\ f[k] = Round(q, S, f, k)
        BY <2>1, <3>1 DEF IsFilter
      <4>2. k # 0 => g[k - 1] = f[k - 1]
        BY <3>1
      <4> QED BY <4>1, <4>2 DEF Round
    <3>2. CASE k = n + 1
      <4>1. g[k] = Round(q, S, f, k) /\ g[k - 1] = f[k - 1]
        BY <3>2
      <4> QED BY <4>1 DEF Round
    <3> QED BY <3>1, <3>2
  <2>3. IsFilter(q, S, g, n + 1)
    BY <2>2 DEF IsFilter
  <2> QED BY <2>3
<1>3. Good = Nat
  <2> HIDE DEF Good
  <2> QED BY <1>1, <1>2, InductiveSet DEF Good
<1> QED BY <1>3

\* The filter reads the queue from the front.
LEMMA FilterRounds ==
  ASSUME NEW q, NEW S, Len(q) \in Nat
  PROVE  \E f : IsFilter(q, S, f, Len(q)) /\ Without(q, S) = f[Len(q)]
<1> DEFINE f == CHOOSE g : IsFilter(q, S, g, Len(q))
<1>1. IsFilter(q, S, f, Len(q))
  BY FilterExists
<1>2. Without(q, S) = f[Len(q)]
  BY DEF Without, IsFilter, Round
<1> QED BY <1>1, <1>2

-----------------------------------------------------------------------------
Distinct(q) == \A i, j \in DOMAIN q : q[i].id = q[j].id => i = j

\* What the filter has made of the first n tasks.
FilteredTo(q, S, T, f, n) ==
    /\ f[n] \in Seq(T)
    /\ \A i \in DOMAIN f[n] : \E k \in 1..n : f[n][i] = q[k] /\ q[k].id \notin S
    /\ \A k \in 1..n : q[k].id \notin S => \E i \in DOMAIN f[n] : f[n][i] = q[k]
    /\ Distinct(q) => Distinct(f[n])

LEMMA FilterStep ==
  ASSUME NEW T, NEW q \in Seq(T), NEW S, NEW f, IsFilter(q, S, f, Len(q)),
         NEW n \in Nat, n + 1 <= Len(q), FilteredTo(q, S, T, f, n)
  PROVE  FilteredTo(q, S, T, f, n + 1)
<1> DEFINE t == q[n + 1]
<1>1. f[n + 1] = IF t.id \in S THEN f[n] ELSE Append(f[n], t)
  <2>1. n + 1 \in 0..Len(q) /\ n + 1 # 0 /\ (n + 1) - 1 = n
    OBVIOUS
  <2>2. f[n + 1] = Round(q, S, f, n + 1)
    BY <2>1 DEF IsFilter
  <2> QED BY <2>1, <2>2 DEF Round
<1>2. t \in T /\ n + 1 \in DOMAIN q /\ \A k \in 1..n : k \in DOMAIN q /\ k # n + 1
  OBVIOUS
<1>3. CASE t.id \in S
  <2>1. f[n + 1] = f[n]
    BY <1>1, <1>3
  <2>2. \A k \in 1..n + 1 : k \in 1..n \/ k = n + 1
    OBVIOUS
  <2>3. 1..n \subseteq 1..n + 1
    OBVIOUS
  <2> QED BY <2>1, <2>2, <2>3, <1>3 DEF FilteredTo
<1>4. CASE t.id \notin S
  <2> DEFINE g == f[n]
             h == Append(g, t)
  <2>1. f[n + 1] = h
    BY <1>1, <1>4
  <2>2. g \in Seq(T)
    BY DEF FilteredTo
  <2>3. h \in Seq(T) /\ Len(h) = Len(g) + 1 /\ h[Len(g) + 1] = t
        /\ \A i \in DOMAIN g : i \in DOMAIN h /\ h[i] = g[i]
    BY <2>2, <1>2
  <2>4. \A i \in DOMAIN h : i \in DOMAIN g \/ i = Len(g) + 1
    BY <2>2, <2>3
  <2>5. \A i \in DOMAIN h : \E k \in 1..n + 1 : h[i] = q[k] /\ q[k].id \notin S
    <3> TAKE i \in DOMAIN h
    <3>1. CASE i \in DOMAIN g
      <4>1. PICK k \in 1..n : g[i] = q[k] /\ q[k].id \notin S
        BY <3>1 DEF FilteredTo
      <4> QED BY <4>1, <3>1, <2>3
    <3>2. CASE i = Len(g) + 1
      BY <3>2, <2>3, <1>4
    <3> QED BY <3>1, <3>2, <2>4
  <2>6. \A k \in 1..n + 1 : q[k].id \notin S => \E i \in DOMAIN h : h[i] = q[k]
    <3> TAKE k \in 1..n + 1
    <3>1. CASE k \in 1..n
      BY <3>1, <2>3 DEF FilteredTo
    <3>2. CASE k = n + 1
      <4>1. Len(g) + 1 \in DOMAIN h
        BY <2>2, <2>3
      <4> QED BY <4>1, <3>2, <2>3
    <3> QED BY <3>1, <3>2
  <2>7. ASSUME Distinct(q) PROVE Distinct(h)
    <3>1. \A i \in DOMAIN g : g[i].id # t.id
      <4> TAKE i \in DOMAIN g
      <4>1. PICK k \in 1..n : g[i] = q[k]
        BY DEF FilteredTo
      <4> QED BY <4>1, <1>2, <2>7 DEF Distinct
    <3>2. Distinct(g)
      BY <2>7 DEF FilteredTo
    <3> QED BY <3>1, <3>2, <2>3, <2>4 DEF Distinct
  <2>8. h \in Seq(T)
    BY <2>3
  <2> HIDE DEF h
  <2>9. Distinct(q) => Distinct(h)
    BY <2>7
  <2> SUFFICES /\ f[n + 1] \in Seq(T)
               /\ \A i \in DOMAIN f[n + 1] : \E k \in 1..n + 1 : f[n + 1][i] = q[k] /\ q[k].id \notin S
               /\ \A k \in 1..n + 1 : q[k].id \notin S => \E i \in DOMAIN f[n + 1] : f[n + 1][i] = q[k]
               /\ Distinct(q) => Distinct(f[n + 1])
    BY Zenon DEF FilteredTo
  <2> QED BY <2>1, <2>5, <2>6, <2>8, <2>9, Zenon
<1> QED BY <1>3, <1>4

\* A filtered queue has the tasks that are not in S, each as it was.
LEMMA WithoutFacts ==
  ASSUME NEW T, NEW q \in Seq(T), NEW S
  PROVE  LET w == Without(q, S) IN
         /\ w \in Seq(T)
         /\ \A i \in DOMAIN w : \E k \in DOMAIN q : w[i] = q[k] /\ q[k].id \notin S
         /\ \A k \in DOMAIN q : q[k].id \notin S => \E i \in DOMAIN w : w[i] = q[k]
         /\ Distinct(q) => Distinct(w)
<1>1. PICK f : IsFilter(q, S, f, Len(q)) /\ Without(q, S) = f[Len(q)]
  BY FilterRounds
<1> DEFINE Good == {n \in Nat : n <= Len(q) => FilteredTo(q, S, T, f, n)}
<1>2. 0 \in Good
  <2>1. f[0] = << >>
    BY <1>1 DEF IsFilter, Round
  <2>2. f[0] \in Seq(T) /\ DOMAIN f[0] = {} /\ 1..0 = {}
    BY <2>1
  <2>3. FilteredTo(q, S, T, f, 0)
    BY <2>2 DEF FilteredTo, Distinct
  <2> QED BY <2>3
<1>3. ASSUME NEW n \in Good PROVE n + 1 \in Good
  BY <1>1, FilterStep
<1>4. Good = Nat
  <2> HIDE DEF Good
  <2> QED BY <1>2, <1>3, InductiveSet DEF Good
<1>5. FilteredTo(q, S, T, f, Len(q))
  BY <1>4
<1> DEFINE w == f[Len(q)]
<1>6. DOMAIN q = 1..Len(q) /\ Without(q, S) = w
  BY <1>1
<1>7. /\ w \in Seq(T)
      /\ \A i \in DOMAIN w : \E k \in DOMAIN q : w[i] = q[k] /\ q[k].id \notin S
      /\ \A k \in DOMAIN q : q[k].id \notin S => \E i \in DOMAIN w : w[i] = q[k]
      /\ Distinct(q) => Distinct(w)
  BY <1>5, <1>6 DEF FilteredTo
<1> QED BY <1>6, <1>7

LEMMA WithoutTyped ==
  ASSUME NEW T, NEW q \in Seq(T), NEW S
  PROVE  Without(q, S) \in Seq(T) /\ (Distinct(q) => Distinct(Without(q, S)))
<1> DEFINE w == Without(q, S)
<1>1. /\ w \in Seq(T)
      /\ \A i \in DOMAIN w : \E k \in DOMAIN q : w[i] = q[k] /\ q[k].id \notin S
      /\ \A k \in DOMAIN q : q[k].id \notin S => \E i \in DOMAIN w : w[i] = q[k]
      /\ Distinct(q) => Distinct(w)
  BY WithoutFacts
<1> QED BY <1>1

LEMMA WithoutIds ==
  ASSUME NEW T, NEW q \in Seq(T), NEW S
  PROVE  Ids(Without(q, S)) = Ids(q) \ S
<1> DEFINE w == Without(q, S)
<1>1. /\ w \in Seq(T)
      /\ \A i \in DOMAIN w : \E k \in DOMAIN q : w[i] = q[k] /\ q[k].id \notin S
      /\ \A k \in DOMAIN q : q[k].id \notin S => \E i \in DOMAIN w : w[i] = q[k]
      /\ Distinct(q) => Distinct(w)
  BY WithoutFacts
<1> HIDE DEF w
<1>2. Ids(w) \subseteq Ids(q) \ S
  BY <1>1 DEF Ids
<1>3. Ids(q) \ S \subseteq Ids(w)
  BY <1>1 DEF Ids
<1> QED BY <1>2, <1>3 DEF w

-----------------------------------------------------------------------------
(* Looking a task up *)

LEMMA EntryFound ==
  ASSUME NEW q, NEW id \in Ids(q)
  PROVE  \E i \in DOMAIN q : Entry(q, id) = q[i] /\ q[i].id = id
  BY DEF Ids, Entry

LEMMA EntryAt ==
  ASSUME NEW q, Distinct(q), NEW i \in DOMAIN q
  PROVE  q[i].id \in Ids(q) /\ Entry(q, q[i].id) = q[i]
<1>1. q[i].id \in Ids(q)
  BY DEF Ids
<1> QED BY <1>1, EntryFound DEF Distinct

LEMMA StatusAt ==
  ASSUME NEW q, Distinct(q), NEW i \in DOMAIN q
  PROVE  Status(q, q[i].id) = q[i].st
  BY EntryAt DEF Status

\* In a queue of distinct tasks a task has a status where it stands.
LEMMA HavingAt ==
  ASSUME NEW q, Distinct(q), NEW st
  PROVE  /\ \A i \in DOMAIN q : q[i].st = st => q[i].id \in Having(q, st)
         /\ \A id \in Having(q, st) : \E i \in DOMAIN q : q[i].id = id /\ q[i].st = st
<1>1. ASSUME NEW i \in DOMAIN q, q[i].st = st PROVE q[i].id \in Having(q, st)
  BY <1>1, StatusAt, EntryAt DEF Having
<1>2. ASSUME NEW id \in Having(q, st) PROVE \E i \in DOMAIN q : q[i].id = id /\ q[i].st = st
  <2>1. id \in Ids(q) /\ Status(q, id) = st
    BY DEF Having
  <2>2. PICK i \in DOMAIN q : q[i].id = id
    BY <2>1 DEF Ids
  <2> QED BY <2>1, <2>2, StatusAt
<1> QED BY <1>1, <1>2

-----------------------------------------------------------------------------
(* Changing tasks in place *)

\* Two queues with the same tasks at the same places.
SameTasks(q, w) ==
    Len(w) = Len(q) /\ DOMAIN w = DOMAIN q /\ \A i \in DOMAIN q : w[i].id = q[i].id

LEMMA SameIds ==
  ASSUME NEW q, NEW w, SameTasks(q, w)
  PROVE  Ids(w) = Ids(q) /\ (Distinct(q) => Distinct(w))
<1>1. Ids(w) = Ids(q)
  BY DEF Ids, SameTasks
<1>2. Distinct(q) => Distinct(w)
  BY DEF Distinct, SameTasks
<1> QED BY <1>1, <1>2

\* The records of T have an id, which a new status st leaves alone.
Stamps(T, st) ==
    \A t \in T : /\ [t EXCEPT !.st = st] \in T
                 /\ [t EXCEPT !.st = st].id = t.id
                 /\ [t EXCEPT !.st = st].st = st

LEMMA WithStatusFacts ==
  ASSUME NEW T, NEW st, Stamps(T, st), NEW q \in Seq(T), NEW S
  PROVE  LET w == WithStatus(q, S, st) IN
         /\ w \in Seq(T)
         /\ SameTasks(q, w)
         /\ \A i \in DOMAIN q : w[i].st = IF q[i].id \in S THEN st ELSE q[i].st
         /\ \A i \in DOMAIN q : q[i].id \notin S => w[i] = q[i]
         /\ \A i \in DOMAIN q : q[i].id \in S => w[i] = [q[i] EXCEPT !.st = st]
<1> DEFINE w == WithStatus(q, S, st)
<1>1. w = [i \in DOMAIN q |-> IF q[i].id \in S THEN [q[i] EXCEPT !.st = st] ELSE q[i]]
  BY DEF WithStatus, Revise
<1>2. DOMAIN q = 1..Len(q) /\ Len(q) \in Nat /\ \A i \in DOMAIN q : q[i] \in T
  OBVIOUS
<1>3. DOMAIN w = DOMAIN q /\ \A i \in DOMAIN q : w[i] \in T
  BY <1>1, <1>2 DEF Stamps
<1>4. w \in Seq(T) /\ Len(w) = Len(q)
  <2>1. w = [i \in 1..Len(q) |-> w[i]]
    BY <1>1, <1>2
  <2> HIDE DEF w
  <2> QED BY <2>1, <1>2, <1>3, IsASeq
<1>5. \A i \in DOMAIN q : w[i].id = q[i].id
  BY <1>1, <1>2 DEF Stamps
<1>6. \A i \in DOMAIN q : w[i].st = IF q[i].id \in S THEN st ELSE q[i].st
  BY <1>1, <1>2 DEF Stamps
<1>7. \A i \in DOMAIN q : q[i].id \notin S => w[i] = q[i]
  BY <1>1
<1>8. \A i \in DOMAIN q : q[i].id \in S => w[i] = [q[i] EXCEPT !.st = st]
  BY <1>1
<1> HIDE DEF w
<1>9. SameTasks(q, w)
  BY <1>3, <1>4, <1>5 DEF SameTasks
<1> QED BY <1>4, <1>6, <1>7, <1>8, <1>9 DEF w

\* A queue that was put away has no task in processing.
LEMMA InterruptedFacts ==
  ASSUME NEW T, Stamps(T, "pending"), NEW q \in Seq(T), Distinct(q)
  PROVE  LET w == Interrupted(q) IN
         /\ w \in Seq(T) /\ SameTasks(q, w) /\ Distinct(w)
         /\ \A i \in DOMAIN q :
               w[i].st = IF q[i].st = "processing" THEN "pending" ELSE q[i].st
         /\ Having(w, "processing") = {}
<1> DEFINE S == Having(q, "processing")
           w == Interrupted(q)
<1>1. \A i \in DOMAIN q : q[i].id \in S <=> q[i].st = "processing"
  BY HavingAt DEF Distinct
<1>2. /\ w \in Seq(T)
      /\ SameTasks(q, w)
      /\ \A i \in DOMAIN q : w[i].st = IF q[i].id \in S THEN "pending" ELSE q[i].st
  BY WithStatusFacts DEF Interrupted
<1> HIDE DEF w, S
<1>3. Distinct(w)
  BY <1>2, SameIds
<1>4. \A i \in DOMAIN q : w[i].st = IF q[i].st = "processing" THEN "pending" ELSE q[i].st
  BY <1>1, <1>2
<1>5. Having(w, "processing") = {}
  <2> SUFFICES ASSUME NEW id \in Having(w, "processing") PROVE FALSE
    OBVIOUS
  <2>1. PICK i \in DOMAIN w : w[i].st = "processing"
    BY <1>3, HavingAt
  <2> QED BY <2>1, <1>2, <1>4 DEF SameTasks
<1> QED BY <1>2, <1>3, <1>4, <1>5 DEF w

\* A function over the places of q that keeps the ids is a queue again.
LEMMA ChangedInPlace ==
  ASSUME NEW T, NEW q \in Seq(T), NEW w, w = [i \in DOMAIN q |-> w[i]],
         \A i \in DOMAIN q : w[i] \in T /\ w[i].id = q[i].id
  PROVE  w \in Seq(T) /\ SameTasks(q, w)
<1>1. DOMAIN q = 1..Len(q) /\ Len(q) \in Nat
  OBVIOUS
<1>2. w = [i \in 1..Len(q) |-> w[i]] /\ DOMAIN w = DOMAIN q
  BY <1>1
<1>3. w \in Seq(T) /\ Len(w) = Len(q)
  BY <1>1, <1>2, IsASeq
<1> QED BY <1>2, <1>3 DEF SameTasks

-----------------------------------------------------------------------------
(* The ends of a queue, and taking one element out *)

LEMMA AppendFacts ==
  ASSUME NEW T, NEW q \in Seq(T), NEW t \in T
  PROVE  LET w == Append(q, t) IN
         /\ w \in Seq(T) /\ Len(w) = Len(q) + 1
         /\ DOMAIN w = DOMAIN q \cup {Len(q) + 1} /\ Len(q) + 1 \notin DOMAIN q
         /\ \A i \in DOMAIN q : w[i] = q[i]
         /\ w[Len(q) + 1] = t
  OBVIOUS

LEMMA AppendTask ==
  ASSUME NEW T, NEW q \in Seq(T), NEW t \in T
  PROVE  /\ Ids(Append(q, t)) = Ids(q) \cup {t.id}
         /\ Distinct(q) /\ t.id \notin Ids(q) => Distinct(Append(q, t))
<1> DEFINE w == Append(q, t)
<1>1. /\ w \in Seq(T) /\ Len(w) = Len(q) + 1
      /\ DOMAIN w = DOMAIN q \cup {Len(q) + 1} /\ Len(q) + 1 \notin DOMAIN q
      /\ \A i \in DOMAIN q : w[i] = q[i]
      /\ w[Len(q) + 1] = t
  BY AppendFacts
<1> HIDE DEF w
<1>2. Ids(w) = Ids(q) \cup {t.id}
  BY <1>1 DEF Ids
<1>3. Distinct(q) /\ t.id \notin Ids(q) => Distinct(w)
  BY <1>1 DEF Distinct, Ids
<1> QED BY <1>2, <1>3 DEF w

\* A set of positions that is not empty has a first one.
LEMMA FirstExists ==
  ASSUME NEW S \in SUBSET Nat, S # {}
  PROVE  \E i \in S : \A j \in S : i <= j
<1>1. \E x \in S : \A y \in S : ~ (<<y, x>> \in Less)
  BY LessWellFounded, WFMin
<1>2. PICK x \in S : \A y \in S : ~ (<<y, x>> \in Less)
  BY <1>1
<1>3. ASSUME NEW y \in S PROVE x <= y
  <2>1. ~ (y < x)
    BY <1>2 DEF Less
  <2> QED BY <2>1
<1> QED BY <1>3

LEMMA RemoveAtFacts ==
  ASSUME NEW T, NEW s \in Seq(T), NEW j \in DOMAIN s
  PROVE  LET w == RemoveAt(s, j) IN
         /\ w \in Seq(T) /\ Len(w) = Len(s) - 1
         /\ \A i \in DOMAIN w : (i < j => i \in DOMAIN s /\ w[i] = s[i])
                             /\ (i >= j => i + 1 \in DOMAIN s /\ w[i] = s[i + 1])
<1> DEFINE a == SubSeq(s, 1, j - 1)
           b == SubSeq(s, j + 1, Len(s))
<1>1. j \in 1..Len(s) /\ Len(s) \in Nat
  OBVIOUS
<1>2. a \in Seq(T) /\ Len(a) = j - 1 /\ \A i \in 1..j - 1 : a[i] = s[i]
  BY <1>1
<1>3. b \in Seq(T) /\ Len(b) = Len(s) - j /\ \A i \in 1..Len(s) - j : b[i] = s[j + i]
  BY <1>1
<1> HIDE DEF a, b
<1> DEFINE w == a \o b
<1>4. /\ w \in Seq(T) /\ Len(w) = Len(s) - 1 /\ DOMAIN w = 1..Len(s) - 1
      /\ \A i \in 1..Len(s) - 1 : w[i] = IF i <= j - 1 THEN a[i] ELSE b[i - (j - 1)]
  <2>1. w \in Seq(T) /\ Len(w) = Len(a) + Len(b)
    BY <1>2, <1>3, ConcatProperties
  <2>2. \A i \in 1..Len(a) + Len(b) :
           w[i] = IF i <= Len(a) THEN a[i] ELSE b[i - Len(a)]
    BY <1>2, <1>3, ConcatProperties
  <2>3. Len(a) + Len(b) = Len(s) - 1
    BY <1>1, <1>2, <1>3
  <2> HIDE DEF w
  <2> QED BY <2>1, <2>2, <2>3, <1>2
<1> HIDE DEF w
<1>5. ASSUME NEW i \in DOMAIN w, i < j PROVE i \in DOMAIN s /\ w[i] = s[i]
  <2>1. i \in 1..j - 1 /\ i <= j - 1
    BY <1>1, <1>4, <1>5
  <2> QED BY <1>1, <1>2, <1>4, <2>1
<1>6. ASSUME NEW i \in DOMAIN w, i >= j PROVE i + 1 \in DOMAIN s /\ w[i] = s[i + 1]
  <2>1. i \in 1..Len(s) - 1 /\ ~ (i <= j - 1)
    BY <1>1, <1>4, <1>6
  <2>2. i - (j - 1) \in 1..Len(s) - j /\ j + (i - (j - 1)) = i + 1 /\ i + 1 \in 1..Len(s)
    BY <1>1, <1>6, <2>1
  <2>3. w[i] = b[i - (j - 1)]
    BY <1>4, <2>1
  <2>4. b[i - (j - 1)] = s[i + 1]
    BY <1>3, <2>2
  <2> QED BY <2>2, <2>3, <2>4
<1>7. RemoveAt(s, j) = w
  BY DEF RemoveAt, a, b, w
<1> QED BY <1>4, <1>5, <1>6, <1>7

LEMMA SeqWider ==
  ASSUME NEW S, NEW T, S \subseteq T, NEW s \in Seq(S)
  PROVE  s \in Seq(T)
<1>1. Len(s) \in Nat /\ s = [i \in 1..Len(s) |-> s[i]] /\ \A i \in 1..Len(s) : s[i] \in S
  OBVIOUS
<1>2. \A i \in 1..Len(s) : s[i] \in T
  BY <1>1
<1> QED BY <1>1, <1>2

\* Two tasks change places.
LEMMA SwapFacts ==
  ASSUME NEW T, NEW q \in Seq(T), NEW i \in DOMAIN q, NEW j \in DOMAIN q
  PROVE  LET w == [q EXCEPT ![i] = q[j], ![j] = q[i]] IN
         /\ w \in Seq(T) /\ Ids(w) = Ids(q)
         /\ Distinct(q) => Distinct(w)
         /\ \A k \in DOMAIN w : \E l \in DOMAIN q : w[k] = q[l]
<1> DEFINE w == [q EXCEPT ![i] = q[j], ![j] = q[i]]
           at(k) == IF k = j THEN i ELSE IF k = i THEN j ELSE k
<1>1. DOMAIN w = DOMAIN q /\ \A k \in DOMAIN q : at(k) \in DOMAIN q /\ w[k] = q[at(k)]
  OBVIOUS
<1>2. \A k \in DOMAIN q : at(at(k)) = k
  OBVIOUS
<1>3. w \in Seq(T)
  <2>1. DOMAIN q = 1..Len(q) /\ Len(q) \in Nat /\ \A k \in DOMAIN q : q[k] \in T
    OBVIOUS
  <2>2. w = [k \in 1..Len(q) |-> w[k]] /\ \A k \in 1..Len(q) : w[k] \in T
    BY <1>1, <2>1
  <2> HIDE DEF w
  <2> QED BY <2>1, <2>2
<1> HIDE DEF w, at
<1>4. Ids(w) = Ids(q)
  <2>1. Ids(w) \subseteq Ids(q)
    BY <1>1 DEF Ids
  <2>2. ASSUME NEW k \in DOMAIN q PROVE q[k].id \in Ids(w)
    BY <1>1, <1>2 DEF Ids
  <2>3. Ids(q) \subseteq Ids(w)
    BY <2>2 DEF Ids
  <2> QED BY <2>1, <2>3
<1>5. Distinct(q) => Distinct(w)
  <2> SUFFICES ASSUME Distinct(q), NEW k \in DOMAIN w, NEW l \in DOMAIN w, w[k].id = w[l].id
               PROVE  k = l
    BY DEF Distinct
  <2>1. at(k) = at(l)
    BY <1>1 DEF Distinct
  <2> QED BY <1>1, <1>2, <2>1
<1> QED BY <1>1, <1>3, <1>4, <1>5 DEF w

\* The tail of a sequence.
LEMMA TailFacts ==
  ASSUME NEW T, NEW s \in Seq(T), s # << >>
  PROVE  /\ Tail(s) \in Seq(T) /\ Len(Tail(s)) = Len(s) - 1
         /\ 1 \in DOMAIN s /\ Head(s) = s[1] /\ s[1] \in T
         /\ \A i \in DOMAIN Tail(s) : i + 1 \in DOMAIN s /\ Tail(s)[i] = s[i + 1]
         /\ \A i \in DOMAIN s : i = 1 \/ (i - 1 \in DOMAIN Tail(s) /\ s[i] = Tail(s)[i - 1])
<1>1. Len(s) \in Nat /\ Len(s) # 0 /\ DOMAIN s = 1..Len(s)
  OBVIOUS
<1>2. Tail(s) \in Seq(T) /\ Len(Tail(s)) = Len(s) - 1 /\ Head(s) = s[1] /\ s[1] \in T
  BY <1>1
<1>3. DOMAIN Tail(s) = 1..(Len(s) - 1) /\ \A i \in 1..(Len(s) - 1) : Tail(s)[i] = s[i + 1]
  BY <1>1
<1>4. \A i \in 1..(Len(s) - 1) : i + 1 \in 1..Len(s)
  BY <1>1
<1>5. ASSUME NEW i \in DOMAIN s, i # 1
      PROVE  i - 1 \in DOMAIN Tail(s) /\ s[i] = Tail(s)[i - 1]
  <2>1. i - 1 \in 1..(Len(s) - 1) /\ (i - 1) + 1 = i
    BY <1>1, <1>5
  <2> QED BY <1>3, <2>1
<1> QED BY <1>1, <1>2, <1>3, <1>4, <1>5
=============================================================================
