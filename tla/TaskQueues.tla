----------------------------- MODULE TaskQueues -----------------------------
(***************************************************************************)
(* A queue of tasks, as lib/ingest-queue.ts and lib/dedup-queue.ts keep    *)
(* one: an array of task objects, found by their id (find), changed in     *)
(* place, and filtered into a new array.                                   *)
(*                                                                         *)
(* A queue is a sequence of records with (at least) the fields `id` and    *)
(* `st`, the status.                                                       *)
(***************************************************************************)
EXTENDS Naturals, Sequences

Ids(q) == {q[i].id : i \in DOMAIN q}

\* queue.find((t) => t.id === id)
Entry(q, id) == q[CHOOSE i \in DOMAIN q : q[i].id = id]
Status(q, id) == IF id \in Ids(q) THEN Entry(q, id).st ELSE "absent"
Having(q, st) == {id \in Ids(q) : Status(q, id) = st}

\* The tasks of S are changed, the others and the order are left alone.
Revise(q, S, Change(_)) ==
    [i \in DOMAIN q |-> IF q[i].id \in S THEN Change(q[i]) ELSE q[i]]
WithStatus(q, S, st) == Revise(q, S, LAMBDA t : [t EXCEPT !.st = st])

Kept(q, S) == WithStatus(q, S, "done")   \* mutant: tasks are not removed

\* queue.filter: the tasks of S are left out.
Without(q, S) ==
    LET kept[n \in 0..Len(q)] ==
            IF n = 0 THEN << >>
            ELSE IF q[n].id \in S THEN kept[n - 1] ELSE Append(kept[n - 1], q[n])
    IN kept[Len(q)]

LeftAsIs(q) == q   \* mutant: tasks stay in processing

\* "processing" tasks go back to "pending" when a queue is put away or loaded.
Interrupted(q) == WithStatus(q, Having(q, "processing"), "pending")
=============================================================================
