-------------------------- MODULE MCCommitPipeline --------------------------
(* Three queued ingests, two of them of one source, and a direct caller of *)
(* the source they share.                                                  *)
EXTENDS CommitPipeline, TLC

CONSTANTS q1, q2, q3, direct, s1, s2

MCQueued == {q1, q2, q3}
MCCallers == MCQueued \cup {direct}
MCSources == {s1, s2}
MCSourceOf == (q1 :> s1) @@ (q2 :> s1) @@ (q3 :> s2) @@ (direct :> s1)
=============================================================================
