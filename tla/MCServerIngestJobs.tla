------------------------- MODULE MCServerIngestJobs -------------------------
(* Two jobs that share a source, or one job that names a source twice.      *)
EXTENDS ServerIngestJobs, TLC

CONSTANTS j1, j2, s1, s2

MCTwoJobs == {j1, j2}
MCTwoPaths == (j1 :> <<s1, s2>>) @@ (j2 :> <<s1>>)
MCOnePath == (j1 :> <<s1, s1>>)
MCOneJob == {j1}
=============================================================================
