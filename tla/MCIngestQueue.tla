---------------------------- MODULE MCIngestQueue ----------------------------
(* Small instances of the ingest queue.                                     *)
EXTENDS IngestQueue

MCOne == 1..1
MCTwo == 1..2
MCThree == 1..3

\* Sources come one by one, and two at once.
MCEach == {<<s>> : s \in Sources}
MCBatches == MCEach \cup {<<s, t>> : s, t \in Sources}
=============================================================================
