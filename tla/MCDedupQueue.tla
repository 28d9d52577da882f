---------------------------- MODULE MCDedupQueue ----------------------------
(* Small instances of the dedup queue.                                      *)
EXTENDS DedupQueue

MCOne == 1..1
MCTwo == 1..2
MCThree == 1..3
=============================================================================
