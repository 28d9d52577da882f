----------------------------- MODULE MCFileSync -----------------------------
(* A small instance of the file watcher: one file is small, the other one is *)
(* large and all its contents have the same size.                            *)
EXTENDS FileSync

MCSize == [n \in 0..MaxChanges |-> 1]
=============================================================================
