--------------------------- MODULE MCProjectSwitch ---------------------------
(* Small instances of the project switch.  The two kinds of items share     *)
(* only `suspended` and the calls: there are reviews or there are chats,    *)
(* an old one in the first project and a new one.                           *)
EXTENDS ProjectSwitch

CONSTANTS First, Old

MCHomes == {[i \in S |-> IF i \in Old THEN First ELSE None] : S \in {Reviews, Chats}}
MCStarts == [home: MCHomes, open: {None, First}]
=============================================================================
