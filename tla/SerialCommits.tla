---------------------------- MODULE SerialCommits ----------------------------
(***************************************************************************)
(* What the commit boundary of a project promises: each ingest changes the *)
(* shared wiki files at most once, in one step that keeps what is there,   *)
(* and an ingest of the queue does so only when every task started before  *)
(* it has committed or will never commit.                                  *)
(***************************************************************************)
EXTENDS Naturals, Sequences

CONSTANTS Callers, Queued

VARIABLES
    turns,      \* queued callers in start order
    closed,     \* callers that have committed or never will
    wiki        \* callers whose changes the shared files contain

svars == <<turns, closed, wiki>>

SInit == turns = << >> /\ closed = {} /\ wiki = {}

EarlierClosed(c) ==
    \A i, j \in 1..Len(turns) : (i < j /\ turns[j] = c) => turns[i] \in closed

Start(c) ==
    /\ c \notin closed
    /\ turns' = Append(turns, c)
    /\ UNCHANGED <<closed, wiki>>

Commit(c) ==
    /\ c \notin closed
    /\ c \in Queued => EarlierClosed(c)
    /\ wiki' = wiki \cup {c}
    /\ closed' = closed \cup {c}
    /\ UNCHANGED turns

\* Failures, cancellations and project switches close callers.
Close(S) ==
    /\ closed' = closed \cup S
    /\ UNCHANGED <<turns, wiki>>

SNext ==
    \/ \E c \in Queued : Start(c)
    \/ \E c \in Callers : Commit(c)
    \/ \E S \in SUBSET Callers : Close(S)

SSpec == SInit /\ [][SNext]_svars
=============================================================================
