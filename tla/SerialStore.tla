----------------------------- MODULE SerialStore ----------------------------
(***************************************************************************)
(* What the Engine relies on a Kernel for: transactions that read and      *)
(* write a private copy of the database, and commits that happen one after *)
(* another.  A transaction commits only on the very contents it began      *)
(* with, so that all it read still holds when its writes take effect; one  *)
(* that does not commit leaves nothing.                                    *)
(***************************************************************************)
CONSTANTS
  Client,
  Contents,  \* what a database may contain
  Empty      \* the contents of a new database

VARIABLES
  committed,  \* the contents all commits so far made
  open,       \* the clients with a transaction
  began,      \* began[c]: the contents the last transaction of c began with
  work        \* work[c]: those contents with its own writes

vars == <<committed, open, began, work>>

Init ==
  /\ committed = Empty
  /\ open = {}
  /\ began = [c \in Client |-> Empty]
  /\ work = [c \in Client |-> Empty]

Begin(c) ==
  /\ c \notin open
  /\ open' = open \cup {c}
  /\ began' = [began EXCEPT ![c] = committed]
  /\ work' = [work EXCEPT ![c] = committed]
  /\ UNCHANGED committed

Operate(c) ==
  /\ c \in open
  /\ \E contents \in Contents : work' = [work EXCEPT ![c] = contents]
  /\ UNCHANGED <<committed, open, began>>

Commit(c) ==
  /\ c \in open
  /\ began[c] = committed
  /\ committed' = work[c]
  /\ open' = open \ {c}
  /\ UNCHANGED <<began, work>>

\* Rolled back, refused, or lost with its process.
Abandon(C) ==
  /\ C \subseteq open
  /\ open' = open \ C
  /\ UNCHANGED <<committed, began, work>>

Next ==
  \/ \E c \in Client : Begin(c) \/ Operate(c) \/ Commit(c)
  \/ \E C \in SUBSET Client : Abandon(C)

Spec == Init /\ [][Next]_vars
=============================================================================
