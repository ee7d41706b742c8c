---------------------------- MODULE InMemoryKernel --------------------------
(***************************************************************************)
(* The in-memory Kernel: transactions clone the tables and their revision  *)
(* under the read lock, work on the clone, and commit under the write lock *)
(* when no other commit has raised the revision since.                     *)
(*                                                                         *)
(* `began` records what a transaction cloned; the code does not keep it,   *)
(* and no action reads it.                                                 *)
(***************************************************************************)
EXTENDS Naturals, ByteTables

CONSTANTS
  Client,       (* tasks that use the engine, one transaction at a time    *)
  MaxRevision   (* bound: commits                                          *)

ASSUME MaxRevisionAssumption == MaxRevision \in Nat

VARIABLES
  tables,    \* the committed tables, each a map of keys to values
  revision,  \* number of commits
  open,      \* the clients that have a transaction
  tx,        \* tx[c]: the revision and tables of the transaction of c
  began      \* began[c]: the tables it cloned

vars == <<tables, revision, open, tx, began>>

Transaction == [revision : Nat, tables : Contents]

TypeOK ==
  /\ tables \in Contents
  /\ revision \in Nat
  /\ open \subseteq Client
  /\ tx \in [Client -> Transaction]
  /\ began \in [Client -> Contents]

Init ==
  /\ tables = NoTables
  /\ revision = 0
  /\ open = {}
  /\ tx = [c \in Client |-> [revision |-> 0, tables |-> NoTables]]
  /\ began = [c \in Client |-> NoTables]

-----------------------------------------------------------------------------
(* Operations on the cloned tables.  Those on a table that does not exist  *)
(* are errors and change nothing.                                          *)

PutBytes(d, n, k, v) == IF n \in DOMAIN d THEN With(d, n, With(d[n], k, v)) ELSE d
\* Fault: the entry stays, with an empty value.
EmptyBytes(d, n, k) == IF n \in DOMAIN d THEN With(d, n, With(d[n], k, <<>>)) ELSE d

RemoveBytes(d, n, k) == IF n \in DOMAIN d THEN With(d, n, Without(d[n], k)) ELSE d

\* What one operation can make of the tables.
Effects(d) ==
  {EnsureTable(d, n) : n \in Name} \cup {DropTable(d, n) : n \in Name}
    \cup {PutBytes(d, n, k, v) : n \in Name, k \in Key, v \in Value}
    \cup {RemoveBytes(d, n, k) : n \in Name, k \in Key}

-----------------------------------------------------------------------------

Begin(c) ==
  /\ c \notin open
  /\ open' = open \cup {c}
  /\ tx' = [tx EXCEPT ![c] = [revision |-> revision, tables |-> tables]]
  /\ began' = [began EXCEPT ![c] = tables]
  /\ UNCHANGED <<tables, revision>>

Operate(c) ==
  /\ c \in open
  /\ \E d \in Effects(tx[c].tables) : tx' = [tx EXCEPT ![c].tables = d]
  /\ UNCHANGED <<tables, revision, open, began>>

\* Fault: the last commit wins.
CommitUnchecked(c) ==
  /\ c \in open
  /\ revision < MaxRevision
  /\ tables' = tx[c].tables
  /\ revision' = revision + 1
  /\ open' = open \ {c}
  /\ UNCHANGED <<tx, began>>

\* Fault: a commit leaves the revision.
CommitUncounted(c) ==
  /\ c \in open
  /\ revision = tx[c].revision
  /\ tables' = tx[c].tables
  /\ open' = open \ {c}
  /\ UNCHANGED <<revision, tx, began>>

\* The revision is the one that was cloned: the clone replaces the tables.
Commit(c) ==
  /\ c \in open
  /\ revision < MaxRevision
  /\ revision = tx[c].revision
  /\ tables' = tx[c].tables
  /\ revision' = revision + 1
  /\ open' = open \ {c}
  /\ UNCHANGED <<tx, began>>

\* "Transaction conflict": the transaction is gone.
Conflict(c) ==
  /\ c \in open
  /\ revision # tx[c].revision
  /\ open' = open \ {c}
  /\ UNCHANGED <<tables, revision, tx, began>>

Rollback(c) ==
  /\ c \in open
  /\ open' = open \ {c}
  /\ UNCHANGED <<tables, revision, tx, began>>

Next ==
  \E c \in Client :
    Begin(c) \/ Operate(c) \/ Commit(c) \/ Conflict(c) \/ Rollback(c)

Spec == Init /\ [][Next]_vars

-----------------------------------------------------------------------------
(* Properties *)

\* Two transactions that see the same revision see the same tables, and one
\* whose revision is still current began with what is committed now: comparing
\* revisions is as good as comparing everything the transaction read.
RevisionIdentifies ==
  /\ \A c \in open :
       /\ tx[c].revision <= revision
       /\ tx[c].revision = revision => began[c] = tables
  /\ \A c, d \in open : tx[c].revision = tx[d].revision => began[c] = began[d]

\* Commits are serial (in_memory.rs, commit against transaction): no committed
\* transaction overwrites another it did not see, whatever the interleaving of
\* their operations.
Serial == INSTANCE SerialStore WITH
  Empty <- NoTables,
  committed <- tables,
  work <- [c \in Client |-> tx[c].tables]

ImplementsSerialStore == Serial!Spec
=============================================================================
