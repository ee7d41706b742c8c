----------------------------- MODULE RedbKernel -----------------------------
(***************************************************************************)
(* The Kernel over a redb file.  A transaction is one redb write           *)
(* transaction, of which there is one at a time: begin_write blocks its    *)
(* caller while another is open.  Every call on a storage table opens it   *)
(* first, and opening a table creates it, so that reads, too, may change   *)
(* what a transaction commits.  Handles on single tables commit and roll   *)
(* back nothing.  The process may stop at any time; redb's file then holds *)
(* the last commit.                                                        *)
(*                                                                         *)
(* `view` and `start` keep what a client's last transaction made and began *)
(* with; the code has them while it is open, and no other action reads     *)
(* them.                                                                   *)
(***************************************************************************)
EXTENDS ByteTables

CONSTANT Client  (* tasks that use the engine, one transaction at a time *)

VARIABLES
  file,     \* the committed tables
  waiting,  \* the clients blocked in begin_write
  writing,  \* the client that has the write transaction, if any
  view,     \* view[c]: the tables as the transaction of c sees them
  start     \* start[c]: the tables it began with

vars == <<file, waiting, writing, view, start>>

TypeOK ==
  /\ file \in Contents
  /\ waiting \subseteq Client
  /\ writing \subseteq Client
  /\ view \in [Client -> Contents]
  /\ start \in [Client -> Contents]

Init ==
  /\ file = NoTables
  /\ waiting = {}
  /\ writing = {}
  /\ view = [c \in Client |-> NoTables]
  /\ start = [c \in Client |-> NoTables]

-----------------------------------------------------------------------------
(* Operations on the transaction's tables *)

Open(d, n) == EnsureTable(d, n)

PutBytes(d, n, k, v) == With(Open(d, n), n, With(Open(d, n)[n], k, v))

\* Fault: the entry stays, with an empty value.
EmptyBytes(d, n, k) == With(Open(d, n), n, With(Open(d, n)[n], k, <<>>))

RemoveBytes(d, n, k) == With(Open(d, n), n, Without(Open(d, n)[n], k))

\* What one call can make of the tables; get_bytes and scan_bytes only open.
Effects(d) ==
  {Open(d, n) : n \in Name} \cup {DropTable(d, n) : n \in Name}
    \cup {PutBytes(d, n, k, v) : n \in Name, k \in Key, v \in Value}
    \cup {RemoveBytes(d, n, k) : n \in Name, k \in Key}

-----------------------------------------------------------------------------

\* transaction() is called.
Request(c) ==
  /\ c \notin waiting \cup writing
  /\ waiting' = waiting \cup {c}
  /\ UNCHANGED <<file, writing, view, start>>

\* begin_write returns, to any of those who wait.
Admit(c) ==
  /\ c \in waiting
  /\ writing = {}
  /\ waiting' = waiting \ {c}
  /\ writing' = {c}
  /\ view' = [view EXCEPT ![c] = file]
  /\ start' = [start EXCEPT ![c] = file]
  /\ UNCHANGED file

\* Fault: the handle of a table commits the transaction it is scoped to.
OperateScoped(c) ==
  /\ c \in writing
  /\ \E d \in Effects(view[c]) :
       /\ view' = [view EXCEPT ![c] = d]
       /\ file' = d
  /\ UNCHANGED <<waiting, writing, start>>

\* A call on one table, through a handle whose own commit does nothing.
Operate(c) ==
  /\ c \in writing
  /\ \E d \in Effects(view[c]) : view' = [view EXCEPT ![c] = d]
  /\ UNCHANGED <<file, waiting, writing, start>>

Commit(c) ==
  /\ c \in writing
  /\ file' = view[c]
  /\ writing' = {}
  /\ UNCHANGED <<waiting, view, start>>

\* rollback(), or the transaction is dropped by an error.
Rollback(c) ==
  /\ c \in writing
  /\ writing' = {}
  /\ UNCHANGED <<file, waiting, view, start>>

\* The process stops; the file is opened again, by new tasks.
Crash ==
  /\ waiting' = {}
  /\ writing' = {}
  /\ UNCHANGED <<file, view, start>>

Next ==
  \/ \E c \in Client : Request(c) \/ Admit(c) \/ Operate(c) \/ Commit(c) \/ Rollback(c)
  \/ Crash

Spec == Init /\ [][Next]_vars

-----------------------------------------------------------------------------
(* Properties *)

\* The file is a serial store (kernel.rs, transaction to commit): a statement
\* takes effect whole, on what it read, or not at all, with every crash and
\* every order of clients.
Serial == INSTANCE SerialStore WITH
  Empty <- NoTables,
  committed <- file,
  open <- writing,
  began <- start,
  work <- view

ImplementsSerialStore == Serial!Spec
=============================================================================
