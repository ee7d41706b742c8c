------------------------------ MODULE Database -------------------------------
(***************************************************************************)
(* A Database is opened from a URI over one of the two kernels, and every  *)
(* call goes to that one for as long as the Database lives.                *)
(***************************************************************************)
EXTENDS InMemoryKernel

VARIABLES
  kind,  \* "File" or "InMemory": the variant of Database
  file, waiting, writing, view, start  \* those of the redb kernel

Redb == INSTANCE RedbKernel

fileVars == <<file, waiting, writing, view, start>>
databaseVars == <<vars, fileVars, kind>>

DatabaseInit ==
  /\ kind \in {"File", "InMemory"}
  /\ Init
  /\ Redb!Init

DatabaseNext ==
  /\ UNCHANGED kind
  /\ \/ kind = "InMemory" /\ Next /\ UNCHANGED fileVars
     \/ kind = "File" /\ Redb!Next /\ UNCHANGED vars

DatabaseSpec == DatabaseInit /\ [][DatabaseNext]_databaseVars

-----------------------------------------------------------------------------
(* Properties *)

\* The tables of a database in a file keep their form (btree-redb, transaction).
FileTypeOK == Redb!TypeOK

\* Whatever the URI, the engine has a serial store (database.rs, open_uri).
FileImplementsSerialStore == Redb!ImplementsSerialStore
=============================================================================
