--------------------------- MODULE Database_proofs ----------------------------
(***************************************************************************)
(* Proofs about a Database over either kernel, for any clients, names,     *)
(* keys, values and bound on commits: about the in-memory kernel, about    *)
(* the redb kernel, and that what holds of each kernel holds of the        *)
(* Database that was opened over it.                                       *)
(***************************************************************************)
EXTENDS Database, TLAPS

-----------------------------------------------------------------------------
(* The operators on a kernel's tables keep them well-formed *)

\* A database with no table is a database (InMemoryKernel::new).
LEMMA NoTablesOK == NoTables \in Contents
BY DEF NoTables, Contents

\* A table with no entry is a table (ensure_table's or_default).
LEMMA NoEntriesOK == NoEntries \in Maps
<1>1. NoEntries \in [{} -> Value]
  BY DEF NoEntries
<1> QED BY <1>1 DEF Maps

\* Inserting an entry in a table leaves a table.
LEMMA PutEntry ==
  ASSUME NEW m \in Maps, NEW k \in Key, NEW v \in Value
  PROVE  With(m, k, v) \in Maps
<1>1. PICK K \in SUBSET Key : m \in [K -> Value]
  BY DEF Maps
<1>2. With(m, k, v) \in [K \cup {k} -> Value]
  BY <1>1 DEF With
<1> QED BY <1>2 DEF Maps

\* Removing an entry from a table leaves a table.
LEMMA RemoveEntry ==
  ASSUME NEW m \in Maps, NEW k
  PROVE  Without(m, k) \in Maps
<1>1. PICK K \in SUBSET Key : m \in [K -> Value]
  BY DEF Maps
<1>2. Without(m, k) \in [K \ {k} -> Value]
  BY <1>1 DEF Without
<1> QED BY <1>2 DEF Maps

\* Replacing a table of a database leaves a database.
LEMMA PutTable ==
  ASSUME NEW d \in Contents, NEW n \in Name, NEW m \in Maps
  PROVE  With(d, n, m) \in Contents
<1>1. PICK N \in SUBSET Name : d \in [N -> Maps]
  BY DEF Contents
<1>2. With(d, n, m) \in [N \cup {n} -> Maps]
  BY <1>1 DEF With
<1> QED BY <1>2 DEF Contents

\* Dropping a table of a database leaves a database.
LEMMA DropTableOK ==
  ASSUME NEW d \in Contents, NEW n
  PROVE  DropTable(d, n) \in Contents
<1>1. PICK N \in SUBSET Name : d \in [N -> Maps]
  BY DEF Contents
<1>2. Without(d, n) \in [N \ {n} -> Maps]
  BY <1>1 DEF Without
<1> QED BY <1>2 DEF Contents, DropTable

\* A table of a database is a table.
LEMMA TableOf ==
  ASSUME NEW d \in Contents, NEW n \in DOMAIN d
  PROVE  d[n] \in Maps
BY DEF Contents

\* Creating a table leaves a database.
LEMMA EnsureTableOK ==
  ASSUME NEW d \in Contents, NEW n \in Name
  PROVE  EnsureTable(d, n) \in Contents /\ n \in DOMAIN EnsureTable(d, n)
<1>1. EnsureTable(d, n) \in Contents
  BY PutTable, NoEntriesOK DEF EnsureTable
<1>2. n \in DOMAIN EnsureTable(d, n)
  BY DEF EnsureTable, With
<1> QED BY <1>1, <1>2

-----------------------------------------------------------------------------
(* Invariance *)

\* The invariant that is inductive.  Every client, with a transaction or not,
\* remembers the revision and the tables it cloned last; what it cloned at the
\* current revision is what is committed.
Inv ==
  /\ TypeOK
  /\ \A c \in Client :
       /\ tx[c].revision <= revision
       /\ tx[c].revision = revision => began[c] = tables
  /\ \A c, d \in Client :
       tx[c].revision = tx[d].revision => began[c] = began[d]

\* Whatever a transaction does to its clone, the clone remains a database.
LEMMA EffectsOK ==
  ASSUME NEW d \in Contents
  PROVE  Effects(d) \subseteq Contents
<1>1. \A n \in Name : EnsureTable(d, n) \in Contents
  BY EnsureTableOK
<1>2. \A n \in Name : DropTable(d, n) \in Contents
  BY DropTableOK
<1>3. ASSUME NEW n \in Name, NEW k \in Key, NEW v \in Value
      PROVE  PutBytes(d, n, k, v) \in Contents
  <2>1. n \in DOMAIN d => With(d[n], k, v) \in Maps
    BY TableOf, PutEntry
  <2> QED BY <2>1, PutTable DEF PutBytes
<1>4. ASSUME NEW n \in Name, NEW k \in Key
      PROVE  RemoveBytes(d, n, k) \in Contents
  <2>1. n \in DOMAIN d => Without(d[n], k) \in Maps
    BY TableOf, RemoveEntry
  <2> QED BY <2>1, PutTable DEF RemoveBytes
<1> QED BY <1>1, <1>2, <1>3, <1>4 DEF Effects

\* A new kernel, before any transaction.
LEMMA InitInv == Init => Inv
BY NoTablesOK DEF Init, Inv, TypeOK, Transaction

\* Every step of a task preserves the invariant.
LEMMA NextInv == Inv /\ [Next]_vars => Inv'
<1> SUFFICES ASSUME Inv, [Next]_vars
             PROVE  Inv'
  OBVIOUS
<1> USE DEF Inv, TypeOK, Transaction
<1>1. ASSUME NEW c \in Client, Begin(c)
      PROVE  Inv'
  BY <1>1 DEF Begin
<1>2. ASSUME NEW c \in Client, Operate(c)
      PROVE  Inv'
  <2>1. PICK d \in Effects(tx[c].tables) : tx' = [tx EXCEPT ![c].tables = d]
    BY <1>2 DEF Operate
  <2>2. d \in Contents
    BY <2>1, EffectsOK
  <2>3. tx' \in [Client -> Transaction]
    BY <2>1, <2>2
  <2>4. \A e \in Client : tx'[e].revision = tx[e].revision
    BY <2>1
  <2> QED BY <1>2, <2>3, <2>4 DEF Operate
<1>3. ASSUME NEW c \in Client, Commit(c)
      PROVE  Inv'
  <2>1. /\ tables' \in Contents
        /\ revision' \in Nat
        /\ revision' = revision + 1
        /\ UNCHANGED <<tx, began>>
        /\ open' \subseteq Client
    BY <1>3 DEF Commit
  <2>2. \A d \in Client : tx[d].revision \in Nat /\ tx[d].revision < revision'
    BY <2>1
  <2> QED BY <2>1, <2>2
<1>4. ASSUME NEW c \in Client, Conflict(c)
      PROVE  Inv'
  BY <1>4 DEF Conflict
<1>5. ASSUME NEW c \in Client, Rollback(c)
      PROVE  Inv'
  BY <1>5 DEF Rollback
<1>6. CASE UNCHANGED vars
  BY <1>6 DEF vars
<1> QED BY <1>1, <1>2, <1>3, <1>4, <1>5, <1>6 DEF Next

\* The inductive invariant holds of every reachable state of the kernel.
THEOREM Invariance == Spec => []Inv
BY InitInv, NextInv, PTL DEF Spec

\* Type correctness of the kernel's tables and clones.
THEOREM TypeCorrect == Spec => []TypeOK
<1>1. Inv => TypeOK
  BY DEF Inv
<1> QED BY Invariance, <1>1, PTL

\* Comparing revisions at commit compares everything a transaction could have
\* read (in_memory.rs commit).
THEOREM RevisionsIdentify == Spec => []RevisionIdentifies
<1>1. Inv => RevisionIdentifies
  BY DEF Inv, TypeOK, RevisionIdentifies
<1> QED BY Invariance, <1>1, PTL

-----------------------------------------------------------------------------
(* Refinement *)

\* A new kernel is a new serial store.
LEMMA InitSerial == Init => Serial!Init
BY DEF Init, Serial!Init

\* Every step of the kernel is one of the serial store.
LEMMA NextSerial == Inv /\ [Next]_vars => [Serial!Next]_(Serial!vars)
<1> SUFFICES ASSUME Inv, [Next]_vars
             PROVE  [Serial!Next]_(Serial!vars)
  OBVIOUS
<1> USE DEF Inv, TypeOK, Transaction
<1> DEFINE Work == [c \in Client |-> tx[c].tables]
<1>1. ASSUME NEW c \in Client, Begin(c)
      PROVE  Serial!Begin(c)
  <2>1. Work' = [Work EXCEPT ![c] = tables]
    BY <1>1 DEF Begin
  <2> QED BY <1>1, <2>1 DEF Begin, Serial!Begin
<1>2. ASSUME NEW c \in Client, Operate(c)
      PROVE  Serial!Operate(c)
  <2>1. PICK d \in Effects(tx[c].tables) : tx' = [tx EXCEPT ![c].tables = d]
    BY <1>2 DEF Operate
  <2>2. d \in Contents
    BY <2>1, EffectsOK
  <2>3. Work' = [Work EXCEPT ![c] = d]
    BY <2>1
  <2> QED BY <1>2, <2>2, <2>3 DEF Operate, Serial!Operate
<1>3. ASSUME NEW c \in Client, Commit(c)
      PROVE  Serial!Commit(c)
  <2>1. began[c] = tables
    BY <1>3 DEF Commit
  <2>2. Work' = Work /\ tables' = Work[c]
    BY <1>3 DEF Commit
  <2> QED BY <1>3, <2>1, <2>2 DEF Commit, Serial!Commit
<1>4. ASSUME NEW c \in Client, Conflict(c) \/ Rollback(c)
      PROVE  Serial!Abandon({c})
  <2>1. Work' = Work
    BY <1>4 DEF Conflict, Rollback
  <2> QED BY <1>4, <2>1 DEF Conflict, Rollback, Serial!Abandon
<1>5. CASE UNCHANGED vars
  BY <1>5 DEF vars, Serial!vars
<1>6. CASE Next
  <2>1. PICK c \in Client :
          Begin(c) \/ Operate(c) \/ Commit(c) \/ Conflict(c) \/ Rollback(c)
    BY <1>6 DEF Next
  <2>2. Conflict(c) \/ Rollback(c) => \E C \in SUBSET Client : Serial!Abandon(C)
    BY <1>4
  <2> QED BY <2>1, <2>2, <1>1, <1>2, <1>3 DEF Serial!Next
<1> QED BY <1>5, <1>6

\* The in-memory Kernel is a serial store: a transaction that commits read what
\* was still committed when its writes took effect.
THEOREM SerialCommits == Spec => ImplementsSerialStore
<1>1. Spec => Serial!Spec
  BY Invariance, InitSerial, NextSerial, PTL DEF Spec, Serial!Spec
<1> QED BY <1>1 DEF ImplementsSerialStore

-----------------------------------------------------------------------------
(* The redb kernel *)

\* One writer at most, and what it began with is what the file holds.
RedbInv ==
  /\ Redb!TypeOK
  /\ \A c \in writing : writing = {c} /\ start[c] = file

\* Both kernels mean the same by tables.
LEMMA SameTables ==
  /\ Redb!Maps = Maps /\ Redb!Contents = Contents /\ Redb!NoTables = NoTables
  /\ \A d, n : Redb!EnsureTable(d, n) = EnsureTable(d, n)
  /\ \A d, n : Redb!DropTable(d, n) = DropTable(d, n)
  /\ \A d, x, y : Redb!With(d, x, y) = With(d, x, y)
  /\ \A d, x : Redb!Without(d, x) = Without(d, x)
<1>1. Redb!Maps = Maps /\ Redb!NoTables = NoTables /\ Redb!NoEntries = NoEntries
  BY DEF Redb!Maps, Maps, Redb!NoTables, NoTables, Redb!NoEntries, NoEntries
<1>2. Redb!Contents = Contents
  BY <1>1 DEF Redb!Contents, Contents
<1>3. \A d, x, y : Redb!With(d, x, y) = With(d, x, y)
  BY DEF Redb!With, With
<1>4. \A d, x : Redb!Without(d, x) = Without(d, x)
  BY DEF Redb!Without, Without
<1>5. \A d, n : Redb!EnsureTable(d, n) = EnsureTable(d, n)
  BY <1>1, <1>3 DEF Redb!EnsureTable, EnsureTable
<1>6. \A d, n : Redb!DropTable(d, n) = DropTable(d, n)
  BY <1>4 DEF Redb!DropTable, DropTable
<1> QED BY <1>1, <1>2, <1>3, <1>4, <1>5, <1>6

\* Whatever a call does to the tables, they remain a database, even where the
\* table had to be created first.
LEMMA RedbEffectsOK ==
  ASSUME NEW d \in Redb!Contents
  PROVE  Redb!Effects(d) \subseteq Redb!Contents
<1> USE SameTables
<1>1. ASSUME NEW n \in Name
      PROVE  /\ Redb!Open(d, n) \in Redb!Contents
             /\ Redb!Open(d, n)[n] \in Redb!Maps
             /\ Redb!DropTable(d, n) \in Redb!Contents
  BY EnsureTableOK, TableOf, DropTableOK DEF Redb!Open
<1>2. ASSUME NEW n \in Name, NEW k \in Key, NEW v \in Value
      PROVE  Redb!PutBytes(d, n, k, v) \in Redb!Contents
  <2>1. Redb!With(Redb!Open(d, n)[n], k, v) \in Redb!Maps
    BY <1>1, PutEntry
  <2> QED BY <1>1, <2>1, PutTable DEF Redb!PutBytes
<1>3. ASSUME NEW n \in Name, NEW k \in Key
      PROVE  Redb!RemoveBytes(d, n, k) \in Redb!Contents
  <2>1. Redb!Without(Redb!Open(d, n)[n], k) \in Redb!Maps
    BY <1>1, RemoveEntry
  <2> QED BY <1>1, <2>1, PutTable DEF Redb!RemoveBytes
<1> QED BY <1>1, <1>2, <1>3 DEF Redb!Effects

\* A new file has no table.
LEMMA RedbInitInv == Redb!Init => RedbInv
BY NoTablesOK, SameTables DEF Redb!Init, RedbInv, Redb!TypeOK

\* Every step of a client, and a crash, preserve the invariant.
LEMMA RedbNextInv == RedbInv /\ [Redb!Next]_fileVars => RedbInv'
<1> SUFFICES ASSUME RedbInv, [Redb!Next]_fileVars
             PROVE  RedbInv'
  OBVIOUS
<1> USE DEF RedbInv, Redb!TypeOK
<1>1. ASSUME NEW c \in Client, Redb!Request(c)
      PROVE  RedbInv'
  BY <1>1 DEF Redb!Request
<1>2. ASSUME NEW c \in Client, Redb!Admit(c)
      PROVE  RedbInv'
  BY <1>2 DEF Redb!Admit
<1>3. ASSUME NEW c \in Client, Redb!Operate(c)
      PROVE  RedbInv'
  <2>1. PICK d \in Redb!Effects(view[c]) : view' = [view EXCEPT ![c] = d]
    BY <1>3 DEF Redb!Operate
  <2>2. d \in Redb!Contents
    BY <2>1, RedbEffectsOK
  <2> QED BY <1>3, <2>1, <2>2 DEF Redb!Operate
<1>4. ASSUME NEW c \in Client, Redb!Commit(c)
      PROVE  RedbInv'
  BY <1>4 DEF Redb!Commit
<1>5. ASSUME NEW c \in Client, Redb!Rollback(c)
      PROVE  RedbInv'
  BY <1>5 DEF Redb!Rollback
<1>6. CASE Redb!Crash
  BY <1>6 DEF Redb!Crash
<1>7. CASE UNCHANGED fileVars
  BY <1>7 DEF fileVars
<1> QED BY <1>1, <1>2, <1>3, <1>4, <1>5, <1>6, <1>7 DEF Redb!Next

\* A new file is a new serial store.
LEMMA RedbInitSerial == Redb!Init => Redb!Serial!Init
BY DEF Redb!Init, Redb!Serial!Init

\* Every step is one of the serial store or changes nothing it has.
LEMMA RedbNextSerial == RedbInv /\ [Redb!Next]_fileVars => [Redb!Serial!Next]_(Redb!Serial!vars)
<1> SUFFICES ASSUME RedbInv, [Redb!Next]_fileVars
             PROVE  [Redb!Serial!Next]_(Redb!Serial!vars)
  OBVIOUS
<1> USE DEF RedbInv, Redb!TypeOK
<1>1. ASSUME NEW c \in Client, Redb!Request(c)
      PROVE  UNCHANGED Redb!Serial!vars
  BY <1>1 DEF Redb!Request, Redb!Serial!vars
<1>2. ASSUME NEW c \in Client, Redb!Admit(c)
      PROVE  Redb!Serial!Begin(c)
  BY <1>2 DEF Redb!Admit, Redb!Serial!Begin
<1>3. ASSUME NEW c \in Client, Redb!Operate(c)
      PROVE  Redb!Serial!Operate(c)
  BY <1>3, RedbEffectsOK DEF Redb!Operate, Redb!Serial!Operate
<1>4. ASSUME NEW c \in Client, Redb!Commit(c)
      PROVE  Redb!Serial!Commit(c)
  BY <1>4 DEF Redb!Commit, Redb!Serial!Commit
<1>5. ASSUME NEW c \in Client, Redb!Rollback(c)
      PROVE  Redb!Serial!Abandon({c})
  BY <1>5 DEF Redb!Rollback, Redb!Serial!Abandon
<1>6. CASE Redb!Crash
  <2>1. Redb!Serial!Abandon(writing)
    BY <1>6 DEF Redb!Crash, Redb!Serial!Abandon
  <2> QED BY <2>1 DEF Redb!Serial!Next
<1>7. CASE UNCHANGED fileVars
  BY <1>7 DEF fileVars, Redb!Serial!vars
<1>8. ASSUME NEW c \in Client,
             Redb!Request(c) \/ Redb!Admit(c) \/ Redb!Operate(c) \/ Redb!Commit(c) \/ Redb!Rollback(c)
      PROVE  [Redb!Serial!Next]_(Redb!Serial!vars)
  <2>1. Redb!Rollback(c) => \E C \in SUBSET Client : Redb!Serial!Abandon(C)
    BY <1>5
  <2> QED BY <2>1, <1>1, <1>2, <1>3, <1>4, <1>8 DEF Redb!Serial!Next
<1> QED BY <1>6, <1>7, <1>8 DEF Redb!Next

-----------------------------------------------------------------------------
(* A Database *)

\* The inductive invariants of both kernels, of which one only moves.
DatabaseInv == Inv /\ RedbInv

\* A database that was just opened over a new file, or in memory.
LEMMA InitDatabase == DatabaseInit => DatabaseInv
BY InitInv, RedbInitInv DEF DatabaseInit, DatabaseInv

\* A step of a Database is one of its kernel, and none of the other.
LEMMA DatabaseSteps == [DatabaseNext]_databaseVars => [Next]_vars /\ [Redb!Next]_fileVars
BY DEF DatabaseNext, databaseVars

\* Every step preserves the invariant.
LEMMA NextDatabase == DatabaseInv /\ [DatabaseNext]_databaseVars => DatabaseInv'
<1> SUFFICES ASSUME DatabaseInv, [DatabaseNext]_databaseVars PROVE DatabaseInv'
  OBVIOUS
<1>1. [Next]_vars /\ [Redb!Next]_fileVars
  BY DatabaseSteps
<1> QED BY <1>1, NextInv, RedbNextInv DEF DatabaseInv

\* The invariants of the kernels hold of every reachable state.
THEOREM DatabaseInvariance == DatabaseSpec => []DatabaseInv
BY InitDatabase, NextDatabase, PTL DEF DatabaseSpec

\* The tables of a Database over either kernel keep their form.
THEOREM DatabaseTypes == DatabaseSpec => [](TypeOK /\ FileTypeOK)
<1>1. DatabaseInv => TypeOK /\ FileTypeOK
  BY DEF DatabaseInv, Inv, RedbInv, FileTypeOK
<1> QED BY <1>1, DatabaseInvariance, PTL

-----------------------------------------------------------------------------
(* Refinement *)

\* Over the in-memory kernel a Database is a serial store.
THEOREM MemorySerial == DatabaseSpec => ImplementsSerialStore
<1>1. DatabaseInit => Serial!Init
  BY InitSerial DEF DatabaseInit
<1>2. DatabaseInv /\ [DatabaseNext]_databaseVars => [Serial!Next]_(Serial!vars)
  BY DatabaseSteps, NextSerial DEF DatabaseInv
<1>3. DatabaseSpec => Serial!Spec
  BY <1>1, <1>2, DatabaseInvariance, PTL DEF DatabaseSpec, Serial!Spec
<1> QED BY <1>3 DEF ImplementsSerialStore

\* Over a file it is one, with every crash.
THEOREM FileSerial == DatabaseSpec => FileImplementsSerialStore
<1>1. DatabaseInit => Redb!Serial!Init
  BY DEF DatabaseInit, Redb!Init, Redb!Serial!Init
<1>2. DatabaseInv /\ [DatabaseNext]_databaseVars => [Redb!Serial!Next]_(Redb!Serial!vars)
  BY DatabaseSteps, RedbNextSerial DEF DatabaseInv
<1>3. DatabaseSpec => Redb!Serial!Spec
  BY <1>1, <1>2, DatabaseInvariance, PTL DEF DatabaseSpec, Redb!Serial!Spec
<1> QED BY <1>3 DEF FileImplementsSerialStore, Redb!ImplementsSerialStore
=============================================================================
