------------------------ MODULE IndexRecords_proofs ------------------------
(***************************************************************************)
(* Theorems about IndexRecords: the database keeps its types, statements   *)
(* that change a schema repair the indexes of their table, and, where      *)
(* catalog entries come from the engine's own statements alone, indexes    *)
(* are exact, unique keys gain no contenders and lookups select the lowest *)
(* UUID.                                                                   *)
(*                                                                         *)
(* All transactions are of four forms: rows are written and the records    *)
(* follow; something of one table is declared and the records of its       *)
(* indexes are made again; a table or an index is dropped; a peer's        *)
(* catalog entry is stored.                                                *)
(***************************************************************************)
EXTENDS IndexRecords, FiniteSetTheorems, TLAPS

-----------------------------------------------------------------------------
(* Functions on a part of a set *)

\* Columns that have a value each.
LEMMA SomeIs ==
  ASSUME NEW S, NEW f
  PROVE  f \in Some(S) <=> \E C \in SUBSET Column : f \in [C -> S]
BY DEF Some

\* What such a function has.
LEMMA SomeHas ==
  ASSUME NEW S, NEW f \in Some(S)
  PROVE  DOMAIN f \subseteq Column /\ f \in [DOMAIN f -> S]
BY SomeIs

\* What such a function is made of.
LEMMA SomeMade ==
  ASSUME NEW S, NEW C \in SUBSET Column, NEW f \in [C -> S]
  PROVE  f \in Some(S)
BY SomeIs

\* The parts of an index, at positions.
LEMMA PartsIs ==
  ASSUME NEW f
  PROVE  f \in Parts <=> \E P \in SUBSET Position : f \in [P -> PartEntry]
BY DEF Parts

\* One function over another has the values of both, the former first.
LEMMA OverlayIs ==
  ASSUME NEW f, NEW g
  PROVE  /\ DOMAIN Overlay(f, g) = DOMAIN f \cup DOMAIN g
         /\ \A c \in DOMAIN g : Overlay(f, g)[c] = g[c]
         /\ \A c \in DOMAIN f : c \notin DOMAIN g => Overlay(f, g)[c] = f[c]
BY DEF Overlay

\* Values over values are values.
LEMMA OverlaySome ==
  ASSUME NEW S, NEW f \in Some(S), NEW g \in Some(S)
  PROVE  Overlay(f, g) \in Some(S)
<1>1. /\ DOMAIN f \cup DOMAIN g \in SUBSET Column
      /\ f \in [DOMAIN f -> S] /\ g \in [DOMAIN g -> S]
  BY SomeHas
<1>2. Overlay(f, g) \in [DOMAIN f \cup DOMAIN g -> S]
  BY <1>1 DEF Overlay
<1> QED BY <1>1, <1>2, SomeMade

\* Parts over parts are parts.
LEMMA OverlayParts ==
  ASSUME NEW f \in Parts, NEW g \in Parts
  PROVE  Overlay(f, g) \in Parts
<1>1. /\ DOMAIN f \cup DOMAIN g \in SUBSET Position
      /\ f \in [DOMAIN f -> PartEntry] /\ g \in [DOMAIN g -> PartEntry]
  BY PartsIs
<1>2. Overlay(f, g) \in [DOMAIN f \cup DOMAIN g -> PartEntry]
  BY <1>1 DEF Overlay
<1> QED BY <1>1, <1>2, PartsIs

\* One value of one column.
LEMMA OnlyIs ==
  ASSUME NEW w, NEW v
  PROVE  DOMAIN Only(w, v) = {w} /\ Only(w, v)[w] = v
BY DEF Only

-----------------------------------------------------------------------------
(* Reading the database *)

\* What a database is made of.
LEMMA DatabaseHas ==
  ASSUME NEW d \in Database
  PROVE  /\ d.table \in [Table -> {"absent", "active", "dropped"}]
         /\ d.field \in [Table -> Some(Datum)]
         /\ d.index \in [Index -> IndexEntry \cup {NoIndex}]
         /\ d.part \in [Index -> Parts]
         /\ d.row \in [Table -> [Row -> RowEntry]]
         /\ d.records \in [Index -> SUBSET IndexRecord]
BY DEF Database

\* The parts of an index are finitely many.
Finite(d) == \A i \in Index : IsFiniteSet(DOMAIN d.part[i])

\* The columns of an index are a sequence.
LEMMA ColumnsSequence ==
  ASSUME NEW d, Finite(d), NEW i \in Index
  PROVE  \E n \in Nat :
           /\ DOMAIN IndexColumns(d, i) = 1..n
           /\ (\E p \in DOMAIN d.part[i] : ~d.part[i][p].deleted) => n # 0
<1> DEFINE live == {p \in DOMAIN d.part[i] : ~d.part[i][p].deleted}
<1>1. IsFiniteSet(live)
  BY FS_Subset DEF Finite
<1>2. Cardinality(live) \in Nat
  BY <1>1, FS_CardinalityType
<1>3. DOMAIN IndexColumns(d, i) = 1..Cardinality(live)
  BY DEF IndexColumns
<1>4. (\E p \in DOMAIN d.part[i] : ~d.part[i][p].deleted) => Cardinality(live) # 0
  BY <1>1, FS_EmptySet
<1> HIDE DEF live
<1> QED BY <1>2, <1>3, <1>4

\* The keys of an index depend on its parts alone.
LEMMA SameColumns ==
  ASSUME NEW d, NEW e, NEW i, e.part[i] = d.part[i]
  PROVE  /\ IndexColumns(e, i) = IndexColumns(d, i)
         /\ \A values : Key(e, i, values) = Key(d, i, values)
         /\ \A w, values : Record(e, i, w, values) = Record(d, i, w, values)
<1>1. IndexColumns(e, i) = IndexColumns(d, i)
  BY DEF IndexColumns
<1>2. \A values : Key(e, i, values) = Key(d, i, values)
  BY <1>1 DEF Key
<1> QED BY <1>1, <1>2 DEF Record

\* The values of a row depend on its document and the fields of its table alone.
LEMMA SameValues ==
  ASSUME NEW d, NEW e, NEW t, NEW w \in Row,
         e.row[t][w] = d.row[t][w], e.field[t] = d.field[t]
  PROVE  /\ Values(e, t, w) = Values(d, t, w)
         /\ w \in Visible(e, t) <=> w \in Visible(d, t)
BY DEF Values, Visible

\* A visible row has a value in each column of its table.
LEMMA ValuesType ==
  ASSUME NEW d \in Database, NEW t \in Table, NEW w \in Row
  PROVE  Values(d, t, w) \in [DOMAIN d.field[t] -> Datum]
<1>1. d.row[t][w].doc \in Some(Datum) /\ d.field[t] \in Some(Datum)
  BY DatabaseHas DEF RowEntry
<1>2. /\ d.row[t][w].doc \in [DOMAIN d.row[t][w].doc -> Datum]
      /\ d.field[t] \in [DOMAIN d.field[t] -> Datum]
  BY <1>1, SomeHas
<1> QED BY <1>2 DEF Values

\* A row that is read is visible, and read as its values.
LEMMA ReadIs ==
  ASSUME NEW d, NEW t, NEW w \in Row, NEW v
  PROVE  v \in Read(d, t)[w] <=> w \in Visible(d, t) /\ v = Values(d, t, w)
BY DEF Read

\* The records of rows, by what was read of them.
LEMMA RecordsOfIs ==
  ASSUME NEW d, NEW i, NEW rows, NEW read, NEW r
  PROVE  r \in RecordsOf(d, i, rows, read) <=>
           \E w \in rows : \E v \in read[w] : r = Record(d, i, w, v)
BY DEF RecordsOf

\* The records of rows, by what a database has of them.
LEMMA RecordsOfRead ==
  ASSUME NEW d, NEW e, NEW t, NEW i, NEW rows \in SUBSET Row, NEW r
  PROVE  r \in RecordsOf(d, i, rows, Read(e, t)) <=>
           \E w \in rows : w \in Visible(e, t) /\ r = Record(d, i, w, Values(e, t, w))
<1>1. ASSUME r \in RecordsOf(d, i, rows, Read(e, t))
      PROVE  \E w \in rows : w \in Visible(e, t) /\ r = Record(d, i, w, Values(e, t, w))
  <2>1. PICK w \in rows : \E v \in Read(e, t)[w] : r = Record(d, i, w, v)
    BY <1>1, RecordsOfIs
  <2>2. PICK v \in Read(e, t)[w] : r = Record(d, i, w, v)
    BY <2>1
  <2>3. w \in Visible(e, t) /\ v = Values(e, t, w)
    BY ReadIs
  <2> QED BY <2>2, <2>3
<1>2. ASSUME NEW w \in rows, w \in Visible(e, t), r = Record(d, i, w, Values(e, t, w))
      PROVE  r \in RecordsOf(d, i, rows, Read(e, t))
  <2>1. Values(e, t, w) \in Read(e, t)[w]
    BY <1>2, ReadIs
  <2> QED BY <1>2, <2>1, RecordsOfIs
<1> QED BY <1>1, <1>2

-----------------------------------------------------------------------------
(* Maintaining the records *)

\* What a transaction that updates the records commits: the records alone are
\* other, and nothing failed.
LEMMA Updated ==
  ASSUME NEW d \in Database, NEW t, NEW rows, NEW old, NEW new, NEW enforce,
         NEW e \in UpdateRecords(d, t, rows, old, new, enforce)
  PROVE  /\ e = [d EXCEPT !.records =
                  [i \in Index |-> IF i \in IndexesOf(d, t) THEN Moved(d, i, rows, old, new)
                                                          ELSE d.records[i]]]
         /\ e.table = d.table /\ e.field = d.field /\ e.index = d.index
         /\ e.part = d.part /\ e.row = d.row
         /\ \A i \in IndexesOf(d, t) : e.records[i] = Moved(d, i, rows, old, new)
         /\ \A i \in Index : i \notin IndexesOf(d, t) => e.records[i] = d.records[i]
         /\ rows # {} => SchemaReads(d, t)
         /\ enforce => \A i \in IndexesOf(d, t), w \in rows : ~RowClashes(d, i, rows, old, new, w)
<1>1. e = [d EXCEPT !.records =
             [i \in Index |-> IF i \in IndexesOf(d, t) THEN Moved(d, i, rows, old, new)
                                                     ELSE d.records[i]]]
  BY DEF UpdateRecords
<1>2. /\ rows # {} => SchemaReads(d, t)
      /\ enforce => \A i \in IndexesOf(d, t), w \in rows : ~RowClashes(d, i, rows, old, new, w)
  BY DEF UpdateRecords
<1>3. IndexesOf(d, t) \subseteq Index
  BY DEF IndexesOf
<1>4. d = [table |-> d.table, field |-> d.field, index |-> d.index, part |-> d.part,
           row |-> d.row, records |-> d.records]
  BY DEF Database
<1> QED BY <1>1, <1>2, <1>3, <1>4

\* An index whose schema is read has keys of values.
LEMMA KeyType ==
  ASSUME NEW d \in Database, Finite(d), NEW t \in Table, NEW i \in IndexesOf(d, t), Resolves(d, i),
         NEW values \in [DOMAIN d.field[t] -> Datum]
  PROVE  Key(d, i, values) \in Seq(Datum)
<1>1. i \in Index /\ d.index[i].on = t
  BY DEF IndexesOf
<1>2. PICK n \in Nat : DOMAIN IndexColumns(d, i) = 1..n
  BY <1>1, ColumnsSequence
<1>3. \A k \in 1..n : IndexColumns(d, i)[k] \in DOMAIN d.field[t]
  BY <1>1, <1>2 DEF Resolves
<1>4. Key(d, i, values) \in [1..n -> Datum]
  BY <1>2, <1>3 DEF Key
<1> QED BY <1>4

\* Records made of values are records.
LEMMA MovedType ==
  ASSUME NEW d \in Database, Finite(d), NEW t \in Table, NEW rows \in SUBSET Row, NEW old, NEW new,
         rows # {} => SchemaReads(d, t), NEW i \in IndexesOf(d, t),
         \A w \in rows : \A v \in new[w] : v \in [DOMAIN d.field[t] -> Datum]
  PROVE  Moved(d, i, rows, old, new) \subseteq IndexRecord
<1>1. i \in Index /\ d.records[i] \subseteq IndexRecord
  BY DatabaseHas DEF IndexesOf
<1>2. ASSUME NEW r \in RecordsOf(d, i, rows, new)
      PROVE  r \in IndexRecord
  <2>1. PICK w \in rows : \E v \in new[w] : r = Record(d, i, w, v)
    BY <1>2, RecordsOfIs
  <2>2. PICK v \in new[w] : r = Record(d, i, w, v)
    BY <2>1
  <2>3. Resolves(d, i)
    BY <2>1 DEF SchemaReads
  <2>4. Key(d, i, v) \in Seq(Datum)
    BY <2>3, KeyType
  <2> QED BY <2>2, <2>4 DEF Record, IndexRecord
<1> QED BY <1>1, <1>2 DEF Moved

\* A transaction that updates the records commits a database.
LEMMA UpdatedType ==
  ASSUME NEW d \in Database, Finite(d), NEW t \in Table, NEW rows \in SUBSET Row, NEW old, NEW new,
         \A w \in rows : \A v \in new[w] : v \in [DOMAIN d.field[t] -> Datum], NEW enforce,
         NEW e \in UpdateRecords(d, t, rows, old, new, enforce)
  PROVE  e \in Database /\ Finite(e)
<1>1. \A i \in IndexesOf(d, t) : Moved(d, i, rows, old, new) \subseteq IndexRecord
  BY Updated, MovedType
<1>2. \A i \in Index : d.records[i] \subseteq IndexRecord
  BY DatabaseHas
<1> DEFINE records == [i \in Index |-> IF i \in IndexesOf(d, t) THEN Moved(d, i, rows, old, new)
                                                             ELSE d.records[i]]
<1>3. records \in [Index -> SUBSET IndexRecord]
  BY <1>1, <1>2
<1>4. e = [d EXCEPT !.records = records]
  BY Updated
<1> HIDE DEF records
<1>5. e \in Database
  BY <1>3, <1>4 DEF Database
<1>6. e.part = d.part
  BY Updated
<1> QED BY <1>5, <1>6 DEF Finite

\* What is read of a table has values in its columns.
LEMMA ReadType ==
  ASSUME NEW d \in Database, NEW t \in Table
  PROVE  \A w \in Row : \A v \in Read(d, t)[w] : v \in [DOMAIN d.field[t] -> Datum]
BY ReadIs, ValuesType

\* The database before its records follow what some rows become.
Written(d, t, rows) == [d EXCEPT !.row[t] = Overlay(@, rows)]

\* It is one.
LEMMA WrittenIs ==
  ASSUME NEW d \in Database, Finite(d), NEW t \in Table, NEW C \in SUBSET Row,
         NEW rows \in [C -> RowEntry]
  PROVE  /\ Written(d, t, rows) \in Database /\ Finite(Written(d, t, rows))
         /\ LET e == Written(d, t, rows)
            IN  /\ e.table = d.table /\ e.field = d.field /\ e.index = d.index
                /\ e.part = d.part /\ e.records = d.records
                /\ \A s \in Table : s # t => e.row[s] = d.row[s]
                /\ \A w \in C : e.row[t][w] = rows[w]
                /\ \A w \in Row \ C : e.row[t][w] = d.row[t][w]
<1> DEFINE e == Written(d, t, rows)
           x == Overlay(d.row[t], rows)
<1>1. d.row[t] \in [Row -> RowEntry] /\ d.row \in [Table -> [Row -> RowEntry]]
  BY DatabaseHas
<1>2. /\ x \in [Row -> RowEntry]
      /\ \A w \in C : x[w] = rows[w]
      /\ \A w \in Row \ C : x[w] = d.row[t][w]
  BY <1>1 DEF Overlay
<1>3. e = [d EXCEPT !.row = [d.row EXCEPT ![t] = x]]
  BY DEF Written
<1> HIDE DEF x
<1>4. [d.row EXCEPT ![t] = x] \in [Table -> [Row -> RowEntry]]
  BY <1>1, <1>2
<1>5. e \in Database
  BY <1>3, <1>4 DEF Database
<1>6. /\ e.table = d.table /\ e.field = d.field /\ e.index = d.index
      /\ e.part = d.part /\ e.records = d.records
      /\ e.row = [d.row EXCEPT ![t] = x]
  BY <1>3 DEF Database
<1> HIDE DEF e
<1> QED BY <1>1, <1>2, <1>5, <1>6 DEF e, Finite

\* A transaction that changes rows commits a database.
LEMMA MaterializeType ==
  ASSUME NEW d \in Database, Finite(d), NEW t \in Table, NEW C \in SUBSET Row,
         NEW rows \in [C -> RowEntry], NEW enforce, NEW e \in Materialize(d, t, rows, enforce)
  PROVE  e \in Database /\ Finite(e)
<1> DEFINE b == Written(d, t, rows)
<1>1. b \in Database /\ Finite(b)
  BY WrittenIs
<1>2. e \in UpdateRecords(b, t, C, Read(d, t), Read(b, t), enforce)
  BY DEF Materialize, Written
<1>3. \A w \in C : \A v \in Read(b, t)[w] : v \in [DOMAIN b.field[t] -> Datum]
  BY <1>1, ReadType
<1> HIDE DEF b
<1> QED BY <1>1, <1>2, <1>3, UpdatedType

\* The database before the records of a table's indexes are made again.
Cleared(d, t) == [d EXCEPT !.records = [i \in Index |-> IF i \in IndexesOf(d, t) THEN {} ELSE @[i]]]

\* It is one.
LEMMA ClearedIs ==
  ASSUME NEW d \in Database, Finite(d), NEW t \in Table
  PROVE  /\ Cleared(d, t) \in Database /\ Finite(Cleared(d, t))
         /\ LET e == Cleared(d, t)
            IN  /\ e.table = d.table /\ e.field = d.field /\ e.index = d.index
                /\ e.part = d.part /\ e.row = d.row
                /\ \A i \in IndexesOf(d, t) : e.records[i] = {}
                /\ \A i \in Index : i \notin IndexesOf(d, t) => e.records[i] = d.records[i]
<1> DEFINE e == Cleared(d, t)
           x == [i \in Index |-> IF i \in IndexesOf(d, t) THEN {} ELSE d.records[i]]
<1>1. d.records \in [Index -> SUBSET IndexRecord]
  BY DatabaseHas
<1>2. /\ x \in [Index -> SUBSET IndexRecord]
      /\ \A i \in Index : i \in IndexesOf(d, t) => x[i] = {}
      /\ \A i \in Index : i \notin IndexesOf(d, t) => x[i] = d.records[i]
  BY <1>1
<1>3. e = [d EXCEPT !.records = x]
  BY DEF Cleared
<1>4. IndexesOf(d, t) \subseteq Index
  BY DEF IndexesOf
<1> HIDE DEF x
<1>5. e \in Database
  BY <1>2, <1>3 DEF Database
<1>6. /\ e.table = d.table /\ e.field = d.field /\ e.index = d.index
      /\ e.part = d.part /\ e.row = d.row /\ e.records = x
  BY <1>3 DEF Database
<1> HIDE DEF e
<1> QED BY <1>2, <1>4, <1>5, <1>6 DEF e, Finite

\* A transaction that makes the records again commits a database.
LEMMA RebuildType ==
  ASSUME NEW d \in Database, Finite(d), NEW t \in Table, NEW e \in RebuildTable(d, t)
  PROVE  /\ e \in Database /\ Finite(e) /\ SchemaReads(d, t)
         /\ e \in UpdateRecords(Cleared(d, t), t, Visible(d, t), NoneRead, Read(d, t), TRUE)
<1> DEFINE b == Cleared(d, t)
<1>1. b \in Database /\ Finite(b) /\ b.field = d.field
  BY ClearedIs
<1>2. SchemaReads(d, t) /\ e \in UpdateRecords(b, t, Visible(d, t), NoneRead, Read(d, t), TRUE)
  BY DEF RebuildTable, Cleared
<1>3. Visible(d, t) \subseteq Row
  BY DEF Visible
<1>4. \A w \in Visible(d, t) : \A v \in Read(d, t)[w] : v \in [DOMAIN b.field[t] -> Datum]
  BY <1>1, <1>3, ReadType
<1> HIDE DEF b
<1>5. e \in Database /\ Finite(e)
  BY <1>1, <1>2, <1>3, <1>4, UpdatedType
<1> QED BY <1>2, <1>5 DEF b

-----------------------------------------------------------------------------
(* Types of the statements *)

\* A row that holds values.
LEMMA LiveType ==
  ASSUME NEW doc \in Some(Datum)
  PROVE  [state |-> "live", doc |-> doc] \in RowEntry
BY DEF RowEntry

\* A row that was deleted.
LEMMA DeletedType == Deleted \in RowEntry
<1>1. NoFunction \in [{} -> Datum]
  BY DEF NoFunction
<1>2. NoFunction \in Some(Datum)
  BY <1>1, SomeMade
<1> QED BY <1>2 DEF Deleted, RowEntry

\* A row whose document takes values.
LEMMA AssignedType ==
  ASSUME NEW row \in RowEntry, NEW doc \in Some(Datum)
  PROVE  /\ [row EXCEPT !.doc = Overlay(@, doc)] \in RowEntry
         /\ [row EXCEPT !.doc = Overlay(doc, @)] \in RowEntry
<1>1. /\ row.doc \in Some(Datum) /\ row.state \in {"none", "live", "deleted"}
      /\ row = [state |-> row.state, doc |-> row.doc]
  BY DEF RowEntry
<1>2. Overlay(row.doc, doc) \in Some(Datum) /\ Overlay(doc, row.doc) \in Some(Datum)
  BY <1>1, OverlaySome
<1>3. /\ [row EXCEPT !.doc = Overlay(@, doc)] = [state |-> row.state, doc |-> Overlay(row.doc, doc)]
      /\ [row EXCEPT !.doc = Overlay(doc, @)] = [state |-> row.state, doc |-> Overlay(doc, row.doc)]
  BY <1>1
<1> QED BY <1>1, <1>2, <1>3 DEF RowEntry

\* INSERT writes one row.
LEMMA InsertWrites ==
  ASSUME NEW d \in Database, NEW t \in Table, NEW w \in Row,
         NEW values \in [DOMAIN d.field[t] -> Datum], NEW e \in Insert(d, t, w, values)
  PROVE  /\ Active(d, t)
         /\ \E rows \in [{w} -> RowEntry] : e \in Materialize(d, t, rows, TRUE)
<1>1. values \in Some(Datum)
  <2>1. d.field[t] \in Some(Datum)
    BY DatabaseHas
  <2>2. DOMAIN d.field[t] \in SUBSET Column
    BY <2>1, SomeHas
  <2> QED BY <2>2, SomeMade
<1>2. [state |-> "live", doc |-> values] \in RowEntry
  BY <1>1, LiveType
<1>3. Only(w, [state |-> "live", doc |-> values]) \in [{w} -> RowEntry]
  BY <1>2 DEF Only
<1> QED BY <1>3 DEF Insert

\* UPDATE writes the rows that match.
LEMMA UpdateWrites ==
  ASSUME NEW d \in Database, NEW t \in Table, NEW C \in SUBSET Row,
         NEW assigned \in Some(Datum), NEW e \in UpdateRows(d, t, C, assigned)
  PROVE  /\ Active(d, t)
         /\ \E rows \in [C -> RowEntry] : e \in Materialize(d, t, rows, TRUE)
<1>1. ASSUME NEW w \in C
      PROVE  [d.row[t][w] EXCEPT !.doc = Overlay(@, assigned)] \in RowEntry
  <2> DEFINE row == d.row[t][w]
  <2>1. row \in RowEntry
    BY DatabaseHas
  <2> HIDE DEF row
  <2>2. [row EXCEPT !.doc = Overlay(@, assigned)] \in RowEntry
    BY <2>1, AssignedType
  <2> QED BY <2>2 DEF row
<1>2. [w \in C |-> [d.row[t][w] EXCEPT !.doc = Overlay(@, assigned)]] \in [C -> RowEntry]
  BY <1>1
<1> QED BY <1>2 DEF UpdateRows

\* DELETE writes the rows that match.
LEMMA DeleteWrites ==
  ASSUME NEW d \in Database, NEW t \in Table, NEW C \in SUBSET Row, NEW e \in DeleteRows(d, t, C)
  PROVE  /\ Active(d, t)
         /\ \E rows \in [C -> RowEntry] : e \in Materialize(d, t, rows, TRUE)
<1>1. [w \in C |-> Deleted] \in [C -> RowEntry]
  BY DeletedType
<1> QED BY <1>1 DEF DeleteRows

\* A row from a peer is written, with no check of uniqueness.
LEMMA ReceiveWrites ==
  ASSUME NEW d \in Database, NEW t \in Table, NEW w \in Row, NEW row \in RowEntry,
         NEW e \in ReceiveRow(d, t, w, row)
  PROVE  \E rows \in [{w} -> RowEntry] : e \in Materialize(d, t, rows, FALSE)
<1>1. CASE row.state = "deleted" \/ d.row[t][w].state = "deleted"
  <2>1. Only(w, Deleted) \in [{w} -> RowEntry]
    BY DeletedType DEF Only
  <2> QED BY <1>1, <2>1 DEF ReceiveRow
<1>2. CASE ~(row.state = "deleted" \/ d.row[t][w].state = "deleted")
  <2>1. d.row[t][w].doc \in Some(Datum)
    BY DatabaseHas DEF RowEntry
  <2>2. [row EXCEPT !.doc = Overlay(d.row[t][w].doc, @)] \in RowEntry
    BY <2>1, AssignedType
  <2>3. Only(w, [row EXCEPT !.doc = Overlay(d.row[t][w].doc, @)]) \in [{w} -> RowEntry]
    BY <2>2 DEF Only
  <2> QED BY <1>2, <2>3 DEF ReceiveRow
<1> QED BY <1>1, <1>2

\* A table's entry is written.
LEMMA TableSet ==
  ASSUME NEW d \in Database, Finite(d), NEW t \in Table, NEW state \in {"active", "dropped"}
  PROVE  LET e == [d EXCEPT !.table[t] = state]
         IN  /\ e \in Database /\ Finite(e) /\ e.table = [d.table EXCEPT ![t] = state]
             /\ e.field = d.field /\ e.index = d.index
             /\ e.part = d.part /\ e.row = d.row /\ e.records = d.records
<1>1. [d.table EXCEPT ![t] = state] \in [Table -> {"absent", "active", "dropped"}]
  BY DatabaseHas
<1> QED BY <1>1 DEF Database, Finite

\* The fields of a table are written.
LEMMA FieldSet ==
  ASSUME NEW d \in Database, Finite(d), NEW t \in Table, NEW fields \in Some(Datum)
  PROVE  LET e == [d EXCEPT !.field[t] = fields]
         IN  /\ e \in Database /\ Finite(e) /\ e.field = [d.field EXCEPT ![t] = fields]
             /\ e.table = d.table /\ e.index = d.index
             /\ e.part = d.part /\ e.row = d.row /\ e.records = d.records
<1>1. [d.field EXCEPT ![t] = fields] \in [Table -> Some(Datum)]
  BY DatabaseHas
<1> QED BY <1>1 DEF Database, Finite

\* The database after an index's entry and its parts are written.
IndexWritten(d, i, entry, parts) == [d EXCEPT !.index[i] = entry, !.part[i] = parts]

\* It is one.
LEMMA IndexSet ==
  ASSUME NEW d \in Database, Finite(d), NEW i \in Index, NEW entry \in IndexEntry,
         NEW parts \in Parts, IsFiniteSet(DOMAIN parts),
         NEW e, e = IndexWritten(d, i, entry, parts)
  PROVE  /\ e \in Database /\ Finite(e)
         /\ e.index = [d.index EXCEPT ![i] = entry] /\ e.part = [d.part EXCEPT ![i] = parts]
         /\ e.table = d.table /\ e.field = d.field
         /\ e.row = d.row /\ e.records = d.records
<1>1. /\ [d.index EXCEPT ![i] = entry] \in [Index -> IndexEntry \cup {NoIndex}]
      /\ [d.part EXCEPT ![i] = parts] \in [Index -> Parts]
      /\ d.part \in [Index -> Parts]
  BY DatabaseHas
<1>2. \A j \in Index : IsFiniteSet(DOMAIN [d.part EXCEPT ![i] = parts][j])
  BY <1>1 DEF Finite
<1>3. e = [d EXCEPT !.index = [d.index EXCEPT ![i] = entry], !.part = [d.part EXCEPT ![i] = parts]]
  BY DEF Database, IndexWritten
<1> QED BY <1>1, <1>2, <1>3 DEF Database, Finite

\* A statement on rows is one transaction that writes rows of an active table,
\* uniqueness enforced.
LEMMA RowStatementWrites ==
  ASSUME db \in Database, RowStatement
  PROVE  \E t \in Table : \E C \in SUBSET Row : \E rows \in [C -> RowEntry] :
           db' \in Materialize(db, t, rows, TRUE)
<1>1. PICK t \in Table :
        \/ \E w \in Row : \E values \in [DOMAIN db.field[t] -> Datum] : db' \in Insert(db, t, w, values)
        \/ \E C \in SUBSET Row :
             \/ \E assigned \in Some(Datum) : db' \in UpdateRows(db, t, C, assigned)
             \/ db' \in DeleteRows(db, t, C)
  <2>1. \A t \in Table : \A c, v : Matching(db, t, c, v) \in SUBSET Row
    BY DEF Matching, Visible
  <2>2. \A t \in Table : \A w \in Visible(db, t) : {w} \in SUBSET Row
    BY DEF Visible
  <2> QED BY <2>1, <2>2 DEF RowStatement, Commit
<1>2. ASSUME NEW w \in Row, NEW values \in [DOMAIN db.field[t] -> Datum], db' \in Insert(db, t, w, values)
      PROVE  \E C \in SUBSET Row : \E rows \in [C -> RowEntry] : db' \in Materialize(db, t, rows, TRUE)
  <2>1. \E rows \in [{w} -> RowEntry] : db' \in Materialize(db, t, rows, TRUE)
    BY <1>2, InsertWrites
  <2>2. {w} \in SUBSET Row
    OBVIOUS
  <2> QED BY <2>1, <2>2
<1>3. ASSUME NEW C \in SUBSET Row, NEW assigned \in Some(Datum), db' \in UpdateRows(db, t, C, assigned)
      PROVE  \E rows \in [C -> RowEntry] : db' \in Materialize(db, t, rows, TRUE)
  BY <1>3, UpdateWrites
<1>4. ASSUME NEW C \in SUBSET Row, db' \in DeleteRows(db, t, C)
      PROVE  \E rows \in [C -> RowEntry] : db' \in Materialize(db, t, rows, TRUE)
  BY <1>4, DeleteWrites
<1> QED BY <1>1, <1>2, <1>3, <1>4

\* A merged row or deletion is one transaction that writes a row.
LEMMA MergeWrites ==
  ASSUME db \in Database, Merge
  PROVE  \E t \in Table : \E C \in SUBSET Row : \E rows \in [C -> RowEntry] :
           db' \in Materialize(db, t, rows, FALSE)
<1>1. PICK t \in Table, w \in Row :
        \/ \E doc \in Some(Datum) : db' \in ReceiveRow(db, t, w, [state |-> "live", doc |-> doc])
        \/ db' \in ReceiveRow(db, t, w, Deleted)
  BY DEF Merge, Commit
<1>2. PICK row \in RowEntry : db' \in ReceiveRow(db, t, w, row)
  BY <1>1, LiveType, DeletedType
<1>3. \E rows \in [{w} -> RowEntry] : db' \in Materialize(db, t, rows, FALSE)
  BY <1>2, ReceiveWrites
<1>4. {w} \in SUBSET Row
  OBVIOUS
<1> QED BY <1>3, <1>4

\* What a statement on the catalog declares of a table, before the records of
\* the table's indexes are made again: a table, its fields and an index of it.
Declares(d, b, t) ==
  /\ b \in Database /\ Finite(b)
  /\ b.row = d.row /\ b.records = d.records
  /\ \A s \in Table : s # t => b.table[s] = d.table[s] /\ b.field[s] = d.field[s]
  /\ DOMAIN d.field[t] \subseteq DOMAIN b.field[t]
  /\ \A i \in Index :
       \/ b.index[i] = d.index[i] /\ b.part[i] = d.part[i]
       \/ i \in IndexesOf(b, t) /\ \E p \in DOMAIN b.part[i] : ~b.part[i][p].deleted

\* CREATE TABLE declares its table and its fields.
LEMMA CreateTableDeclares ==
  ASSUME NEW d \in Database, Finite(d), NEW t \in Table, NEW fields \in Some(Datum),
         NEW e \in CreateTable(d, t, fields)
  PROVE  \E b : Declares(d, b, t) /\ e \in RebuildTable(b, t)
<1> DEFINE created == [d EXCEPT !.table[t] = "active"]
           declared == [created EXCEPT !.field[t] = Overlay(fields, @)]
           f == Overlay(fields, d.field[t])
<1>1. e \in RebuildTable(declared, t)
  BY DEF CreateTable
<1>2. /\ created \in Database /\ Finite(created) /\ created.table = [d.table EXCEPT ![t] = "active"]
      /\ created.field = d.field /\ created.index = d.index
      /\ created.part = d.part /\ created.row = d.row /\ created.records = d.records
  BY TableSet
<1>3. d.field[t] \in Some(Datum)
  BY DatabaseHas
<1>4. f \in Some(Datum) /\ DOMAIN d.field[t] \subseteq DOMAIN f
  <2>1. f \in Some(Datum)
    BY <1>3, OverlaySome
  <2>2. DOMAIN d.field[t] \subseteq DOMAIN f
    BY DEF Overlay
  <2> QED BY <2>1, <2>2
<1>5. declared = [created EXCEPT !.field[t] = f]
  BY <1>2
<1> HIDE DEF created, f, declared
<1>6. /\ declared \in Database /\ Finite(declared)
      /\ declared.field = [created.field EXCEPT ![t] = f]
      /\ declared.table = created.table /\ declared.index = created.index
      /\ declared.part = created.part /\ declared.row = created.row
      /\ declared.records = created.records
  BY <1>2, <1>4, <1>5, FieldSet
<1>7. Declares(d, declared, t)
  BY <1>2, <1>4, <1>6, DatabaseHas DEF Declares
<1> QED BY <1>1, <1>7

\* ALTER TABLE ADD COLUMN declares a field.
LEMMA AddColumnDeclares ==
  ASSUME NEW d \in Database, Finite(d), NEW t \in Table, NEW c \in Column, NEW default \in Datum,
         NEW e \in AddColumn(d, t, c, default)
  PROVE  \E b : Declares(d, b, t) /\ e \in RebuildTable(b, t)
<1> DEFINE f == Overlay(d.field[t], Only(c, default))
           b == [d EXCEPT !.field[t] = f]
<1>1. e \in RebuildTable(b, t)
  BY DEF AddColumn
<1>2. Only(c, default) \in [{c} -> Datum]
  BY DEF Only
<1>3. Only(c, default) \in Some(Datum) /\ d.field[t] \in Some(Datum)
  BY <1>2, SomeMade, DatabaseHas
<1>4. f \in Some(Datum) /\ DOMAIN d.field[t] \subseteq DOMAIN f
  <2>1. f \in Some(Datum)
    BY <1>3, OverlaySome
  <2>2. DOMAIN d.field[t] \subseteq DOMAIN f
    BY DEF Overlay
  <2> QED BY <2>1, <2>2
<1> HIDE DEF f
<1>5. /\ b \in Database /\ Finite(b) /\ b.field = [d.field EXCEPT ![t] = f]
      /\ b.table = d.table /\ b.index = d.index
      /\ b.part = d.part /\ b.row = d.row /\ b.records = d.records
  BY <1>4, FieldSet
<1> HIDE DEF b
<1>6. Declares(d, b, t)
  BY <1>4, <1>5, DatabaseHas DEF Declares
<1> QED BY <1>1, <1>6

\* A definition of an index declares it, with a column at least.
LEMMA DefineIndexDeclares ==
  ASSUME Constants, NEW d \in Database, Finite(d), NEW i \in Index, NEW t \in Table,
         NEW columns \in Definitions, NEW unique \in BOOLEAN,
         NEW e \in DefineIndex(d, i, t, columns, unique)
  PROVE  \E b : Declares(d, b, t) /\ e \in RebuildTable(b, t)
<1> DEFINE parts == [p \in DOMAIN columns |-> [column |-> columns[p], deleted |-> FALSE]]
           entry == [state |-> "active", on |-> t, unique |-> unique]
           q == Overlay(d.part[i], parts)
           b == [d EXCEPT !.index[i] = entry, !.part[i] = q]
<1>1. e \in RebuildTable(b, t)
  BY DEF DefineIndex
<1>2. /\ columns \in Seq(Column) /\ columns # <<>>
      /\ DOMAIN columns = 1..Len(columns) /\ 1 \in DOMAIN columns
  BY DEF Constants
<1>3. DOMAIN columns \subseteq Position
  BY DEF Position
<1>4. parts \in [DOMAIN columns -> PartEntry]
  BY <1>2 DEF PartEntry
<1>5. parts \in Parts /\ d.part[i] \in Parts
  BY <1>3, <1>4, PartsIs, DatabaseHas
<1>6. DOMAIN parts = DOMAIN columns /\ ~parts[1].deleted
  BY <1>2
<1>7. IsFiniteSet(DOMAIN columns)
  BY <1>2, FS_Interval
<1> HIDE DEF parts
<1>8. q \in Parts /\ DOMAIN q = DOMAIN d.part[i] \cup DOMAIN parts /\ q[1] = parts[1]
  <2>1. q \in Parts
    BY <1>5, OverlayParts
  <2>2. DOMAIN q = DOMAIN d.part[i] \cup DOMAIN parts /\ q[1] = parts[1]
    BY <1>2, <1>6 DEF Overlay
  <2> QED BY <2>1, <2>2
<1>9. IsFiniteSet(DOMAIN q)
  <2>1. IsFiniteSet(DOMAIN d.part[i]) /\ IsFiniteSet(DOMAIN parts)
    BY <1>6, <1>7 DEF Finite
  <2>2. IsFiniteSet(DOMAIN d.part[i] \cup DOMAIN parts)
    BY <2>1, FS_Union
  <2> QED BY <1>8, <2>2
<1>10. entry \in IndexEntry /\ entry.state = "active" /\ entry.on = t
  BY DEF IndexEntry
<1>11. b = IndexWritten(d, i, entry, q)
  BY DEF IndexWritten
<1> HIDE DEF q, entry, b
<1>12. /\ b \in Database /\ Finite(b)
       /\ b.index = [d.index EXCEPT ![i] = entry] /\ b.part = [d.part EXCEPT ![i] = q]
       /\ b.table = d.table /\ b.field = d.field
       /\ b.row = d.row /\ b.records = d.records
  BY <1>8, <1>9, <1>10, <1>11, IndexSet
<1>13. b.index[i] = entry /\ b.part[i] = q
  BY <1>12, DatabaseHas
<1>14. i \in IndexesOf(b, t) /\ \E p \in DOMAIN b.part[i] : ~b.part[i][p].deleted
  BY <1>2, <1>6, <1>8, <1>10, <1>13 DEF IndexesOf
<1>15. \A j \in Index : j # i => b.index[j] = d.index[j] /\ b.part[j] = d.part[j]
  BY <1>12, DatabaseHas
<1>16. Declares(d, b, t)
  BY <1>12, <1>14, <1>15 DEF Declares
<1> QED BY <1>1, <1>16

\* A statement on the catalog that declares of a table, once or twice in the same
\* transaction.
Builds(d, t, e) == \E b : Declares(d, b, t) /\ e \in RebuildTable(b, t)

\* Statements on the catalog declare, or drop.
LEMMA CatalogCases ==
  ASSUME Constants, db \in Database, Finite(db), CatalogStatement
  PROVE  \/ \E t \in Table :
              \/ Builds(db, t, db')
              \/ \E e : Builds(db, t, e) /\ Builds(e, t, db')
              \/ db' \in DropTable(db, t)
         \/ \E i \in Index : db' \in DropIndex(db, i)
<1>1. Defaults \subseteq Datum
  BY DEF Constants
<1>2. ASSUME NEW f \in Some(Defaults)
      PROVE  f \in Some(Datum)
  <2>1. DOMAIN f \in SUBSET Column /\ f \in [DOMAIN f -> Defaults]
    BY SomeHas
  <2>2. f \in [DOMAIN f -> Datum]
    BY <1>1, <2>1
  <2> QED BY <2>1, <2>2, SomeMade
<1>3. ASSUME NEW t \in Table, NEW f \in Some(Defaults), NEW e \in CreateTable(db, t, f)
      PROVE  Builds(db, t, e)
  BY <1>2, CreateTableDeclares DEF Builds
<1>4. ASSUME NEW t \in Table, NEW c \in Column, NEW v \in Defaults, NEW e \in AddColumn(db, t, c, v)
      PROVE  Builds(db, t, e)
  BY <1>1, AddColumnDeclares DEF Builds
<1>5. ASSUME NEW d \in Database, Finite(d), NEW t \in Table, NEW i \in Index,
             NEW columns \in Definitions, NEW u \in BOOLEAN,
             NEW e \in DefineIndex(d, i, t, columns, u)
      PROVE  Builds(d, t, e)
  BY <1>5, DefineIndexDeclares DEF Builds
<1>6. CASE \E t \in Table :
             \/ \E fields \in Some(Defaults) : db' \in CreateTable(db, t, fields)
             \/ db' \in DropTable(db, t)
             \/ \E c \in Column, default \in Defaults : db' \in AddColumn(db, t, c, default)
  BY <1>3, <1>4, <1>6
<1>7. ASSUME NEW t \in Table, NEW i \in Index, NEW columns \in Definitions, NEW u \in BOOLEAN,
             NEW ifNotExists \in BOOLEAN, db' \in CreateIndex(db, i, t, columns, u, ifNotExists)
      PROVE  Builds(db, t, db')
  <2>1. db' \in DefineIndex(db, i, t, columns, u)
    BY <1>7 DEF CreateIndex
  <2> QED BY <1>5, <2>1
<1>8. ASSUME NEW t \in Table, NEW i \in Index, NEW columns \in Definitions, NEW u \in BOOLEAN,
             NEW fields \in Some(Defaults),
             db' \in CreateTableWithIndex(db, t, fields, i, columns, u)
      PROVE  \E e : Builds(db, t, e) /\ Builds(e, t, db')
  <2>1. PICK e \in CreateTable(db, t, fields) : db' \in DefineIndex(e, i, t, columns, u)
    BY <1>8 DEF CreateTableWithIndex
  <2>2. Builds(db, t, e)
    BY <1>3
  <2>3. e \in Database /\ Finite(e)
    BY <2>2, RebuildType DEF Builds, Declares
  <2>4. Builds(e, t, db')
    BY <1>5, <2>1, <2>3
  <2> QED BY <2>2, <2>4
<1> QED BY <1>6, <1>7, <1>8 DEF CatalogStatement, Commit

\* DROP TABLE marks the entry of the table.
LEMMA DropTableIs ==
  ASSUME NEW d \in Database, Finite(d), NEW t \in Table, NEW e \in DropTable(d, t)
  PROVE  /\ e \in Database /\ Finite(e) /\ e.table = [d.table EXCEPT ![t] = "dropped"]
         /\ e.field = d.field /\ e.index = d.index
         /\ e.part = d.part /\ e.row = d.row /\ e.records = d.records
<1>1. e = [d EXCEPT !.table[t] = "dropped"]
  BY DEF DropTable
<1> QED BY <1>1, TableSet

\* DROP INDEX marks the entry of the index and its parts, and removes its records.
LEMMA DropIndexIs ==
  ASSUME NEW d \in Database, Finite(d), NEW i \in Index, NEW e \in DropIndex(d, i)
  PROVE  /\ e \in Database /\ Finite(e)
         /\ e.table = d.table /\ e.field = d.field /\ e.row = d.row
         /\ e.index[i].state = "dropped"
         /\ \A j \in Index : j # i => /\ e.index[j] = d.index[j] /\ e.part[j] = d.part[j]
                                  /\ e.records[j] = d.records[j]
<1> DEFINE entry == [d.index[i] EXCEPT !.state = "dropped"]
           parts == [p \in DOMAIN d.part[i] |-> [d.part[i][p] EXCEPT !.deleted = TRUE]]
           b == IndexWritten(d, i, entry, parts)
           records == [d.records EXCEPT ![i] = {}]
<1>1. d.index[i].state = "active" /\ e = [d EXCEPT !.index[i].state = "dropped",
                  !.part[i] = [p \in DOMAIN @ |-> [@[p] EXCEPT !.deleted = TRUE]],
                  !.records[i] = {}]
  BY DEF DropIndex, Exists
<1>2. d.index[i] \in IndexEntry
  <2>1. d.index[i] \in IndexEntry \cup {NoIndex}
    BY DatabaseHas
  <2> QED BY <1>1, <2>1 DEF NoIndex
<1>3. entry \in IndexEntry /\ entry.state = "dropped"
  BY <1>2 DEF IndexEntry
<1>4. d.part[i] \in Parts
  BY DatabaseHas
<1>5. PICK P \in SUBSET Position : d.part[i] \in [P -> PartEntry]
  BY <1>4, PartsIs
<1>6. parts \in [P -> PartEntry] /\ DOMAIN parts = DOMAIN d.part[i]
  BY <1>5 DEF PartEntry
<1>7. parts \in Parts /\ IsFiniteSet(DOMAIN parts)
  BY <1>6, PartsIs DEF Finite
<1>8. e = [b EXCEPT !.records = records]
  BY <1>1 DEF IndexWritten, Database
<1> HIDE DEF entry, parts, b
<1>9. /\ b \in Database /\ Finite(b)
      /\ b.index = [d.index EXCEPT ![i] = entry] /\ b.part = [d.part EXCEPT ![i] = parts]
      /\ b.table = d.table /\ b.field = d.field
      /\ b.row = d.row /\ b.records = d.records
  BY <1>3, <1>7, IndexSet DEF b
<1>10. records \in [Index -> SUBSET IndexRecord]
  BY DatabaseHas
<1>11. \A j \in Index : j # i => records[j] = d.records[j]
  BY DatabaseHas
<1> HIDE DEF records
<1>12. e \in Database
  BY <1>8, <1>9, <1>10 DEF Database
<1>13. /\ e.table = b.table /\ e.field = b.field /\ e.row = b.row /\ e.index = b.index
       /\ e.part = b.part /\ e.records = records
  BY <1>8, <1>9 DEF Database
<1>14. e.index[i] = entry /\ Finite(e)
  BY <1>9, <1>13, DatabaseHas DEF Finite
<1> QED BY <1>3, <1>9, <1>11, <1>12, <1>13, <1>14, DatabaseHas

-----------------------------------------------------------------------------
(* Type correctness *)

\* The database is one, and the parts of its indexes are finitely many.
Typed == TypeOK /\ Finite(db)

\* What a peer's catalog entry leaves is a database.
LEMMA ImportType ==
  ASSUME Constants, Typed, Import
  PROVE  Typed'
<1>1. db \in Database /\ Finite(db)
  BY DEF Typed, TypeOK
<1> SUFFICES db' \in Database /\ Finite(db')
  BY DEF Typed, TypeOK, Finite
<1>2. ASSUME NEW t \in Table, NEW state \in {"active", "dropped"}, db' \in ReceiveTable(db, t, state)
      PROVE  db' \in Database /\ Finite(db')
  <2>1. db' = [db EXCEPT !.table[t] = state]
    BY <1>2 DEF ReceiveTable
  <2> QED BY <1>1, <2>1, TableSet
<1>3. ASSUME NEW t \in Table, NEW c \in Column, NEW default \in Defaults,
             db' \in ReceiveField(db, t, c, default)
      PROVE  db' \in Database /\ Finite(db')
  <2> DEFINE f == Overlay(db.field[t], Only(c, default))
  <2>1. default \in Datum
    BY DEF Constants
  <2>2. Only(c, default) \in [{c} -> Datum]
    BY <2>1 DEF Only
  <2>3. Only(c, default) \in Some(Datum) /\ db.field[t] \in Some(Datum)
    BY <1>1, <2>2, SomeMade, DatabaseHas
  <2>4. f \in Some(Datum)
    BY <2>3, OverlaySome
  <2>5. db' = [db EXCEPT !.field[t] = f]
    BY <1>3 DEF ReceiveField
  <2> HIDE DEF f
  <2> QED BY <1>1, <2>4, <2>5, FieldSet
<1>4. ASSUME NEW i \in Index, NEW entry \in IndexEntry, db' \in ReceiveIndex(db, i, entry)
      PROVE  db' \in Database /\ Finite(db')
  <2>1. db' = IndexWritten(db, i, entry, db.part[i])
    <3>1. [db.part EXCEPT ![i] = db.part[i]] = db.part
      BY <1>1, DatabaseHas
    <3>2. db' = [db EXCEPT !.index[i] = entry]
      BY <1>4 DEF ReceiveIndex
    <3>3. IndexWritten(db, i, entry, db.part[i]) =
            [db EXCEPT !.index[i] = entry, !.part = [db.part EXCEPT ![i] = db.part[i]]]
      BY <1>1 DEF IndexWritten, Database
    <3> QED BY <1>1, <3>1, <3>2, <3>3 DEF Database
  <2>2. db.part[i] \in Parts /\ IsFiniteSet(DOMAIN db.part[i])
    BY <1>1, DatabaseHas DEF Finite
  <2> QED BY <1>1, <2>1, <2>2, IndexSet
<1>5. ASSUME NEW i \in Index, NEW p \in Position, NEW entry \in PartEntry,
             db' \in ReceivePart(db, i, p, entry)
      PROVE  db' \in Database /\ Finite(db')
  <2> DEFINE parts == Overlay(db.part[i], Only(p, entry))
  <2>1. Only(p, entry) \in [{p} -> PartEntry] /\ {p} \in SUBSET Position
    BY DEF Only
  <2>2. Only(p, entry) \in Parts /\ db.part[i] \in Parts /\ IsFiniteSet(DOMAIN db.part[i])
    BY <1>1, <2>1, PartsIs, DatabaseHas DEF Finite
  <2>3. parts \in Parts
    BY <2>2, OverlayParts
  <2>4. IsFiniteSet(DOMAIN parts)
    <3>1. DOMAIN parts = DOMAIN db.part[i] \cup {p}
      BY DEF Overlay, Only
    <3> QED BY <2>2, <3>1, FS_AddElement
  <2>5. db' = [db EXCEPT !.part = [db.part EXCEPT ![i] = parts]]
    BY <1>5 DEF ReceivePart
  <2> HIDE DEF parts
  <2>6. db' \in Database
    BY <1>1, <2>3, <2>5, DatabaseHas DEF Database
  <2>7. \A j \in Index : db'.part[j] = IF j = i THEN parts ELSE db.part[j]
    BY <1>1, <2>5, DatabaseHas DEF Database
  <2> QED BY <1>1, <2>4, <2>6, <2>7 DEF Finite
<1> QED BY <1>2, <1>3, <1>4, <1>5 DEF Import, Commit

\* Every transaction commits a database.
LEMMA TypedStep ==
  ASSUME Constants, Typed, [Next]_db
  PROVE  Typed'
<1>1. db \in Database /\ Finite(db)
  BY DEF Typed, TypeOK
<1>2. CASE RowStatement
  <2>1. db' \in Database /\ Finite(db')
    BY <1>1, <1>2, RowStatementWrites, MaterializeType
  <2> QED BY <2>1 DEF Typed, TypeOK, Finite
<1>3. CASE CatalogStatement
  <2>1. ASSUME NEW d, NEW t \in Table, NEW e, Builds(d, t, e)
        PROVE  e \in Database /\ Finite(e)
    <3>1. PICK b : Declares(d, b, t) /\ e \in RebuildTable(b, t)
      BY <2>1 DEF Builds
    <3>2. b \in Database /\ Finite(b)
      BY <3>1 DEF Declares
    <3> QED BY <3>1, <3>2, RebuildType
  <2>2. db' \in Database /\ Finite(db')
    BY <1>1, <1>3, <2>1, CatalogCases, DropTableIs, DropIndexIs
  <2> QED BY <2>2 DEF Typed, TypeOK, Finite
<1>4. CASE Merge
  <2>1. db' \in Database /\ Finite(db')
    BY <1>1, <1>4, MergeWrites, MaterializeType
  <2> QED BY <2>1 DEF Typed, TypeOK, Finite
<1>5. CASE Import
  BY <1>5, ImportType
<1>6. CASE UNCHANGED db
  BY <1>6 DEF Typed, TypeOK, Finite
<1> QED BY <1>2, <1>3, <1>4, <1>5, <1>6 DEF Next, Local

\* An engine starts with an empty database.
LEMMA InitTyped == Init => Typed
<1> SUFFICES ASSUME Init
             PROVE  Typed
  OBVIOUS
<1>1. NoFunction \in [{} -> Datum]
  BY DEF NoFunction
<1>2. NoFunction \in Some(Datum)
  BY <1>1, SomeMade
<1> DEFINE none == [p \in {} |-> Null]
<1>3. none \in [{} -> PartEntry] /\ DOMAIN none = {}
  OBVIOUS
<1>4. none \in Parts /\ IsFiniteSet(DOMAIN none)
  BY <1>3, PartsIs, FS_EmptySet
<1>5. [state |-> "none", doc |-> NoFunction] \in RowEntry
  BY <1>2 DEF RowEntry
<1> HIDE DEF none
<1>6. db = [table |-> [t \in Table |-> "absent"],
            field |-> [t \in Table |-> NoFunction],
            index |-> [i \in Index |-> NoIndex],
            part |-> [i \in Index |-> none],
            row |-> [t \in Table |-> [w \in Row |-> [state |-> "none", doc |-> NoFunction]]],
            records |-> [i \in Index |-> {}]]
  BY DEF Init, none
<1>7. db \in Database
  BY <1>2, <1>4, <1>5, <1>6 DEF Database
<1> QED BY <1>4, <1>6, <1>7 DEF Typed, TypeOK, Finite

\* The database is well formed, and so is what its indexes hold: at all times an
\* engine has a database, whatever peers send.
THEOREM TypeCorrect ==
  ASSUME Constants
  PROVE  Spec => []TypeOK
<1>1. Init => Typed
  BY InitTyped
<1>2. Typed /\ [Next]_db => Typed'
  BY TypedStep
<1>3. Typed => TypeOK
  BY DEF Typed
<1> QED BY <1>1, <1>2, <1>3, PTL DEF Spec

-----------------------------------------------------------------------------
(* The records of an index are those of the visible rows *)

\* A visible row of the table has the record.
Holds(d, i, t, r) == \E w \in Visible(d, t) : r = Record(d, i, w, Values(d, t, w))

\* An index is exact when it has the records its rows hold and no others.
ExactAt(d, i, t) == \A r : r \in d.records[i] <=> Holds(d, i, t, r)

\* The indexes of a table are exact when each one that is complete is.
LEMMA ExactIs ==
  ASSUME NEW d, NEW t
  PROVE  Exact(d, t) <=> \A i \in Ready(d, t) : ExactAt(d, i, t)
<1>1. ASSUME NEW i
      PROVE  d.records[i] = {Record(d, i, w, Values(d, t, w)) : w \in Visible(d, t)} <=> ExactAt(d, i, t)
  <2> DEFINE S == {Record(d, i, w, Values(d, t, w)) : w \in Visible(d, t)}
  <2>1. \A r : r \in S <=> Holds(d, i, t, r)
    BY DEF Holds
  <2> HIDE DEF S
  <2>2. d.records[i] = S <=> \A r : r \in d.records[i] <=> r \in S
    OBVIOUS
  <2> QED BY <2>1, <2>2 DEF ExactAt, S
<1> QED BY <1>1 DEF Exact

\* An index whose entry, parts and table are as they were reads as it did.
LEMMA Elsewhere ==
  ASSUME NEW d, NEW e, NEW i \in Index, NEW t \in Table, d.index[i].on = t,
         e.index[i] = d.index[i], e.part[i] = d.part[i],
         e.table[t] = d.table[t], e.field[t] = d.field[t], e.row[t] = d.row[t]
  PROVE  /\ i \in Ready(e, t) <=> i \in Ready(d, t)
         /\ e.records[i] = d.records[i] => (ExactAt(e, i, t) <=> ExactAt(d, i, t))
         /\ \A w \in Row, x \in Row : Contend(e, i, w, x) <=> Contend(d, i, w, x)
<1>1. /\ IndexColumns(e, i) = IndexColumns(d, i)
      /\ \A values : Key(e, i, values) = Key(d, i, values)
      /\ \A w, values : Record(e, i, w, values) = Record(d, i, w, values)
  BY SameColumns
<1>2. \A w \in Row : /\ Values(e, t, w) = Values(d, t, w)
                     /\ w \in Visible(e, t) <=> w \in Visible(d, t)
  BY SameValues
<1>3. Resolves(e, i) <=> Resolves(d, i)
  BY <1>1 DEF Resolves
<1>4. i \in Ready(e, t) <=> i \in Ready(d, t)
  BY <1>1, <1>3 DEF Ready, IndexesOf
<1>5. Visible(e, t) \subseteq Row /\ Visible(d, t) \subseteq Row
  BY DEF Visible
<1>6. \A r : Holds(e, i, t, r) <=> Holds(d, i, t, r)
  BY <1>1, <1>2, <1>5 DEF Holds
<1>7. e.records[i] = d.records[i] => (ExactAt(e, i, t) <=> ExactAt(d, i, t))
  BY <1>6 DEF ExactAt
<1>8. \A w \in Row, x \in Row : Contend(e, i, w, x) <=> Contend(d, i, w, x)
  BY <1>1, <1>2 DEF Contend, Active
<1> QED BY <1>4, <1>7, <1>8

\* Two rows have no record of an index in common.
LEMMA RowOfRecord ==
  ASSUME NEW d, NEW i, NEW w, NEW x, NEW u, NEW v, Record(d, i, w, u) = Record(d, i, x, v)
  PROVE  w = x
BY DEF Record

\* A transaction that writes rows keeps an exact index exact: of the rows it
\* writes the records go and come with their values, of the others they stay.
LEMMA MaterializeExact ==
  ASSUME NEW d \in Database, Finite(d), NEW t \in Table, NEW C \in SUBSET Row,
         NEW rows \in [C -> RowEntry], NEW enforce, NEW e \in Materialize(d, t, rows, enforce)
  PROVE  /\ e.table = d.table /\ e.field = d.field /\ e.index = d.index /\ e.part = d.part
         /\ \A s \in Table : s # t => e.row[s] = d.row[s]
         /\ \A i \in Index : i \notin IndexesOf(d, t) => e.records[i] = d.records[i]
         /\ \A i \in IndexesOf(d, t) : ExactAt(d, i, t) => ExactAt(e, i, t)
<1> DEFINE b == Written(d, t, rows)
<1>1. /\ b \in Database /\ Finite(b)
      /\ b.table = d.table /\ b.field = d.field /\ b.index = d.index
      /\ b.part = d.part /\ b.records = d.records
      /\ \A s \in Table : s # t => b.row[s] = d.row[s]
      /\ \A w \in Row \ C : b.row[t][w] = d.row[t][w]
  BY WrittenIs
<1>2. e \in UpdateRecords(b, t, C, Read(d, t), Read(b, t), enforce)
  BY DEF Materialize, Written
<1> HIDE DEF b
<1>3. IndexesOf(b, t) = IndexesOf(d, t) /\ IndexesOf(d, t) \subseteq Index
  BY <1>1 DEF IndexesOf
<1>4. /\ e.table = b.table /\ e.field = b.field /\ e.index = b.index
      /\ e.part = b.part /\ e.row = b.row
      /\ \A i \in IndexesOf(b, t) : e.records[i] = Moved(b, i, C, Read(d, t), Read(b, t))
      /\ \A i \in Index : i \notin IndexesOf(b, t) => e.records[i] = b.records[i]
  BY <1>1, <1>2, Updated
<1>5. ASSUME NEW i \in IndexesOf(d, t), ExactAt(d, i, t)
      PROVE  ExactAt(e, i, t)
  <2>1. \A w, values : /\ Record(b, i, w, values) = Record(d, i, w, values)
                       /\ Record(e, i, w, values) = Record(d, i, w, values)
    BY <1>1, <1>4, SameColumns
  <2>2. \A w \in Row : /\ Values(e, t, w) = Values(b, t, w)
                       /\ w \in Visible(e, t) <=> w \in Visible(b, t)
    BY <1>4, SameValues
  <2>3. \A w \in Row \ C : /\ Values(b, t, w) = Values(d, t, w)
                           /\ w \in Visible(b, t) <=> w \in Visible(d, t)
    BY <1>1, SameValues
  <2>4. /\ Visible(d, t) \subseteq Row /\ Visible(b, t) \subseteq Row
        /\ Visible(e, t) \subseteq Row
    BY DEF Visible
  <2>5. ASSUME NEW r
        PROVE  r \in RecordsOf(b, i, C, Read(d, t)) <=>
                 \E w \in C : w \in Visible(d, t) /\ r = Record(d, i, w, Values(d, t, w))
    BY <2>1, RecordsOfRead
  <2>6. ASSUME NEW r
        PROVE  r \in RecordsOf(b, i, C, Read(b, t)) <=>
                 \E w \in C : w \in Visible(b, t) /\ r = Record(d, i, w, Values(b, t, w))
    BY <2>1, RecordsOfRead
  <2>7. ASSUME NEW r
        PROVE  r \in e.records[i] <=>
                 \/ r \in d.records[i] /\ r \notin RecordsOf(b, i, C, Read(d, t))
                 \/ r \in RecordsOf(b, i, C, Read(b, t))
    BY <1>1, <1>3, <1>4 DEF Moved
  <2>8. ASSUME NEW r, r \in e.records[i]
        PROVE  Holds(e, i, t, r)
    <3>1. CASE r \in RecordsOf(b, i, C, Read(b, t))
      BY <2>1, <2>2, <2>4, <2>6, <3>1 DEF Holds
    <3>2. CASE r \in d.records[i] /\ r \notin RecordsOf(b, i, C, Read(d, t))
      <4>1. PICK w \in Visible(d, t) : r = Record(d, i, w, Values(d, t, w))
        BY <1>5, <3>2 DEF ExactAt, Holds
      <4>2. w \in Row \ C
        BY <2>4, <2>5, <3>2, <4>1
      <4>3. w \in Visible(e, t) /\ Values(e, t, w) = Values(d, t, w)
        BY <2>2, <2>3, <4>1, <4>2
      <4> QED BY <2>1, <4>1, <4>3 DEF Holds
    <3> QED BY <2>7, <2>8, <3>1, <3>2
  <2>9. ASSUME NEW w \in Visible(e, t)
        PROVE  Record(e, i, w, Values(e, t, w)) \in e.records[i]
    <3> DEFINE r == Record(e, i, w, Values(e, t, w))
    <3>1. r = Record(d, i, w, Values(b, t, w)) /\ w \in Visible(b, t)
      BY <2>1, <2>2, <2>4
    <3>2. CASE w \in C
      <4>1. r \in RecordsOf(b, i, C, Read(b, t))
        BY <2>6, <3>1, <3>2
      <4> QED BY <2>7, <4>1
    <3>3. CASE w \notin C
      <4>1. w \in Visible(d, t) /\ r = Record(d, i, w, Values(d, t, w))
        BY <2>3, <2>4, <3>1, <3>3
      <4>2. r \in d.records[i]
        BY <1>5, <4>1 DEF ExactAt, Holds
      <4>3. r \notin RecordsOf(b, i, C, Read(d, t))
        BY <2>5, <3>3, <4>1, RowOfRecord
      <4> QED BY <2>7, <4>2, <4>3
    <3> QED BY <3>2, <3>3
  <2> QED BY <2>8, <2>9 DEF ExactAt, Holds
<1> QED BY <1>1, <1>3, <1>4, <1>5

\* A transaction that makes the records of a table again makes its indexes exact,
\* whatever they had, and no two of its rows contend.
LEMMA RebuildExact ==
  ASSUME Constants, NEW d \in Database, Finite(d), NEW t \in Table, NEW e \in RebuildTable(d, t)
  PROVE  /\ e.table = d.table /\ e.field = d.field /\ e.index = d.index
         /\ e.part = d.part /\ e.row = d.row
         /\ \A i \in Index : i \notin IndexesOf(d, t) => e.records[i] = d.records[i]
         /\ \A i \in IndexesOf(d, t) : ExactAt(e, i, t)
         /\ \A i \in IndexesOf(d, t), w \in Row, x \in Row : ~Contend(e, i, w, x)
<1> DEFINE b == Cleared(d, t)
           V == Visible(d, t)
<1>1. /\ b \in Database /\ Finite(b)
      /\ b.table = d.table /\ b.field = d.field /\ b.index = d.index
      /\ b.part = d.part /\ b.row = d.row
      /\ \A i \in IndexesOf(d, t) : b.records[i] = {}
      /\ \A i \in Index : i \notin IndexesOf(d, t) => b.records[i] = d.records[i]
  BY ClearedIs
<1>2. e \in UpdateRecords(b, t, V, NoneRead, Read(d, t), TRUE)
  BY RebuildType
<1> HIDE DEF b
<1>3. IndexesOf(b, t) = IndexesOf(d, t) /\ IndexesOf(d, t) \subseteq Index /\ V \subseteq Row
  BY <1>1 DEF IndexesOf, Visible
<1> HIDE DEF V
<1>4. /\ e.table = b.table /\ e.field = b.field /\ e.index = b.index
      /\ e.part = b.part /\ e.row = b.row
      /\ \A i \in IndexesOf(b, t) : e.records[i] = Moved(b, i, V, NoneRead, Read(d, t))
      /\ \A i \in Index : i \notin IndexesOf(b, t) => e.records[i] = b.records[i]
      /\ \A i \in IndexesOf(b, t), w \in V : ~RowClashes(b, i, V, NoneRead, Read(d, t), w)
  <2> DEFINE new == Read(d, t)
             enforce == TRUE
  <2>1. \A i \in IndexesOf(b, t), w \in V : ~RowClashes(b, i, V, NoneRead, new, w)
    BY <1>2 DEF UpdateRecords
  <2>2. e \in UpdateRecords(b, t, V, NoneRead, new, enforce)
    BY <1>2
  <2> HIDE DEF new, enforce
  <2>3. /\ e.table = b.table /\ e.field = b.field /\ e.index = b.index
        /\ e.part = b.part /\ e.row = b.row
    BY <1>1, <2>2, Updated
  <2>4. /\ \A i \in IndexesOf(b, t) : e.records[i] = Moved(b, i, V, NoneRead, new)
        /\ \A i \in Index : i \notin IndexesOf(b, t) => e.records[i] = b.records[i]
    BY <1>1, <2>2, Updated
  <2> QED BY <2>1, <2>3, <2>4 DEF new
<1>5. \A w \in Row : /\ Values(e, t, w) = Values(d, t, w)
                     /\ w \in Visible(e, t) <=> w \in V
  BY <1>1, <1>4, SameValues DEF V
<1>6. ASSUME NEW i \in IndexesOf(d, t)
      PROVE  \A w, values : /\ Record(b, i, w, values) = Record(e, i, w, values)
                            /\ Key(b, i, values) = Key(e, i, values)
  BY <1>1, <1>4, SameColumns
<1>7. ASSUME NEW i, NEW W \in SUBSET V, NEW r
      PROVE  /\ r \in RecordsOf(b, i, W, Read(d, t)) <=>
                  \E w \in W : r = Record(b, i, w, Values(d, t, w))
             /\ r \notin RecordsOf(b, i, W, NoneRead)
  <2>1. W \in SUBSET Row
    BY <1>3
  <2>2. r \notin RecordsOf(b, i, W, NoneRead)
    BY <2>1, RecordsOfIs DEF NoneRead
  <2> QED BY <2>1, <2>2, RecordsOfRead DEF V
<1>8. ASSUME NEW i \in IndexesOf(d, t), NEW W \in SUBSET V, NEW r
      PROVE  r \in Moved(b, i, W, NoneRead, Read(d, t)) <=>
               \E w \in W : r = Record(e, i, w, Values(e, t, w))
  <2>1. W \subseteq Row
    BY <1>3
  <2>2. r \in Moved(b, i, W, NoneRead, Read(d, t)) <=> r \in RecordsOf(b, i, W, Read(d, t))
    BY <1>1 DEF Moved
  <2> QED BY <1>5, <1>6, <1>7, <2>1, <2>2
<1>9. ASSUME NEW i \in IndexesOf(d, t)
      PROVE  ExactAt(e, i, t)
  <2>1. Visible(e, t) = V
    BY <1>3, <1>5 DEF Visible
  <2>2. V \in SUBSET V
    OBVIOUS
  <2>3. \A r : r \in Moved(b, i, V, NoneRead, Read(d, t)) <=>
               \E w \in V : r = Record(e, i, w, Values(e, t, w))
    BY <1>8, <2>2
  <2> QED BY <1>3, <1>4, <2>1, <2>3 DEF ExactAt, Holds
<1>10. ASSUME NEW i \in IndexesOf(d, t), NEW w \in Row, NEW x \in Row, Contend(e, i, w, x)
       PROVE  FALSE
  <2> DEFINE r == Record(b, i, x, Values(d, t, x))
             s == Record(b, i, w, Values(d, t, w))
             W == {y \in V : y < x}
             before == Moved(b, i, W, NoneRead, Read(d, t))
  <2>1. /\ e.index[i].unique /\ w < x /\ w \in V /\ x \in V
        /\ Key(e, i, Values(e, t, w)) = Key(e, i, Values(e, t, x))
        /\ \A k \in DOMAIN Key(e, i, Values(e, t, w)) : Key(e, i, Values(e, t, w))[k] # Null
    <3>1. e.index[i].on = t
      BY <1>1, <1>4 DEF IndexesOf
    <3> QED BY <1>5, <1>10, <3>1 DEF Contend
  <2>2. /\ r.key = Key(e, i, Values(e, t, w)) /\ s.key = Key(e, i, Values(e, t, w))
        /\ s.row = w
    BY <1>5, <1>6, <2>1 DEF Record
  <2>3. W \in SUBSET V /\ w \in W
    BY <2>1
  <2>4. s = Record(e, i, w, Values(e, t, w))
    BY <1>5, <1>6
  <2> HIDE DEF W
  <2>5. s \in before
    BY <1>8, <2>3, <2>4
  <2>6. s \notin RecordsOf(b, i, {x}, NoneRead)
    BY <1>7, <2>1
  <2>7. r \in RecordsOf(b, i, {x}, Read(d, t))
    BY <1>7, <2>1
  <2>8. IsPrefix(r.key, s.key)
    <3>1. Len(s.key) \in Nat
      <4>1. i \in Index
        BY <1>3
      <4>2. PICK n \in Nat : DOMAIN IndexColumns(b, i) = 1..n
        BY <1>1, <4>1, ColumnsSequence
      <4>3. DOMAIN s.key = 1..n /\ s.key \in [1..n -> {s.key[k] : k \in 1..n}]
        BY <4>2 DEF Record, Key
      <4> QED BY <4>3
    <3> QED BY <2>2, <3>1 DEF IsPrefix
  <2>9. Clashes(b, i, before \ RecordsOf(b, i, {x}, NoneRead), r)
    BY <1>1, <1>4, <2>1, <2>2, <2>5, <2>6, <2>8 DEF Clashes
  <2>10. RowClashes(b, i, V, NoneRead, Read(d, t), x)
    BY <2>7, <2>9 DEF RowClashes, W
  <2> QED BY <1>3, <1>4, <2>1, <2>10
<1> QED BY <1>1, <1>3, <1>4, <1>9, <1>10

\* A key is a prefix of itself.
LEMMA OwnPrefix ==
  ASSUME NEW d, Finite(d), NEW i \in Index, NEW v
  PROVE  Len(Key(d, i, v)) \in Nat /\ IsPrefix(Key(d, i, v), Key(d, i, v))
<1> DEFINE key == Key(d, i, v)
<1>1. PICK n \in Nat : DOMAIN IndexColumns(d, i) = 1..n
  BY ColumnsSequence
<1>2. DOMAIN key = 1..n /\ key \in [1..n -> {key[k] : k \in 1..n}]
  BY <1>1 DEF Key
<1>3. Len(key) \in Nat
  BY <1>2
<1> HIDE DEF key
<1>4. IsPrefix(key, key)
  BY <1>3 DEF IsPrefix
<1> QED BY <1>3, <1>4 DEF key

\* A statement on rows adds no contenders to a unique key: of two of its table,
\* the one it wrote, or wrote last, would have found the record of the other.
LEMMA MaterializeUnique ==
  ASSUME NEW d \in Database, Finite(d), NEW t \in Table, NEW C \in SUBSET Row, Row \subseteq Nat,
         NEW rows \in [C -> RowEntry], NEW e \in Materialize(d, t, rows, TRUE),
         NEW i \in IndexesOf(d, t), ExactAt(d, i, t),
         NEW w \in Row, NEW x \in Row, Contend(e, i, w, x)
  PROVE  Contend(d, i, w, x)
<1> DEFINE b == Written(d, t, rows)
           old == Read(d, t)
           new == Read(b, t)
           enforce == TRUE
<1>1. /\ b \in Database /\ Finite(b)
      /\ b.table = d.table /\ b.field = d.field /\ b.index = d.index
      /\ b.part = d.part /\ b.records = d.records
      /\ \A y \in Row \ C : b.row[t][y] = d.row[t][y]
  BY WrittenIs
<1>2. e \in UpdateRecords(b, t, C, old, new, enforce)
  BY DEF Materialize, Written
<1>3. i \in Index /\ i \in IndexesOf(b, t) /\ d.index[i].on = t
  BY <1>1 DEF IndexesOf
<1>4. \A z \in C : ~RowClashes(b, i, C, old, new, z)
  BY <1>2, <1>3 DEF UpdateRecords
<1> HIDE DEF b, enforce
<1>5. /\ e.table = b.table /\ e.field = b.field /\ e.index = b.index
      /\ e.part = b.part /\ e.row = b.row
  BY <1>1, <1>2, Updated
<1>6. \A y \in Row : Values(e, t, y) = Values(b, t, y) /\ (y \in Visible(e, t) <=> y \in Visible(b, t))
  BY <1>5, SameValues
<1>7. \A y \in Row \ C : Values(b, t, y) = Values(d, t, y) /\ (y \in Visible(b, t) <=> y \in Visible(d, t))
  BY <1>1, SameValues
<1>8. /\ \A v : Key(e, i, v) = Key(b, i, v) /\ Key(d, i, v) = Key(b, i, v)
      /\ \A y, v : Record(d, i, y, v) = Record(b, i, y, v)
  <2>1. d.part[i] = b.part[i] /\ e.part[i] = b.part[i]
    BY <1>1, <1>5
  <2>2. /\ \A v : Key(e, i, v) = Key(b, i, v)
        /\ \A v : Key(d, i, v) = Key(b, i, v)
    BY <2>1, SameColumns
  <2>3. \A y, v : Record(d, i, y, v) = Record(b, i, y, v)
    BY <2>1, SameColumns
  <2> QED BY <2>2, <2>3
<1> DEFINE key == Key(b, i, Values(b, t, w))
           Rec(y) == Record(b, i, y, Values(b, t, y))
<1>9. /\ b.index[i].unique /\ b.index[i].state = "active" /\ Active(d, t)
      /\ w < x /\ w \in Visible(b, t) /\ x \in Visible(b, t)
      /\ key = Key(b, i, Values(b, t, x)) /\ \A k \in DOMAIN key : key[k] # Null
  <2>1. e.index[i].on = t /\ (Active(e, t) <=> Active(d, t))
    BY <1>1, <1>3, <1>5 DEF Active
  <2> QED BY <1>5, <1>6, <1>8, <2>1 DEF Contend
<1>10. \A y \in {w, x} : Rec(y).key = key /\ Rec(y).row = y
  BY <1>9 DEF Record
<1>11. IsPrefix(key, key)
  BY <1>1, <1>3, OwnPrefix
<1> HIDE DEF key
<1>12. ASSUME NEW z \in {w, x} \cap C, NEW o \in {w, x}, o # z, o \in C => o < z
       PROVE  FALSE
  <2> DEFINE W == {y \in C : y < z}
             before == Moved(b, i, W, old, new)
  <2>1. z \in Row /\ o \in Row /\ W \in SUBSET Row /\ {z} \in SUBSET Row
    OBVIOUS
  <2>2. o \in Visible(b, t) /\ z \in Visible(b, t)
    BY <1>9
  <2>3. \A y : y \in W <=> y \in C /\ y < z
    OBVIOUS
  <2> HIDE DEF W
  <2>4. Rec(z) \in RecordsOf(b, i, {z}, new)
    BY <2>1, <2>2, RecordsOfRead
  <2>5. Rec(o) \notin RecordsOf(b, i, {z}, old)
    <3>1. \A r : r \in RecordsOf(b, i, {z}, old) => r = Record(b, i, z, Values(d, t, z))
      BY <2>1, RecordsOfRead
    <3> QED BY <1>12, <3>1, RowOfRecord
  <2>6. Rec(o) \in before
    <3>1. CASE o \in C
      <4>1. o \in W
        BY <1>12, <2>3, <3>1
      <4>2. Rec(o) \in RecordsOf(b, i, W, new)
        BY <2>1, <2>2, <4>1, RecordsOfRead
      <4> QED BY <4>2 DEF Moved
    <3>2. CASE o \notin C
      <4>1. Rec(o) = Record(d, i, o, Values(d, t, o)) /\ o \in Visible(d, t)
        BY <1>7, <1>8, <2>1, <2>2, <3>2
      <4>2. Rec(o) \in b.records[i]
        BY <1>1, <4>1 DEF ExactAt, Holds
      <4>3. Rec(o) \notin RecordsOf(b, i, W, old)
        <5>1. ASSUME Rec(o) \in RecordsOf(b, i, W, old)
              PROVE  FALSE
          <6>1. PICK y \in W : Rec(o) = Record(b, i, y, Values(d, t, y))
            BY <2>1, <5>1, RecordsOfRead
          <6>2. o = y
            BY <6>1, RowOfRecord
          <6> QED BY <2>3, <3>2, <6>2
        <5> QED BY <5>1
      <4> QED BY <4>2, <4>3 DEF Moved
    <3> QED BY <3>1, <3>2
  <2>7. Clashes(b, i, before \ RecordsOf(b, i, {z}, old), Rec(z))
    <3> DEFINE left == before \ RecordsOf(b, i, {z}, old)
    <3>1. Rec(o) \in left /\ Rec(o).key = key /\ Rec(z).key = key
      BY <1>10, <2>5, <2>6
    <3> HIDE DEF Rec, left
    <3> QED BY <1>9, <1>11, <3>1 DEF Clashes, left
  <2>8. RowClashes(b, i, C, old, new, z)
    BY <2>4, <2>7 DEF RowClashes, W
  <2> QED BY <1>4, <2>8
<1>13. w \notin C /\ x \notin C
  <2>1. w # x /\ ~(x < w)
    <3>1. w \in Nat /\ x \in Nat
      OBVIOUS
    <3>2. w < x
      BY <1>9
    <3> QED BY <3>1, <3>2
  <2>2. x \notin C
    BY <1>9, <1>12, <2>1
  <2>3. w \notin C
    BY <1>12, <2>1, <2>2
  <2> QED BY <2>2, <2>3
<1> QED BY <1>1, <1>3, <1>7, <1>8, <1>9, <1>13 DEF Contend, key

-----------------------------------------------------------------------------
(* The inductive invariant, where no catalog entry comes from a peer *)

\* Every index there is has a column, and its table has each of its columns.
Coherent(d) ==
  \A i \in Index :
    d.index[i].state = "active" =>
      /\ DOMAIN IndexColumns(d, i) # {}
      /\ \A k \in DOMAIN IndexColumns(d, i) :
           IndexColumns(d, i)[k] \in DOMAIN d.field[d.index[i].on]

\* Every index of a table that is found is exact.
AllExact(d) == \A t \in Table : Active(d, t) => \A i \in IndexesOf(d, t) : ExactAt(d, i, t)

Sound(d) == d \in Database /\ Finite(d) /\ Coherent(d) /\ AllExact(d)

\* An index there is belongs to a table.
LEMMA IndexTable ==
  ASSUME NEW d \in Database, NEW i \in Index, d.index[i].state = "active"
  PROVE  d.index[i].on \in Table /\ i \in IndexesOf(d, d.index[i].on)
<1>1. d.index[i] \in IndexEntry \cup {NoIndex}
  BY DatabaseHas
<1>2. d.index[i] \in IndexEntry
  BY <1>1 DEF NoIndex
<1> QED BY <1>2 DEF IndexEntry, IndexesOf

\* Every index of such a table is complete.
LEMMA AllReady ==
  ASSUME NEW d \in Database, Finite(d), Coherent(d), NEW t \in Table, Active(d, t),
         NEW i \in IndexesOf(d, t)
  PROVE  i \in Ready(d, t)
<1>1. i \in Index /\ d.index[i].state = "active" /\ d.index[i].on = t
  BY DEF IndexesOf
<1>2. PICK n \in Nat : DOMAIN IndexColumns(d, i) = 1..n
  BY <1>1, ColumnsSequence
<1>3. IndexColumns(d, i) # <<>>
  BY <1>1 DEF Coherent
<1>4. Resolves(d, i)
  BY <1>1 DEF Coherent, Resolves, Active
<1> QED BY <1>3, <1>4 DEF Ready

\* The rows a statement writes or a peer sends leave what was sound sound.
LEMMA MaterializeSound ==
  ASSUME NEW d, Sound(d), NEW t \in Table, NEW C \in SUBSET Row,
         NEW rows \in [C -> RowEntry], NEW enforce, NEW e \in Materialize(d, t, rows, enforce)
  PROVE  Sound(e)
<1>1. d \in Database /\ Finite(d) /\ Coherent(d) /\ AllExact(d)
  BY DEF Sound
<1>2. e \in Database /\ Finite(e)
  BY <1>1, MaterializeType
<1>3. /\ e.table = d.table /\ e.field = d.field /\ e.index = d.index /\ e.part = d.part
      /\ \A s \in Table : s # t => e.row[s] = d.row[s]
      /\ \A i \in Index : i \notin IndexesOf(d, t) => e.records[i] = d.records[i]
      /\ \A i \in IndexesOf(d, t) : ExactAt(d, i, t) => ExactAt(e, i, t)
  BY <1>1, MaterializeExact
<1>4. Coherent(e)
  <2>1. \A i \in Index : IndexColumns(e, i) = IndexColumns(d, i)
    BY <1>3, SameColumns
  <2> QED BY <1>1, <1>3, <2>1 DEF Coherent
<1>5. ASSUME NEW s \in Table, Active(e, s), NEW i \in IndexesOf(e, s)
      PROVE  ExactAt(e, i, s)
  <2>1. i \in Index /\ d.index[i].on = s /\ i \in IndexesOf(d, s) /\ Active(d, s)
    BY <1>3, <1>5 DEF IndexesOf, Active
  <2>2. ExactAt(d, i, s)
    BY <1>1, <2>1 DEF AllExact
  <2>3. CASE s = t
    BY <1>3, <2>1, <2>2, <2>3
  <2>4. CASE s # t
    <3>1. i \notin IndexesOf(d, t)
      BY <2>1, <2>4 DEF IndexesOf
    <3>2. e.records[i] = d.records[i] /\ e.row[s] = d.row[s]
      BY <1>3, <2>1, <2>4, <3>1
    <3> QED BY <1>3, <2>1, <2>2, <3>2, Elsewhere
  <2> QED BY <2>3, <2>4
<1> QED BY <1>2, <1>4, <1>5 DEF Sound, AllExact

\* Two databases have the same rows, tables but one, and indexes but its.
SameBut(d, e, t) ==
  /\ e.row = d.row
  /\ \A s \in Table : s # t => e.table[s] = d.table[s] /\ e.field[s] = d.field[s]
  /\ \A i \in Index :
       i \notin IndexesOf(e, t) =>
         e.index[i] = d.index[i] /\ e.part[i] = d.part[i] /\ e.records[i] = d.records[i]

\* The indexes of a table are complete and exact, and no rows contend in one.
BuiltAt(d, e, t) ==
  \A i \in IndexesOf(e, t) :
    /\ Resolves(e, i) /\ ExactAt(e, i, t)
    /\ \/ e.index[i] = d.index[i] /\ e.part[i] = d.part[i]
       \/ \E p \in DOMAIN e.part[i] : ~e.part[i][p].deleted
    /\ \A w \in Row, x \in Row : ~Contend(e, i, w, x)

\* What a statement declares of a table it builds, and leaves the others alone.
LEMMA BuildsIs ==
  ASSUME Constants, NEW d, NEW t \in Table, NEW e, Builds(d, t, e)
  PROVE  e \in Database /\ Finite(e) /\ SameBut(d, e, t) /\ BuiltAt(d, e, t)
<1>1. PICK b : Declares(d, b, t) /\ e \in RebuildTable(b, t)
  BY DEF Builds
<1>2. b \in Database /\ Finite(b)
  BY <1>1 DEF Declares
<1>3. e \in Database /\ Finite(e) /\ SchemaReads(b, t)
  BY <1>1, <1>2, RebuildType
<1>4. /\ e.table = b.table /\ e.field = b.field /\ e.index = b.index
      /\ e.part = b.part /\ e.row = b.row
      /\ \A i \in Index : i \notin IndexesOf(b, t) => e.records[i] = b.records[i]
      /\ \A i \in IndexesOf(b, t) : ExactAt(e, i, t)
      /\ \A i \in IndexesOf(b, t), w \in Row, x \in Row : ~Contend(e, i, w, x)
  BY <1>1, <1>2, RebuildExact
<1>5. IndexesOf(e, t) = IndexesOf(b, t) /\ IndexesOf(e, t) \subseteq Index
  BY <1>4 DEF IndexesOf
<1>6. ASSUME NEW i \in IndexesOf(e, t)
      PROVE  Resolves(e, i)
  <2>1. Resolves(b, i)
    BY <1>3, <1>5, <1>6 DEF SchemaReads
  <2>2. IndexColumns(e, i) = IndexColumns(b, i)
    BY <1>4, SameColumns
  <2> QED BY <1>4, <2>1, <2>2 DEF Resolves
<1>7. \A i \in Index :
        i \notin IndexesOf(e, t) =>
          e.index[i] = d.index[i] /\ e.part[i] = d.part[i] /\ e.records[i] = d.records[i]
  BY <1>1, <1>4, <1>5 DEF Declares
<1>8. \A i \in IndexesOf(e, t) :
        \/ e.index[i] = d.index[i] /\ e.part[i] = d.part[i]
        \/ \E p \in DOMAIN e.part[i] : ~e.part[i][p].deleted
  BY <1>1, <1>4, <1>5 DEF Declares
<1>9. /\ e.row = d.row
      /\ \A s \in Table : s # t => e.table[s] = d.table[s] /\ e.field[s] = d.field[s]
  BY <1>1, <1>4 DEF Declares
<1> QED BY <1>3, <1>4, <1>5, <1>6, <1>7, <1>8, <1>9 DEF SameBut, BuiltAt

\* It leaves what was sound sound, and no contenders that were not there.
LEMMA BuildsSound ==
  ASSUME Constants, NEW d, Sound(d), NEW t \in Table, NEW e, Builds(d, t, e)
  PROVE  /\ Sound(e)
         /\ \A i \in Index, w \in Row, x \in Row : Contend(e, i, w, x) => Contend(d, i, w, x)
<1>1. d \in Database /\ Finite(d) /\ Coherent(d) /\ AllExact(d)
  BY DEF Sound
<1>2. /\ e \in Database /\ Finite(e) /\ e.row = d.row
      /\ \A s \in Table : s # t => e.table[s] = d.table[s] /\ e.field[s] = d.field[s]
      /\ \A i \in Index :
           i \notin IndexesOf(e, t) =>
             e.index[i] = d.index[i] /\ e.part[i] = d.part[i] /\ e.records[i] = d.records[i]
  BY BuildsIs DEF SameBut
<1>3. \A i \in IndexesOf(e, t) :
        /\ Resolves(e, i) /\ ExactAt(e, i, t)
        /\ \/ e.index[i] = d.index[i] /\ e.part[i] = d.part[i]
           \/ \E p \in DOMAIN e.part[i] : ~e.part[i][p].deleted
        /\ \A w \in Row, x \in Row : ~Contend(e, i, w, x)
  BY BuildsIs DEF BuiltAt
<1>4. ASSUME NEW i \in Index, e.index[i].state = "active", i \notin IndexesOf(e, t)
      PROVE  /\ e.index[i].on \in Table /\ e.index[i].on # t
             /\ e.index[i] = d.index[i] /\ e.part[i] = d.part[i] /\ e.records[i] = d.records[i]
             /\ e.table[e.index[i].on] = d.table[e.index[i].on]
             /\ e.field[e.index[i].on] = d.field[e.index[i].on]
             /\ e.row[e.index[i].on] = d.row[e.index[i].on]
  <2>1. e.index[i].on \in Table /\ i \in IndexesOf(e, e.index[i].on)
    BY <1>2, <1>4, IndexTable
  <2> QED BY <1>2, <1>4, <2>1
<1>5. ASSUME NEW i \in Index, e.index[i].state = "active"
      PROVE  /\ DOMAIN IndexColumns(e, i) # {}
             /\ \A k \in DOMAIN IndexColumns(e, i) :
                  IndexColumns(e, i)[k] \in DOMAIN e.field[e.index[i].on]
  <2>1. CASE i \in IndexesOf(e, t)
    <3>1. \A k \in DOMAIN IndexColumns(e, i) : IndexColumns(e, i)[k] \in DOMAIN e.field[e.index[i].on]
      BY <1>3, <2>1 DEF Resolves
    <3>2. CASE e.index[i] = d.index[i] /\ e.part[i] = d.part[i]
      <4>1. IndexColumns(e, i) = IndexColumns(d, i)
        BY <3>2, SameColumns
      <4> QED BY <1>1, <1>5, <3>1, <3>2, <4>1 DEF Coherent
    <3>3. CASE \E p \in DOMAIN e.part[i] : ~e.part[i][p].deleted
      <4>1. PICK n \in Nat : DOMAIN IndexColumns(e, i) = 1..n /\ n # 0
        BY <1>2, <3>3, ColumnsSequence
      <4>2. 1 \in DOMAIN IndexColumns(e, i)
        BY <4>1
      <4> QED BY <3>1, <4>2
    <3> QED BY <1>3, <2>1, <3>2, <3>3
  <2>2. CASE i \notin IndexesOf(e, t)
    <3>1. IndexColumns(e, i) = IndexColumns(d, i)
      BY <1>4, <1>5, <2>2, SameColumns
    <3> QED BY <1>1, <1>4, <1>5, <2>2, <3>1 DEF Coherent
  <2> QED BY <2>1, <2>2
<1>6. ASSUME NEW s \in Table, Active(e, s), NEW i \in IndexesOf(e, s)
      PROVE  ExactAt(e, i, s)
  <2>1. i \in Index /\ e.index[i].state = "active" /\ e.index[i].on = s
    BY DEF IndexesOf
  <2>2. CASE i \in IndexesOf(e, t)
    <3>1. s = t
      BY <2>1, <2>2 DEF IndexesOf
    <3> QED BY <1>3, <2>2, <3>1
  <2>3. CASE i \notin IndexesOf(e, t)
    <3>1. i \in IndexesOf(d, s) /\ Active(d, s) /\ d.index[i].on = s
      BY <1>4, <1>6, <2>1, <2>3 DEF IndexesOf, Active
    <3>2. ExactAt(d, i, s)
      BY <1>1, <3>1 DEF AllExact
    <3> QED BY <1>4, <2>1, <2>3, <3>1, <3>2, Elsewhere
  <2> QED BY <2>2, <2>3
<1>7. ASSUME NEW i \in Index, NEW w \in Row, NEW x \in Row, Contend(e, i, w, x)
      PROVE  Contend(d, i, w, x)
  <2>1. e.index[i].state = "active" /\ i \notin IndexesOf(e, t)
    BY <1>3, <1>7 DEF Contend
  <2>2. d.index[i].on = e.index[i].on
    BY <1>4, <2>1
  <2> QED BY <1>4, <1>7, <2>1, <2>2, Elsewhere
<1> QED BY <1>2, <1>5, <1>6, <1>7 DEF Sound, Coherent, AllExact

\* A dropped table leaves what was sound sound, and no new contenders.
LEMMA DropTableSound ==
  ASSUME NEW d, Sound(d), NEW t \in Table, NEW e \in DropTable(d, t)
  PROVE  /\ Sound(e)
         /\ \A i \in Index, w \in Row, x \in Row : Contend(e, i, w, x) => Contend(d, i, w, x)
<1>1. d \in Database /\ Finite(d) /\ Coherent(d) /\ AllExact(d)
  BY DEF Sound
<1>2. /\ e \in Database /\ Finite(e) /\ e.table = [d.table EXCEPT ![t] = "dropped"]
      /\ e.field = d.field /\ e.index = d.index
      /\ e.part = d.part /\ e.row = d.row /\ e.records = d.records
  BY <1>1, DropTableIs
<1>3. \A s \in Table : Active(e, s) => s # t /\ e.table[s] = d.table[s]
  BY <1>1, <1>2, DatabaseHas DEF Active
<1>4. \A i \in Index : IndexColumns(e, i) = IndexColumns(d, i)
  BY <1>2, SameColumns
<1>5. Coherent(e)
  BY <1>1, <1>2, <1>4 DEF Coherent
<1>6. ASSUME NEW s \in Table, Active(e, s), NEW i \in IndexesOf(e, s)
      PROVE  ExactAt(e, i, s)
  <2>1. i \in Index /\ i \in IndexesOf(d, s) /\ d.index[i].on = s /\ e.table[s] = d.table[s]
    BY <1>2, <1>3, <1>6 DEF IndexesOf
  <2>2. ExactAt(d, i, s)
    BY <1>1, <1>6, <2>1 DEF AllExact, Active
  <2> QED BY <1>2, <2>1, <2>2, Elsewhere
<1>7. ASSUME NEW i \in Index, NEW w \in Row, NEW x \in Row, Contend(e, i, w, x)
      PROVE  Contend(d, i, w, x)
  <2>1. e.index[i].state = "active" /\ Active(e, e.index[i].on)
    BY <1>7 DEF Contend
  <2>2. e.index[i].on \in Table /\ d.index[i].on = e.index[i].on
    BY <1>2, <2>1, IndexTable
  <2>3. e.table[e.index[i].on] = d.table[e.index[i].on]
    BY <1>3, <2>1, <2>2
  <2> QED BY <1>2, <1>7, <2>2, <2>3, Elsewhere
<1> QED BY <1>2, <1>5, <1>6, <1>7 DEF Sound, AllExact

\* So does a dropped index.
LEMMA DropIndexSound ==
  ASSUME NEW d, Sound(d), NEW j \in Index, NEW e \in DropIndex(d, j)
  PROVE  /\ Sound(e)
         /\ \A i \in Index, w \in Row, x \in Row : Contend(e, i, w, x) => Contend(d, i, w, x)
<1>1. d \in Database /\ Finite(d) /\ Coherent(d) /\ AllExact(d)
  BY DEF Sound
<1>2. /\ e \in Database /\ Finite(e)
      /\ e.table = d.table /\ e.field = d.field /\ e.row = d.row
      /\ e.index[j].state = "dropped"
      /\ \A i \in Index : i # j => /\ e.index[i] = d.index[i] /\ e.part[i] = d.part[i]
                               /\ e.records[i] = d.records[i]
  BY <1>1, DropIndexIs
<1>3. \A i \in Index : e.index[i].state = "active" => IndexColumns(e, i) = IndexColumns(d, i)
  BY <1>2, SameColumns
<1>4. Coherent(e)
  BY <1>1, <1>2, <1>3 DEF Coherent
<1>5. ASSUME NEW s \in Table, Active(e, s), NEW i \in IndexesOf(e, s)
      PROVE  ExactAt(e, i, s)
  <2>1. i \in Index /\ i # j /\ i \in IndexesOf(d, s) /\ d.index[i].on = s
    BY <1>2 DEF IndexesOf
  <2>2. ExactAt(d, i, s)
    BY <1>1, <1>2, <1>5, <2>1 DEF AllExact, Active
  <2> QED BY <1>2, <2>1, <2>2, Elsewhere
<1>6. ASSUME NEW i \in Index, NEW w \in Row, NEW x \in Row, Contend(e, i, w, x)
      PROVE  Contend(d, i, w, x)
  <2>1. e.index[i].state = "active" /\ i # j
    BY <1>2, <1>6 DEF Contend
  <2>2. e.index[i].on \in Table /\ d.index[i].on = e.index[i].on
    BY <1>2, <2>1, IndexTable
  <2> QED BY <1>2, <1>6, <2>1, <2>2, Elsewhere
<1> QED BY <1>2, <1>4, <1>5, <1>6 DEF Sound, AllExact

\* A local statement leaves what was sound sound, and no new contenders.
LEMMA LocalSound ==
  ASSUME Constants, Sound(db), Local
  PROVE  /\ Sound(db')
         /\ \A i \in Index, w \in Row, x \in Row : Contend(db', i, w, x) => Contend(db, i, w, x)
<1>1. db \in Database /\ Finite(db) /\ Coherent(db) /\ AllExact(db)
  BY DEF Sound
<1>2. CASE RowStatement
  <2>6. PICK t \in Table, C \in SUBSET Row :
          \E rows \in [C -> RowEntry] : db' \in Materialize(db, t, rows, TRUE)
    BY <1>1, <1>2, RowStatementWrites
  <2>1. PICK rows \in [C -> RowEntry] : db' \in Materialize(db, t, rows, TRUE)
    BY <2>6
  <2> DEFINE enforce == TRUE
  <2>2. db' \in Materialize(db, t, rows, enforce)
    BY <2>1
  <2> HIDE DEF enforce
  <2>3. Sound(db')
    BY <2>2, MaterializeSound
  <2>4. /\ db'.table = db.table /\ db'.field = db.field /\ db'.index = db.index
        /\ db'.part = db.part /\ \A s \in Table : s # t => db'.row[s] = db.row[s]
    BY <1>1, <2>2, MaterializeExact
  <2>5. ASSUME NEW i \in Index, NEW w \in Row, NEW x \in Row, Contend(db', i, w, x)
        PROVE  Contend(db, i, w, x)
    <3> DEFINE s == db.index[i].on
    <3>1. db.index[i].state = "active" /\ Active(db, s)
      BY <2>4, <2>5 DEF Contend, Active
    <3>2. s \in Table /\ i \in IndexesOf(db, s)
      BY <1>1, <3>1, IndexTable
    <3>3. CASE s = t
      <4>1. ExactAt(db, i, t) /\ i \in IndexesOf(db, t)
        BY <1>1, <3>1, <3>2, <3>3 DEF AllExact
      <4>2. Row \subseteq Nat
        BY DEF Constants
      <4> QED BY <1>1, <2>1, <2>5, <4>1, <4>2, MaterializeUnique
    <3>4. CASE s # t
      BY <2>4, <2>5, <3>2, <3>4, Elsewhere
    <3> QED BY <3>3, <3>4
  <2> QED BY <2>3, <2>5
<1>3. ASSUME NEW t \in Table, Builds(db, t, db')
      PROVE  /\ Sound(db')
             /\ \A i \in Index, w \in Row, x \in Row : Contend(db', i, w, x) => Contend(db, i, w, x)
  BY <1>3, BuildsSound
<1>4. ASSUME NEW t \in Table, NEW e, Builds(db, t, e), Builds(e, t, db')
      PROVE  /\ Sound(db')
             /\ \A i \in Index, w \in Row, x \in Row : Contend(db', i, w, x) => Contend(db, i, w, x)
  <2>1. /\ Sound(e)
        /\ \A i \in Index, w \in Row, x \in Row : Contend(e, i, w, x) => Contend(db, i, w, x)
    BY <1>4, BuildsSound
  <2>2. /\ Sound(db')
        /\ \A i \in Index, w \in Row, x \in Row : Contend(db', i, w, x) => Contend(e, i, w, x)
    BY <1>4, <2>1, BuildsSound
  <2> QED BY <2>1, <2>2
<1>5. CASE CatalogStatement
  BY <1>1, <1>3, <1>4, <1>5, CatalogCases, DropTableSound, DropIndexSound
<1> QED BY <1>2, <1>5 DEF Local

\* Every step does, where peers send no catalog entry.
LEMMA SoundStep ==
  ASSUME Constants, ~PeerCatalogs, Sound(db), [Next]_db
  PROVE  Sound(db)'
<1>1. Sound(db)' <=> Sound(db')
  BY DEF Sound, Coherent, AllExact, Finite, ExactAt, Holds
<1>2. CASE Local
  BY <1>1, <1>2, LocalSound
<1>3. CASE Merge
  <2>1. db \in Database
    BY DEF Sound
  <2>2. PICK t \in Table, C \in SUBSET Row :
          \E rows \in [C -> RowEntry] : db' \in Materialize(db, t, rows, FALSE)
    BY <1>3, <2>1, MergeWrites
  <2>3. PICK rows \in [C -> RowEntry] : db' \in Materialize(db, t, rows, FALSE)
    BY <2>2
  <2> DEFINE enforce == FALSE
  <2>4. db' \in Materialize(db, t, rows, enforce)
    BY <2>3
  <2> HIDE DEF enforce
  <2> QED BY <1>1, <2>4, MaterializeSound
<1>4. CASE UNCHANGED db
  BY <1>1, <1>4
<1> QED BY <1>2, <1>3, <1>4 DEF Next, Import

\* An empty database is sound.
LEMMA InitSound == Init => Sound(db)
<1> SUFFICES ASSUME Init
             PROVE  Sound(db)
  OBVIOUS
<1>1. db \in Database /\ Finite(db)
  BY InitTyped DEF Typed, TypeOK
<1>2. \A i \in Index : db.index[i].state # "active"
  BY DEF Init, NoIndex
<1>3. \A t \in Table : ~Active(db, t)
  BY DEF Init, Active
<1> QED BY <1>1, <1>2, <1>3 DEF Sound, Coherent, AllExact

\* At all times the database is sound, where peers send no catalog entry.
THEOREM SoundInvariance ==
  ASSUME Constants, ~PeerCatalogs
  PROVE  Spec => []Sound(db)
<1>1. Init => Sound(db)
  BY InitSound
<1>2. Sound(db) /\ [Next]_db => Sound(db)'
  BY SoundStep
<1> QED BY <1>1, <1>2, PTL DEF Spec

\* IndexesExact: an index has the records of the visible rows of its table and no
\* others, after every statement and every merged row.
THEOREM RecordsExact ==
  ASSUME Constants, ~PeerCatalogs
  PROVE  Spec => []IndexesExact
<1>1. Sound(db) => IndexesExact
  <2> SUFFICES ASSUME Sound(db), NEW t \in Table, Active(db, t)
               PROVE  Exact(db, t)
    BY DEF IndexesExact
  <2>1. \A i \in Ready(db, t) : ExactAt(db, i, t)
    BY DEF Sound, AllExact, Ready
  <2> QED BY <2>1, ExactIs
<1> QED BY <1>1, SoundInvariance, PTL

\* UniqueEnforced: no local statement adds contenders to a unique key.
THEOREM NoneContend ==
  ASSUME Constants, ~PeerCatalogs
  PROVE  Spec => UniqueEnforced
<1>1. Sound(db) /\ [Next]_db => [Enforced]_db
  <2> SUFFICES ASSUME Sound(db), Local
               PROVE  Duplicates(db') \subseteq Duplicates(db)
    BY DEF Enforced
  <2>1. \A i \in Index, w \in Row, x \in Row : Contend(db', i, w, x) => Contend(db, i, w, x)
    BY LocalSound
  <2> QED BY <2>1 DEF Duplicates
<1> QED BY <1>1, SoundInvariance, PTL DEF Spec, UniqueEnforced

\* The keys of an index are of one length: one that is a prefix of another is it.
LEMMA KeyPrefix ==
  ASSUME NEW d \in Database, Finite(d), NEW t \in Table, NEW i \in IndexesOf(d, t), Resolves(d, i),
         NEW u \in [DOMAIN d.field[t] -> Datum], NEW v \in [DOMAIN d.field[t] -> Datum]
  PROVE  IsPrefix(Key(d, i, u), Key(d, i, v)) <=> Key(d, i, u) = Key(d, i, v)
<1> DEFINE a == Key(d, i, u)
           b == Key(d, i, v)
<1>1. a \in Seq(Datum) /\ b \in Seq(Datum)
  BY KeyType
<1>2. i \in Index
  BY DEF IndexesOf
<1>3. PICK n \in Nat : DOMAIN IndexColumns(d, i) = 1..n
  BY <1>2, ColumnsSequence
<1>4. DOMAIN a = 1..n /\ DOMAIN b = 1..n
  BY <1>3 DEF Key
<1> HIDE DEF a, b
<1>5. Len(a) = n /\ Len(b) = n
  BY <1>1, <1>3, <1>4
<1>6. SubSeq(a, 1, n) = a /\ SubSeq(b, 1, n) = b
  BY <1>1, <1>5
<1>7. IsPrefix(a, b) <=> a = b
  BY <1>3, <1>5, <1>6 DEF IsPrefix
<1> QED BY <1>7 DEF a, b

\* LookupCanonical: a lookup selects the visible row with the lowest UUID among
\* those that have the key.
THEOREM LowestFound ==
  ASSUME Constants, ~PeerCatalogs
  PROVE  Spec => []LookupCanonical
<1>1. Sound(db) => LookupCanonical
  <2> SUFFICES ASSUME Sound(db), NEW t \in Table, Active(db, t),
                      NEW i \in IndexesOf(db, t), NEW w \in Visible(db, t)
               PROVE  LET key == Key(db, i, Values(db, t, w))
                          holders == {x \in Visible(db, t) : Key(db, i, Values(db, t, x)) = key}
                      IN  Lookup(db, i, key) = {x \in holders : \A y \in holders : x <= y}
    BY DEF LookupCanonical
  <2> DEFINE V == Visible(db, t)
             K(x) == Key(db, i, Values(db, t, x))
             key == K(w)
             R(x) == Record(db, i, x, Values(db, t, x))
             holders == {x \in V : K(x) = key}
             matches == {r \in db.records[i] : IsPrefix(key, r.key)}
             first == {r \in matches : \A s \in matches : r.row <= s.row}
  <2>1. db \in Database /\ Finite(db) /\ Coherent(db) /\ ExactAt(db, i, t)
    BY DEF Sound, AllExact
  <2>2. Resolves(db, i) /\ db.index[i].on = t
    BY <2>1, AllReady DEF Ready, IndexesOf
  <2>3. \A x \in V : x \in Row /\ Values(db, t, x) \in [DOMAIN db.field[t] -> Datum]
    BY <2>1, ValuesType DEF Visible
  <2>4. \A x \in V : IsPrefix(key, K(x)) <=> key = K(x)
    BY <2>1, <2>2, <2>3, KeyPrefix
  <2>5. \A x : R(x).key = K(x) /\ R(x).row = x
    BY DEF Record
  <2>6. \A r : r \in db.records[i] <=> \E x \in V : r = R(x)
    BY <2>1 DEF ExactAt, Holds
  <2>7. Lookup(db, i, key) = {r.row : r \in first} \cap V
    BY <2>2 DEF Lookup
  <2> HIDE DEF V, K, R, key
  <2>8. \A r : r \in matches <=> \E x \in holders : r = R(x)
    BY <2>4, <2>5, <2>6
  <2> HIDE DEF matches, holders
  <2>9. \A r : r \in first <=> \E x \in holders : r = R(x) /\ \A y \in holders : x <= y
    <3>1. ASSUME NEW r \in first
          PROVE  \E x \in holders : r = R(x) /\ \A y \in holders : x <= y
      <4>1. PICK x \in holders : r = R(x)
        BY <2>8
      <4>2. ASSUME NEW y \in holders
            PROVE  x <= y
        <5>1. R(y) \in matches
          BY <2>8
        <5>2. r.row <= R(y).row
          BY <5>1
        <5> QED BY <2>5, <4>1, <5>2
      <4> QED BY <4>1, <4>2
    <3>2. ASSUME NEW x \in holders, \A y \in holders : x <= y
          PROVE  R(x) \in first
      <4>1. R(x) \in matches
        BY <2>8
      <4>2. ASSUME NEW s \in matches
            PROVE  R(x).row <= s.row
        <5>1. PICK y \in holders : s = R(y)
          BY <2>8
        <5> QED BY <2>5, <3>2, <5>1
      <4> QED BY <4>1, <4>2
    <3> QED BY <3>1, <3>2
  <2> HIDE DEF first
  <2>10. holders \subseteq V
    BY DEF holders
  <2>11. ASSUME NEW x
         PROVE  x \in {r.row : r \in first} \cap V <=>
                  x \in {z \in holders : \A y \in holders : z <= y}
    <3>1. ASSUME x \in {r.row : r \in first} \cap V
          PROVE  x \in {z \in holders : \A y \in holders : z <= y}
      <4>1. PICK r \in first : x = r.row
        BY <3>1
      <4>2. PICK z \in holders : r = R(z) /\ \A y \in holders : z <= y
        BY <2>9
      <4>3. x = z
        BY <2>5, <4>1, <4>2
      <4> QED BY <4>2, <4>3
    <3>2. ASSUME x \in {z \in holders : \A y \in holders : z <= y}
          PROVE  x \in {r.row : r \in first} \cap V
      <4>1. x \in holders /\ \A y \in holders : x <= y
        BY <3>2
      <4>2. R(x) \in first
        BY <2>9, <4>1
      <4>3. R(x).row = x /\ x \in V
        BY <2>5, <2>10, <4>1
      <4> QED BY <4>2, <4>3
    <3> QED BY <3>1, <3>2
  <2>12. Lookup(db, i, key) = {z \in holders : \A y \in holders : z <= y}
    BY <2>7, <2>11
  <2> QED BY <2>12 DEF holders, key, K, V
<1> QED BY <1>1, SoundInvariance, PTL

\* StatementsRepair: a statement that changes the schema of a table leaves the
\* indexes of the table exact, whatever peers sent before.
THEOREM SchemaRepairs ==
  ASSUME Constants
  PROVE  Spec => StatementsRepair
<1>1. Typed /\ [Next]_db => [Repair]_db
  <2> SUFFICES ASSUME Typed, CatalogStatement, NEW s \in Table, Active(db', s),
                      \/ db'.table[s] # db.table[s] \/ db'.field[s] # db.field[s]
                      \/ \E i \in IndexesOf(db', s) : db'.index[i] # db.index[i]
               PROVE  Exact(db', s)
    BY DEF Repair
  <2>1. db \in Database /\ Finite(db)
    BY DEF Typed, TypeOK
  <2>2. ASSUME NEW d, NEW t \in Table, NEW e, Builds(d, t, e)
        PROVE  Exact(e, t)
    <3>1. BuiltAt(d, e, t)
      BY <2>2, BuildsIs
    <3>2. \A i \in Ready(e, t) : ExactAt(e, i, t)
      BY <3>1 DEF BuiltAt, Ready
    <3> QED BY <3>2, ExactIs
  <2>3. ASSUME NEW d, NEW t \in Table, NEW e, Builds(d, t, e), s # t
        PROVE  /\ e.table[s] = d.table[s] /\ e.field[s] = d.field[s]
               /\ \A i \in IndexesOf(e, s) : e.index[i] = d.index[i]
    <3>1. SameBut(d, e, t)
      BY <2>3, BuildsIs
    <3>2. \A i \in IndexesOf(e, s) : i \in Index /\ i \notin IndexesOf(e, t)
      BY <2>3 DEF IndexesOf
    <3> QED BY <2>3, <3>1, <3>2 DEF SameBut
  <2>4. ASSUME NEW t \in Table, Builds(db, t, db')
        PROVE  Exact(db', s)
    <3>1. CASE s = t
      BY <2>2, <2>4, <3>1
    <3>2. CASE s # t
      <4>1. /\ db'.table[s] = db.table[s] /\ db'.field[s] = db.field[s]
            /\ \A i \in IndexesOf(db', s) : db'.index[i] = db.index[i]
        BY <2>3, <2>4, <3>2
      <4> QED BY <4>1
    <3> QED BY <3>1, <3>2
  <2>5. ASSUME NEW t \in Table, NEW e, Builds(db, t, e), Builds(e, t, db')
        PROVE  Exact(db', s)
    <3>1. CASE s = t
      BY <2>2, <2>5, <3>1
    <3>2. CASE s # t
      <4>1. /\ e.table[s] = db.table[s] /\ e.field[s] = db.field[s]
            /\ \A i \in IndexesOf(e, s) : e.index[i] = db.index[i]
        BY <2>3, <2>5, <3>2
      <4>2. /\ db'.table[s] = e.table[s] /\ db'.field[s] = e.field[s]
            /\ \A i \in IndexesOf(db', s) : db'.index[i] = e.index[i]
        BY <2>3, <2>5, <3>2
      <4>3. IndexesOf(db', s) \subseteq IndexesOf(e, s)
        BY <4>2 DEF IndexesOf
      <4> QED BY <4>1, <4>2, <4>3
    <3> QED BY <3>1, <3>2
  <2>6. ASSUME NEW t \in Table, db' \in DropTable(db, t)
        PROVE  FALSE
    <3>1. /\ db'.table = [db.table EXCEPT ![t] = "dropped"]
          /\ db'.field = db.field /\ db'.index = db.index
      BY <2>1, <2>6, DropTableIs
    <3>2. s # t
      BY <2>1, <3>1, DatabaseHas DEF Active
    <3>3. db'.table[s] = db.table[s]
      BY <2>1, <3>1, <3>2, DatabaseHas
    <3> QED BY <3>1, <3>3
  <2>7. ASSUME NEW j \in Index, db' \in DropIndex(db, j)
        PROVE  FALSE
    <3>1. /\ db'.table = db.table /\ db'.field = db.field /\ db'.index[j].state = "dropped"
          /\ \A i \in Index : i # j => db'.index[i] = db.index[i]
      BY <2>1, <2>7, DropIndexIs
    <3>2. \A i \in IndexesOf(db', s) : i \in Index /\ i # j
      BY <3>1 DEF IndexesOf
    <3> QED BY <3>1, <3>2
  <2> QED BY <2>1, <2>4, <2>5, <2>6, <2>7, CatalogCases
<1>2. Init => Typed
  BY InitTyped
<1>3. Typed /\ [Next]_db => Typed'
  BY TypedStep
<1> QED BY <1>1, <1>2, <1>3, PTL DEF Spec, StatementsRepair

=============================================================================
