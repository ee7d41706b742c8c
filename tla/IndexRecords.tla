---------------------------- MODULE IndexRecords ----------------------------
(***************************************************************************)
(* The catalog, the rows and the derived index records of one engine.      *)
(*                                                                         *)
(* A local statement is one Engine Transaction: it changes rows or catalog *)
(* entries and updates or rebuilds the records of the indexes of its table *)
(* before it commits, or it fails and changes nothing.  A peer's rows are  *)
(* merged by the same code with no check of uniqueness; a peer's catalog   *)
(* entries are stored one by one, each in a transaction of its own.        *)
(*                                                                         *)
(* A transaction maps the database to the set of databases it may commit:  *)
(* the empty set when it fails.  Of a row, what its document says of each  *)
(* column is kept (how documents merge is RowStore's subject); the primary *)
(* key is the row's own identity, and row identities are ordered.          *)
(***************************************************************************)
EXTENDS Naturals, FiniteSets, Sequences, SequencesExt

CONSTANTS
  Table, Index,
  Row,           (* row UUIDs, as numbers                                  *)
  Column,        (* columns other than the primary key                     *)
  Value, Null,   (* values of a column; Null is none of them               *)
  Defaults,      (* bound: defaults a column is declared with              *)
  Definitions,   (* bound: column lists indexes are declared with          *)
  PeerCatalogs   (* are catalog entries received from peers?               *)

VARIABLE
  db  \* the committed database

Position == UNION {DOMAIN columns : columns \in Definitions}
Datum == Value \cup {Null}
Some(S) == UNION {[C -> S] : C \in SUBSET Column}
NoFunction == [c \in {} |-> Null]

\* What is assumed of them: UUIDs are ordered, and an index has columns.
Constants ==
  /\ Row \subseteq Nat
  /\ Defaults \subseteq Datum
  /\ Definitions \subseteq Seq(Column) \ {<<>>}

\* Entries of the catalog.  A field's entry is its default.
IndexEntry == [state : {"active", "dropped"}, on : Table, unique : BOOLEAN]
PartEntry == [column : Column, deleted : BOOLEAN]

NoIndex == [state |-> "absent"]

RowEntry == [state : {"none", "live", "deleted"}, doc : Some(Datum)]
Parts == UNION {[P -> PartEntry] : P \in SUBSET Position}
IndexRecord == [key : Seq(Datum), row : Row]

Database ==
  [table : [Table -> {"absent", "active", "dropped"}],
   field : [Table -> Some(Datum)],
   index : [Index -> IndexEntry \cup {NoIndex}],
   part : [Index -> Parts],
   row : [Table -> [Row -> RowEntry]],
   records : [Index -> SUBSET IndexRecord]]

TypeOK == db \in Database

Init ==
  db = [table |-> [t \in Table |-> "absent"],
        field |-> [t \in Table |-> NoFunction],
        index |-> [i \in Index |-> NoIndex],
        part |-> [i \in Index |-> [p \in {} |-> Null]],
        row |-> [t \in Table |-> [w \in Row |-> [state |-> "none", doc |-> NoFunction]]],
        records |-> [i \in Index |-> {}]]

-----------------------------------------------------------------------------
(* Reading the database *)

\* Found by its name: there is an entry and it is not deleted.
Active(d, t) == d.table[t] = "active"

Visible(d, t) == {w \in Row : d.row[t][w].state = "live"}

\* A visible row: a column its document does not have reads as its default.
Values(d, t, w) ==
  LET doc == d.row[t][w].doc
  IN  [c \in DOMAIN d.field[t] |-> IF c \in DOMAIN doc THEN doc[c] ELSE d.field[t][c]]

\* Of each row, the set of its values or none.
Read(d, t) == [w \in Row |-> {Values(d, t, x) : x \in {w} \cap Visible(d, t)}]

IndexesOf(d, t) == {i \in Index : d.index[i].state = "active" /\ d.index[i].on = t}

\* The columns of an index, in order of position.
IndexColumns(d, i) ==
  LET live == {p \in DOMAIN d.part[i] : ~d.part[i][p].deleted}
      place(k) == CHOOSE p \in live : Cardinality({q \in live : q < p}) = k - 1
  IN  [k \in 1..Cardinality(live) |-> d.part[i][place(k)].column]

\* Its schema cannot be read when its table was dropped or lacks a column.
Resolves(d, i) ==
  LET t == d.index[i].on
  IN  /\ d.table[t] # "dropped"
      /\ \A k \in DOMAIN IndexColumns(d, i) : IndexColumns(d, i)[k] \in DOMAIN d.field[t]

\* The indexes of a table whose schema is complete.
Ready(d, t) == {i \in IndexesOf(d, t) : Resolves(d, i) /\ IndexColumns(d, i) # <<>>}

\* The index schemas of a table that is not dropped can all be read.
SchemaReads(d, t) == d.table[t] # "dropped" /\ \A i \in IndexesOf(d, t) : Resolves(d, i)

Key(d, i, values) == [k \in DOMAIN IndexColumns(d, i) |-> values[IndexColumns(d, i)[k]]]

Record(d, i, w, values) == [key |-> Key(d, i, values), row |-> w]

\* Fault: the last matching record.
LookupLast(d, i, key) ==
  LET matches == {r \in d.records[i] : IsPrefix(key, r.key)}
      last == {r \in matches : \A s \in matches : s.row <= r.row}
  IN  {r.row : r \in last} \cap Visible(d, d.index[i].on)

\* The row an index lookup selects: that of the first matching record in key
\* order, which ends with the row's UUID.
Lookup(d, i, key) ==
  LET matches == {r \in d.records[i] : IsPrefix(key, r.key)}
      first == {r \in matches : \A s \in matches : r.row <= s.row}
  IN  {r.row : r \in first} \cap Visible(d, d.index[i].on)

-----------------------------------------------------------------------------
(* Maintaining the records *)

\* Fault: the row's UUID, with which a record ends, is compared as well.
ClashesWhole(d, i, records, r) ==
  /\ d.index[i].unique
  /\ \A k \in DOMAIN r.key : r.key[k] # Null
  /\ r \in records

\* A key without nulls that another record of a unique index already has.
Clashes(d, i, records, r) ==
  /\ d.index[i].unique
  /\ \A k \in DOMAIN r.key : r.key[k] # Null
  /\ \E s \in records : IsPrefix(r.key, s.key)

\* What these rows have in an index, by what was read of them.
RecordsOf(d, i, rows, read) == UNION {{Record(d, i, w, v) : v \in read[w]} : w \in rows}

\* Fault: the records of the values a row had are left.
MovedKeeping(d, i, rows, old, new) ==
  d.records[i] \cup RecordsOf(d, i, rows, new)

\* The records of an index once these rows went from what was read of them to
\* something new.
Moved(d, i, rows, old, new) ==
  (d.records[i] \ RecordsOf(d, i, rows, old)) \cup RecordsOf(d, i, rows, new)

\* The rows go one after another, in the order of their UUIDs, and each may clash
\* with what those before it have by then.
RowClashes(d, i, rows, old, new, w) ==
  LET before == Moved(d, i, {x \in rows : x < w}, old, new)
  IN  \E r \in RecordsOf(d, i, {w}, new) : Clashes(d, i, before \ RecordsOf(d, i, {w}, old), r)

\* The records of rows of table t follow what they have become; any failure
\* fails them all.
UpdateRecords(d, t, rows, old, new, enforce) ==
  IF /\ rows # {} => SchemaReads(d, t)
     /\ enforce => \A i \in IndexesOf(d, t), w \in rows : ~RowClashes(d, i, rows, old, new, w)
  THEN {[d EXCEPT !.records =
           [i \in Index |-> IF i \in IndexesOf(d, t) THEN Moved(d, i, rows, old, new) ELSE @[i]]]}
  ELSE {}

\* Nothing is read of any row.
NoneRead == [w \in Row |-> {}]

\* Fault: records are made for the rows, and those there were are left.
RebuildKeeping(d, t) ==
  UpdateRecords(d, t, Visible(d, t), NoneRead, Read(d, t), FALSE)

\* The records of a table's indexes are removed and made again from its rows.
RebuildTable(d, t) ==
  LET cleared == [d EXCEPT !.records = [i \in Index |-> IF i \in IndexesOf(d, t) THEN {} ELSE @[i]]]
  IN  IF SchemaReads(d, t)
      THEN UpdateRecords(cleared, t, Visible(d, t), NoneRead, Read(d, t), TRUE)
      ELSE {}

-----------------------------------------------------------------------------
(* Local statements on rows *)

Overlay(f, g) == [c \in DOMAIN f \cup DOMAIN g |-> IF c \in DOMAIN g THEN g[c] ELSE f[c]]

\* The documents of some rows are changed, and their records follow.
Materialize(d, t, rows, enforce) ==
  LET written == [d EXCEPT !.row[t] = Overlay(@, rows)]
  IN  UpdateRecords(written, t, DOMAIN rows, Read(d, t), Read(written, t), enforce)

Only(w, row) == [x \in {w} |-> row]
Deleted == [state |-> "deleted", doc |-> NoFunction]

\* INSERT: the primary key is not in use and was not deleted.
Insert(d, t, w, values) ==
  IF Active(d, t) /\ d.row[t][w].state = "none"
  THEN Materialize(d, t, Only(w, [state |-> "live", doc |-> values]), TRUE)
  ELSE {}

\* The visible rows whose column has the value.
Matching(d, t, c, v) == {w \in Visible(d, t) : c \in DOMAIN d.field[t] /\ Values(d, t, w)[c] = v}

\* UPDATE of all matching rows, one after another.
UpdateRows(d, t, rows, assigned) ==
  IF Active(d, t)
  THEN Materialize(d, t, [w \in rows |-> [d.row[t][w] EXCEPT !.doc = Overlay(@, assigned)]], TRUE)
  ELSE {}

\* DELETE of all matching rows.
DeleteRows(d, t, rows) ==
  IF Active(d, t)
  THEN Materialize(d, t, [w \in rows |-> Deleted], TRUE)
  ELSE {}

-----------------------------------------------------------------------------
(* Local statements on the catalog *)

\* CREATE TABLE: a dropped table comes back with the fields and rows it had.
CreateTable(d, t, fields) ==
  IF Active(d, t) THEN {}
  ELSE LET created == [d EXCEPT !.table[t] = "active"]
           declared == [created EXCEPT !.field[t] = Overlay(fields, @)]
       IN  IF RebuildTable(created, t) = {} THEN {} ELSE RebuildTable(declared, t)

\* DROP TABLE only marks the table's entry.
DropTable(d, t) == IF Active(d, t) THEN {[d EXCEPT !.table[t] = "dropped"]} ELSE {}

\* ALTER TABLE ADD COLUMN.
AddColumn(d, t, c, default) ==
  IF Active(d, t) /\ c \notin DOMAIN d.field[t]
  THEN RebuildTable([d EXCEPT !.field[t] = Overlay(@, Only(c, default))], t)
  ELSE {}

Exists(d, i) == d.index[i].state = "active"

\* The index's entry and its parts are written over those it had.
DefineIndex(d, i, t, columns, unique) ==
  LET parts == [p \in DOMAIN columns |-> [column |-> columns[p], deleted |-> FALSE]]
      declared == [d EXCEPT !.index[i] = [state |-> "active", on |-> t, unique |-> unique],
                            !.part[i] = Overlay(@, parts)]
  IN  IF Active(d, t) /\ \A p \in DOMAIN columns : columns[p] \in DOMAIN d.field[t]
      THEN RebuildTable(declared, t)
      ELSE {}

\* CREATE INDEX.  When the index exists, IF NOT EXISTS lets a schema given with
\* resolved columns define it anew.
CreateIndex(d, i, t, columns, unique, ifNotExists) ==
  IF Exists(d, i) => Resolves(d, i) /\ ifNotExists THEN DefineIndex(d, i, t, columns, unique) ELSE {}

\* CREATE TABLE with an index, in one statement; no index is looked for.
CreateTableWithIndex(d, t, fields, i, columns, unique) ==
  UNION {DefineIndex(e, i, t, columns, unique) : e \in CreateTable(d, t, fields)}

\* Fault: the entry is replaced by a bare mark.
DropIndexEntry(d, i) ==
  IF Exists(d, i) /\ Resolves(d, i)
  THEN {[d EXCEPT !.index[i] = [state |-> "dropped"], !.records[i] = {}]}
  ELSE {}

\* DROP INDEX: its entry and its parts are marked, its records removed.
DropIndex(d, i) ==
  IF Exists(d, i) /\ Resolves(d, i)
  THEN {[d EXCEPT !.index[i].state = "dropped",
                  !.part[i] = [p \in DOMAIN @ |-> [@[p] EXCEPT !.deleted = TRUE]],
                  !.records[i] = {}]}
  ELSE {}

-----------------------------------------------------------------------------
(* What peers send *)

\* Fault: a row from a peer is stored and its records are not updated.
ReceiveUnindexed(d, t, w, row) ==
  IF row.state = "deleted" \/ d.row[t][w].state = "deleted"
  THEN Materialize(d, t, Only(w, Deleted), FALSE)
  ELSE {[d EXCEPT !.row[t][w] = [row EXCEPT !.doc = Overlay(d.row[t][w].doc, @)]]}

\* A merged row, or a deletion: its records follow, without a check of
\* uniqueness.  A deleted row keeps no visible values.
ReceiveRow(d, t, w, row) ==
  IF row.state = "deleted" \/ d.row[t][w].state = "deleted"
  THEN Materialize(d, t, Only(w, Deleted), FALSE)
  ELSE Materialize(d, t, Only(w, [row EXCEPT !.doc = Overlay(d.row[t][w].doc, @)]), FALSE)

\* One catalog entry is stored as it came.
ReceiveTable(d, t, state) == {[d EXCEPT !.table[t] = state]}
ReceiveField(d, t, c, default) == {[d EXCEPT !.field[t] = Overlay(@, Only(c, default))]}
ReceiveIndex(d, i, entry) == {[d EXCEPT !.index[i] = entry]}
ReceivePart(d, i, p, entry) == {[d EXCEPT !.part[i] = Overlay(@, Only(p, entry))]}

-----------------------------------------------------------------------------

Commit(ds) == db' \in ds

RowStatement ==
  \E t \in Table :
    \/ \E w \in Row : \E values \in [DOMAIN db.field[t] -> Datum] : Commit(Insert(db, t, w, values))
    \/ \E rows \in {Matching(db, t, c, v) : c \in Column, v \in Datum} \cup {{w} : w \in Visible(db, t)} :
         \/ \E assigned \in Some(Datum) \ {NoFunction} :
              DOMAIN assigned \subseteq DOMAIN db.field[t] /\ Commit(UpdateRows(db, t, rows, assigned))
         \/ Commit(DeleteRows(db, t, rows))

CatalogStatement ==
  \/ \E t \in Table :
       \/ \E fields \in Some(Defaults) : Commit(CreateTable(db, t, fields))
       \/ Commit(DropTable(db, t))
       \/ \E c \in Column, default \in Defaults : Commit(AddColumn(db, t, c, default))
  \/ \E t \in Table, i \in Index, columns \in Definitions, unique \in BOOLEAN :
       \/ \E ifNotExists \in BOOLEAN : Commit(CreateIndex(db, i, t, columns, unique, ifNotExists))
       \/ \E fields \in Some(Defaults) : Commit(CreateTableWithIndex(db, t, fields, i, columns, unique))
  \/ \E i \in Index : Commit(DropIndex(db, i))

Local == RowStatement \/ CatalogStatement

Merge ==
  \E t \in Table, w \in Row :
    \/ \E doc \in Some(Datum) : Commit(ReceiveRow(db, t, w, [state |-> "live", doc |-> doc]))
    \/ Commit(ReceiveRow(db, t, w, Deleted))

Import ==
  /\ PeerCatalogs
  /\ \/ \E t \in Table : \E state \in {"active", "dropped"} : Commit(ReceiveTable(db, t, state))
     \/ \E t \in Table, c \in Column, default \in Defaults : Commit(ReceiveField(db, t, c, default))
     \/ \E i \in Index, entry \in IndexEntry : Commit(ReceiveIndex(db, i, entry))
     \/ \E i \in Index, p \in Position, entry \in PartEntry : Commit(ReceivePart(db, i, p, entry))

Next == Local \/ Merge \/ Import

Spec == Init /\ [][Next]_db

-----------------------------------------------------------------------------
(* Properties *)

Exact(d, t) ==
  \A i \in Ready(d, t) : d.records[i] = {Record(d, i, w, Values(d, t, w)) : w \in Visible(d, t)}

\* The records of an index are exactly those of the visible rows of its table,
\* after every statement and every merged row: an update or a merge leaves no
\* record of the values it replaced, a failed statement leaves none of what it
\* did first, and a table, column or index created over existing rows has them
\* all.  It holds while catalog entries come from the engine's own statements.
IndexesExact == \A t \in Table : Active(db, t) => Exact(db, t)

\* A statement that changes the schema of a table leaves the indexes of the table
\* exact, whatever catalog entries and rows came from peers before.
Repair ==
  CatalogStatement =>
    \A t \in Table :
      LET changed == \/ db'.table[t] # db.table[t] \/ db'.field[t] # db.field[t]
                     \/ \E i \in IndexesOf(db', t) : db'.index[i] # db.index[i]
      IN  Active(db', t) /\ changed => Exact(db', t)

StatementsRepair == [][Repair]_db

\* Two visible rows that a unique index of an active table holds under one key
\* without nulls.
Contend(d, i, w, x) ==
  LET t == d.index[i].on
      key == Key(d, i, Values(d, t, w))
  IN  /\ d.index[i].state = "active" /\ d.index[i].unique
      /\ w < x /\ {w, x} \subseteq Visible(d, t)
      /\ Active(d, t)
      /\ key = Key(d, i, Values(d, t, x))
      /\ \A k \in DOMAIN key : key[k] # Null

Duplicates(d) == {p \in Index \X Row \X Row : Contend(d, p[1], p[2], p[3])}

\* A step that adds contenders to a unique key is no local statement: not one
\* that inserts, updates many rows one after another, or declares an index over
\* the rows there are, nor with rows already contending that peers sent.
Enforced == Duplicates(db') \subseteq Duplicates(db) \/ ~Local

UniqueEnforced == [][Enforced]_db

\* An index lookup selects the visible row with the lowest UUID among those
\* that have the key, however many contend and whatever was merged before.
LookupCanonical ==
  \A t \in Table :
    Active(db, t) =>
      \A i \in IndexesOf(db, t), w \in Visible(db, t) :
        LET key == Key(db, i, Values(db, t, w))
            holders == {x \in Visible(db, t) : Key(db, i, Values(db, t, x)) = key}
        IN  Lookup(db, i, key) = {x \in holders : \A y \in holders : x <= y}

\* A table that was dropped can be created again and then has its rows and
\* indexes.  The code rebuilds its unique indexes with uniqueness enforced and
\* fails when peers' rows contend in one.
Recreatable ==
  \A t \in Table : db.table[t] = "dropped" => CreateTable(db, t, NoFunction) # {}
=============================================================================
