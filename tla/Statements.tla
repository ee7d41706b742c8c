----------------------------- MODULE Statements -----------------------------
(***************************************************************************)
(* What statements say and what they do: SQL as it is translated, and its  *)
(* execution on the rows of one table.  The schema of the executor and the *)
(* columns of the row codec are both read from the table's field entries,  *)
(* and a row passes between the two as a list of values with no names.     *)
(*                                                                         *)
(* A statement maps the database to the set of its outcomes, each a        *)
(* database and an answer: the empty set when it fails.  Indexes are       *)
(* IndexRecords' subject, conflicts and entries of documents RowStore's.   *)
(***************************************************************************)
EXTENDS Expressions, FiniteSets, Sequences, SequencesExt

CONSTANTS
  Column,      (* names of columns, as numbers in their order             *)
  Row,         (* row UUIDs, as numbers                                   *)
  Literal,     (* the values statements write                             *)
  Schemas,     (* bound: the lists of columns tables are created with     *)
  Additions,   (* bound: the lists of columns ALTER TABLE adds            *)
  PeerFields   (* bound: the field entries peers send                     *)

VARIABLE
  db  \* the committed database

Datum == Literal \cup {Null} \cup {Uuid(w) : w \in Row} \cup {f.entry.default : f \in PeerFields}

ColumnDefinition == [name : Column, default : Datum, key : BOOLEAN]
FieldEntry == [default : Datum, position : Nat, key : BOOLEAN]

ASSUME ColumnAssumption == IsFiniteSet(Column) /\ Column \subseteq Nat
ASSUME LiteralAssumption == Literal \subseteq Nat \X Nat
ASSUME SchemaAssumption == \A columns \in Schemas \cup Additions : columns \in Seq(ColumnDefinition)
ASSUME PeerAssumption == \A f \in PeerFields : f.name \in Column /\ f.entry \in FieldEntry

\* DEFAULT in a list of VALUES.
Default == <<>>

\* Functions of some columns, and whether one is.
Some(S) == UNION {[C -> S] : C \in SUBSET Column}
Partial(f, S) == DOMAIN f \subseteq Column /\ \A c \in DOMAIN f : f[c] \in S
NoFunction == [c \in {} |-> Null]

\* Documents are functions of columns to values, and only of live rows (the row
\* codec's entries, row_is_deleted).
StatementsTypeOK ==
  /\ db.table \in {"absent", "active", "dropped"}
  /\ Partial(db.field, FieldEntry)
  /\ \A w \in Row :
       /\ db.row[w].state \in {"none", "live", "deleted"}
       /\ Partial(db.row[w].doc, Datum)
       /\ db.row[w].state # "live" => db.row[w].doc = NoFunction

StatementsInit ==
  db = [table |-> "absent",
        field |-> NoFunction,
        row |-> [w \in Row |-> [state |-> "none", doc |-> NoFunction]]]

Overlay(f, g) == [c \in DOMAIN f \cup DOMAIN g |-> IF c \in DOMAIN g THEN g[c] ELSE f[c]]

-----------------------------------------------------------------------------
(* Schemas and rows *)

Active(d) == d.table = "active"

\* A set as a list in the order that Before gives.
Listed(S, Before(_, _)) ==
  [n \in 1 .. Cardinality(S) |-> CHOOSE c \in S : Cardinality({e \in S : Before(e, c)}) = n - 1]

ByName(c, e) == c < e

\* Fields are ordered by position, and by name where positions are equal.
\* The columns of the executor's schema,
SchemaColumns(d) ==
  Listed(DOMAIN d.field,
         LAMBDA c, e : \/ d.field[c].position < d.field[e].position
                       \/ d.field[c].position = d.field[e].position /\ c < e)

\* Fault: fields come in the order in which they are stored, that of names.
CodecColumnsByName(d) == Listed(DOMAIN d.field, ByName)

\* and those of the row codec.
CodecColumns(d) ==
  Listed(DOMAIN d.field,
         LAMBDA c, e : \/ d.field[c].position < d.field[e].position
                       \/ d.field[c].position = d.field[e].position /\ c < e)

Place(columns, c) == CHOOSE n \in DOMAIN columns : columns[n] = c

\* decode_row: the values of a document in the order of the codec's columns.
Decode(d, columns, doc) ==
  [n \in DOMAIN columns |->
     IF columns[n] \in DOMAIN doc THEN doc[columns[n]] ELSE d.field[columns[n]].default]

\* update_document_columns: what the places of a row put into its document.
Encode(d, row, places) ==
  LET columns == CodecColumns(d)
  IN  [c \in {columns[n] : n \in places} |-> row[Place(columns, c)]]

\* materialize_defaults: a row that is too short ends with defaults.
Padded(d, columns, row) ==
  [n \in DOMAIN columns |-> IF n \in DOMAIN row THEN row[n] ELSE d.field[columns[n]].default]

Visible(d) == {w \in Row : d.row[w].state = "live"}

\* scan_rows: the visible rows, as the executor reads them.
Rows(d) ==
  LET schema == SchemaColumns(d)
      columns == CodecColumns(d)
  IN  [w \in Visible(d) |-> Padded(d, schema, Decode(d, columns, d.row[w].doc))]

\* A row's values by the names of their columns.
Named(columns, row) == [c \in ToSet(columns) |-> row[Place(columns, c)]]

Keys(d) == {c \in DOMAIN d.field : d.field[c].key}

\* row_id: the UUID in the one primary key there must be.
RowId(d, row) ==
  LET value(c) == row[Place(SchemaColumns(d), c)]
  IN  {value(c)[2] : c \in {c \in Keys(d) : Keys(d) = {c} /\ IsUuid(value(c))}}

FirstKey(d) ==
  LET columns == SchemaColumns(d)
  IN  CHOOSE n \in DOMAIN columns :
        columns[n] \in Keys(d) /\ \A m \in DOMAIN columns : columns[m] \in Keys(d) => n <= m

\* A UUID of the provider was not used before.
Fresh(d) == {w \in Row : d.row[w].state = "none"}

Unchanged(d, answer) == {[db |-> d, answer |-> answer]}
NoRows == [w \in {} |-> <<>>]

-----------------------------------------------------------------------------
(* SELECT *)

\* The columns of a projection, "*" being all of them.
Project(d, projection) ==
  LET item(p) == IF p = "*" THEN SchemaColumns(d) ELSE <<p>>
  IN  FlattenSeq([n \in DOMAIN projection |-> item(projection[n])])

\* The visible rows, by the names of their columns.
Shown(d) ==
  LET schema == SchemaColumns(d)
      rows == Rows(d)
  IN  [w \in Visible(d) |-> Named(schema, rows[w])]

\* Unknown columns fail a projection always, and a predicate where a row is read.
Select(d, s) ==
  LET columns == Project(d, s.projection)
      shown == Shown(d)
      verdict == [w \in Visible(d) |-> Evaluate(shown[w], s.where)]
      chosen == {w \in Visible(d) : verdict[w] = {Yes}}
  IN  IF /\ Active(d)
         /\ \A n \in DOMAIN columns : columns[n] \in DOMAIN d.field
         /\ \A w \in Visible(d) : verdict[w] # {}
      THEN Unchanged(d, [w \in chosen |-> [n \in DOMAIN columns |-> shown[w][columns[n]]]])
      ELSE {}

-----------------------------------------------------------------------------
(* INSERT *)

\* materialize_insert: a short row begins with a new key, when the key is first.
Materialized(d, row) ==
  IF Len(row) > Cardinality(DOMAIN d.field) \/ Keys(d) = {} THEN {}
  ELSE IF Len(row) < Cardinality(DOMAIN d.field) /\ FirstKey(d) = 1
       THEN {Padded(d, SchemaColumns(d), <<Uuid(w)>> \o row) : w \in Fresh(d)}
       ELSE {Padded(d, SchemaColumns(d), row)}

\* The primary key is not in use and was not deleted.
InsertRow(d, row, returning) ==
  LET columns == Project(d, returning)
      stored(r) == [state |-> "live", doc |-> Encode(d, r, DOMAIN r)]
      answer(r) == [n \in DOMAIN columns |-> r[Place(SchemaColumns(d), columns[n])]]
  IN  IF Active(d) /\ \A n \in DOMAIN columns : columns[n] \in DOMAIN d.field
      THEN UNION {{[db |-> [d EXCEPT !.row[w] = stored(r)],
                    answer |-> IF returning = <<>> THEN NoRows ELSE [x \in {w} |-> answer(r)]]
                   : w \in RowId(d, r) \cap Fresh(d)}
                  : r \in Materialized(d, row)}
      ELSE {}

\* Fault: values are taken in the order they are written in.
InsertInOrder(d, s) ==
  LET schema == SchemaColumns(d)
      row(w) == [n \in DOMAIN schema |->
                   IF n \in DOMAIN s.values /\ s.values[n] # Default THEN s.values[n]
                   ELSE IF n = FirstKey(d) THEN Uuid(w) ELSE d.field[schema[n]].default]
  IN  IF Active(d) /\ Keys(d) # {}
      THEN UNION {InsertRow(d, row(w), s.returning) : w \in Fresh(d)} ELSE {}

\* insert_values: columns that are left out or DEFAULT have their defaults, and
\* a primary key a new UUID.
InsertValues(d, s) ==
  LET schema == SchemaColumns(d)
      names == IF s.columns = <<>> THEN schema ELSE s.columns
      given == {n \in DOMAIN names : s.values[n] # Default}
      gives(c) == \E n \in given : names[n] = c
      row(w) == [n \in DOMAIN schema |->
                   IF gives(schema[n]) THEN s.values[Place(names, schema[n])]
                   ELSE IF n = FirstKey(d) THEN Uuid(w) ELSE d.field[schema[n]].default]
      issued == IF gives(schema[FirstKey(d)]) THEN {0} ELSE Fresh(d)
  IN  IF /\ Active(d) /\ Keys(d) # {}
         /\ Len(names) = Len(s.values)
         /\ ToSet(names) \subseteq DOMAIN d.field
         /\ Cardinality(ToSet(names)) = Len(names)
      THEN UNION {InsertRow(d, row(w), s.returning) : w \in issued}
      ELSE {}

-----------------------------------------------------------------------------
(* UPDATE and DELETE *)

\* Fault: a column the row does not have is not compared.
MatchingStored(d, where) ==
  {w \in Visible(d) : where.column \in DOMAIN d.row[w].doc /\ d.row[w].doc[where.column] = where.value}

\* matching_rows: the value is compared as it is, a null with nulls too.
Matching(d, where) ==
  LET rows == Rows(d)
      place == Place(SchemaColumns(d), where.column)
  IN  {w \in Visible(d) : rows[w][place] = where.value}

\* The one column = value of a predicate, in either order.
Equality(e) ==
  IF e.op # "=" THEN {}
  ELSE {[column |-> p[1].column, value |-> p[2].value]
        : p \in {q \in {<<e.left, e.right>>, <<e.right, e.left>>} : q[1].op = "column" /\ q[2].op = "value"}}

\* assignments: later ones of a column replace earlier ones.
Assigned(s) ==
  LET last(c) == CHOOSE n \in DOMAIN s.assignments :
        /\ s.assignments[n].column = c
        /\ \A m \in DOMAIN s.assignments : s.assignments[m].column = c => m <= n
  IN  [c \in {a.column : a \in ToSet(s.assignments)} |-> s.assignments[last(c)].value]

\* update_rows.  A row that stores all the assigned values already may be no change
\* for Automerge and then fails the statement: like any failure, it leaves the
\* database as it was.
UpdateRows(d, s) ==
  LET schema == SchemaColumns(d)
      assigned == Assigned(s)
      places == {n \in DOMAIN schema : schema[n] \in DOMAIN assigned}
      read == Rows(d)
      row(w) == [n \in DOMAIN schema |-> IF n \in places THEN assigned[schema[n]] ELSE read[w][n]]
      Outcomes(where) ==
        LET rows == Matching(d, where)
            updated == [d EXCEPT !.row = [w \in Row |->
              IF w \in rows THEN [d.row[w] EXCEPT !.doc = Overlay(@, Encode(d, row(w), places))]
              ELSE d.row[w]]]
        IN  IF \A w \in rows : RowId(d, row(w)) = {w} THEN Unchanged(updated, NoRows) ELSE {}
      known == {where \in Equality(s.where) : where.column \in DOMAIN d.field}
  IN  IF Active(d) /\ assigned # NoFunction /\ DOMAIN assigned \subseteq DOMAIN d.field \ Keys(d)
      THEN UNION {Outcomes(where) : where \in known}
      ELSE {}

\* Fault: a deleted row keeps its document.
DeleteKeeping(d, s) ==
  LET deleted(rows) == [d EXCEPT !.row = [w \in Row |->
        IF w \in rows THEN [d.row[w] EXCEPT !.state = "deleted"] ELSE d.row[w]]]
      known == {where \in Equality(s.where) : where.column \in DOMAIN d.field}
  IN  IF Active(d) THEN UNION {Unchanged(deleted(Matching(d, where)), NoRows) : where \in known} ELSE {}

\* delete_rows.
DeleteRows(d, s) ==
  LET deleted(rows) == [d EXCEPT !.row = [w \in Row |->
        IF w \in rows THEN [state |-> "deleted", doc |-> NoFunction] ELSE d.row[w]]]
      known == {where \in Equality(s.where) : where.column \in DOMAIN d.field}
  IN  IF Active(d) THEN UNION {Unchanged(deleted(Matching(d, where)), NoRows) : where \in known} ELSE {}

-----------------------------------------------------------------------------
(* SQL.  A statement's `clauses` are those of its clauses that the query model *)
(* has no place for; an INSERT has a list of rows, each a list of values.      *)

\* What the translator, or for a join the executor, refuses.
Refused(kind) ==
  CASE kind = "select" -> {"with", "union", "order by", "limit", "distinct", "group by", "having",
                           "many tables", "join"}
    [] kind = "delete" -> {"many tables", "join"}
    [] OTHER -> {}

\* What a parser accepts and the translator drops: of a SELECT, an INSERT, and of
\* the rest.
DroppedOfSelect == {"for update"}
DroppedOfInsert == {"on conflict"}
Dropped(kind) ==
  CASE kind = "select" -> DroppedOfSelect
    [] kind = "insert" -> DroppedOfInsert
    [] kind = "update" -> {"returning", "from", "join"}
    [] kind = "delete" -> {"returning", "using"}

\* translate_insert_values: the rows after the first are not read.
Translate(sql) ==
  IF sql.clauses \cap Refused(sql.kind) # {} THEN {}
  ELSE IF sql.kind # "insert" THEN {sql}
  ELSE {[kind |-> "insert_values", columns |-> sql.columns, values |-> sql.rows[1],
         returning |-> sql.returning]}

\* execute_query.
Execute(d, statement) ==
  CASE statement.kind = "select" -> Select(d, statement)
    [] statement.kind = "insert" -> InsertRow(d, statement.row, statement.returning)
    [] statement.kind = "insert_values" -> InsertValues(d, statement)
    [] statement.kind = "update" -> UpdateRows(d, statement)
    [] statement.kind = "delete" -> DeleteRows(d, statement)

Run(d, sql) == UNION {Execute(d, statement) : statement \in Translate(sql)}

-----------------------------------------------------------------------------
(* The table *)

\* A column that has an entry keeps it; positions count from `first`.
AddColumns(d, columns, first) ==
  LET added == [c \in {columns[n].name : n \in DOMAIN columns} |->
        LET n == CHOOSE m \in DOMAIN columns : columns[m].name = c
        IN  [default |-> columns[n].default, position |-> first + n - 1, key |-> columns[n].key]]
  IN  [d EXCEPT !.field = Overlay(added, @)]

\* CREATE TABLE with exactly one primary key; a dropped table has its old fields.
CreateTable(d, columns) ==
  IF ~Active(d) /\ Cardinality({n \in DOMAIN columns : columns[n].key}) = 1
  THEN {AddColumns([d EXCEPT !.table = "active"], columns, 0)} ELSE {}

DropTheTable(d) == IF Active(d) THEN {[d EXCEPT !.table = "dropped"]} ELSE {}

\* ALTER TABLE ADD COLUMN, all of its columns or none.
AlterTable(d, columns) ==
  IF /\ Active(d)
     /\ \A n \in DOMAIN columns : columns[n].name \notin DOMAIN d.field /\ ~columns[n].key
     /\ \A m, n \in DOMAIN columns : columns[m].name = columns[n].name => m = n
  THEN {AddColumns(d, columns, Cardinality(DOMAIN d.field))} ELSE {}

-----------------------------------------------------------------------------
(* What peers send.  Their rows come after the fields of the table. *)

ReceiveTable(d, state) == {[d EXCEPT !.table = state]}

ReceiveField(d, c, entry) == {[d EXCEPT !.field = Overlay(@, [x \in {c} |-> entry])]}

ReceiveRow(d, w, doc) ==
  IF d.table = "dropped" \/ Keys(d) = {} THEN {}
  ELSE IF d.row[w].state = "deleted" THEN {d}
  ELSE {[d EXCEPT !.row[w] = [state |-> "live", doc |-> Overlay(@.doc, doc)]]}

ReceiveDeletion(d, w) ==
  IF d.table = "dropped" THEN {} ELSE {[d EXCEPT !.row[w] = [state |-> "deleted", doc |-> NoFunction]]}

-----------------------------------------------------------------------------
(* The statements there are *)

Written == Literal \cup {Null}
Everything == <<"*">>
Reversed(list) == [n \in DOMAIN list |-> list[Len(list) + 1 - n]]

\* What INSERT gives to some of the columns, listed one way or the other.
Gifts(d) ==
  UNION {{Overlay(f, g) : f \in [C \ Keys(d) -> Written \cup {Default}],
                          g \in [C \cap Keys(d) -> {Default} \cup {Uuid(w) : w \in Row}]}
         : C \in SUBSET DOMAIN d.field}

InsertOf(list, g, rows) ==
  LET values == [n \in DOMAIN list |-> g[list[n]]]
  IN  [kind |-> "insert", columns |-> list, rows |-> [n \in 1 .. rows |-> values],
       returning |-> Everything, clauses |-> {}]

Inserts(d) ==
  UNION {LET list == Listed(DOMAIN g, ByName) IN {InsertOf(list, g, 1), InsertOf(Reversed(list), g, 1)}
         : g \in Gifts(d) \ {NoFunction}}

Equals(d) ==
  {Binary("=", ColumnOf(c), ValueOf(v)) : c \in DOMAIN d.field, v \in Written}
  \cup {Binary("=", ColumnOf(c), ValueOf(Uuid(w))) : c \in Keys(d), w \in Row}

Assignment == [column : Column, value : Written]
AssignmentLists ==
  {<<x>> : x \in Assignment}
  \cup {<<x, y>> : x \in [column : Column, value : {Null}], y \in [column : Column, value : Literal]}

UpdatesOf(d, lists) == [kind : {"update"}, assignments : lists, where : Equals(d), clauses : {{}}]
Updates(d) == UpdatesOf(d, {<<x>> : x \in Assignment})
Deletes(d) == [kind : {"delete"}, where : Equals(d), clauses : {{}}]

\* Steps insert with all columns listed in their order, and assign one column:
\* other lists have the outcomes these have, as the properties say.
FullInserts(d) ==
  {InsertOf(SchemaColumns(d), g, 1) : g \in {g \in Gifts(d) : DOMAIN g = DOMAIN d.field}}

RowStatement ==
  \E sql \in FullInserts(db) \cup Updates(db) \cup Deletes(db) : \E o \in Run(db, sql) : db' = o.db

\* A row given as a list of values, through the engine's own interface.
RowInsert ==
  \E n \in 1 .. Cardinality(Column), v \in Written, w \in Row :
    \E place \in 0 .. n :
      LET row == [m \in 1 .. n |-> IF m = place THEN Uuid(w) ELSE v]
      IN  \E o \in Execute(db, [kind |-> "insert", row |-> row, returning |-> Everything]) : db' = o.db

TableStatement ==
  \/ \E columns \in Schemas : db' \in CreateTable(db, columns)
  \/ \E columns \in Additions : db' \in AlterTable(db, columns)
  \/ db' \in DropTheTable(db)

Peer ==
  \/ \E state \in {"active", "dropped"} : db' \in ReceiveTable(db, state)
  \/ \E f \in PeerFields : db' \in ReceiveField(db, f.name, f.entry)
  \/ \E w \in Row, k \in Keys(db), doc \in Some(Literal) :
       db' \in ReceiveRow(db, w, Overlay(doc, [c \in {k} |-> Uuid(w)]))
  \/ \E w \in Row : db' \in ReceiveDeletion(db, w)

StatementsNext == RowStatement \/ RowInsert \/ TableStatement \/ Peer

StatementsSpec == StatementsInit /\ [][StatementsNext]_db

-----------------------------------------------------------------------------
(* Properties *)

SelectWhere(e) == [kind |-> "select", projection |-> Everything, where |-> e, clauses |-> {}]
All(d) == Select(d, SelectWhere(ValueOf(Yes)))

Operands(d) == {ValueOf(v) : v \in Written} \cup {ColumnOf(c) : c \in DOMAIN d.field}
Comparisons(d) ==
  {Binary(op, e, f) : op \in Comparison, e \in Operands(d), f \in Operands(d)}
  \cup {IsNull(e) : e \in Operands(d)} \cup {IsNotNull(e) : e \in Operands(d)}
Predicates(d) ==
  LET parts == {ColumnOf(c) : c \in DOMAIN d.field} \cup {e \in Equals(d) : ~IsUuid(e.right.value)}
  IN  Operands(d) \cup Comparisons(d) \cup {Binary(op, e, f) : op \in {"and", "or"}, e \in parts, f \in parts}

\* WHERE selects the rows for which SQL's three-valued logic calls the predicate
\* true, however values, nulls, defaults and columns of other types meet in it
\* (predicate_matches, which knows only true and false).  It holds of predicates
\* that compare values and columns, not the results of comparisons.
SelectsLikeSql ==
  Active(db) =>
    \A e \in Predicates(db) : \A o \in Run(db, SelectWhere(e)) :
      DOMAIN o.answer = {w \in Visible(db) : Truth(Shown(db)[w], e) = 2}

\* What an INSERT gives, by the names of the columns, and the rest of its row.
Given(sql) ==
  LET values == sql.rows[1]
  IN  [c \in {sql.columns[n] : n \in {n \in DOMAIN values : values[n] # Default}} |->
         values[Place(sql.columns, c)]]
Defaults(d, w) == [c \in DOMAIN d.field |-> IF c \in Keys(d) THEN Uuid(w) ELSE d.field[c].default]

\* An INSERT adds one row with a key never used before; the row it returns is the
\* row SELECT shows from then on, each column with the value given for its name
\* or with its default, however the columns are listed and wherever replicas have
\* put their fields (insert_values, the codec's and the schema's columns).
InsertReadsBack ==
  \A sql \in Inserts(db) : \A o \in Run(db, sql) :
    \E w \in Fresh(db) :
      /\ Shown(o.db) = [x \in Visible(db) \cup {w} |->
                          IF x = w THEN Overlay(Defaults(db, w), Given(sql)) ELSE Shown(db)[x]]
      /\ \A a \in All(o.db) : o.answer = [x \in {w} |-> a.answer[w]]

\* What one or two assignments assign.
Latest(a) ==
  [c \in {x.column : x \in ToSet(a)} |-> a[IF a[Len(a)].column = c THEN Len(a) ELSE 1].value]

\* UPDATE and DELETE of the rows where a column equals a value, not null, change
\* exactly the rows SELECT shows for that predicate: of these the named columns
\* have the new values and all else that SELECT shows is as it was, rows whose
\* documents lack a column included (matching_rows, update_document_columns).
ChangesExactly ==
  \A e \in {e \in Equals(db) : e.right.value # Null} : \A s \in Run(db, SelectWhere(e)) :
    LET rows == DOMAIN s.answer
    IN  /\ \A a \in AssignmentLists :
             \A o \in Run(db, [kind |-> "update", assignments |-> a, where |-> e, clauses |-> {}]) :
               Shown(o.db) = [w \in Visible(db) |->
                                IF w \in rows THEN Overlay(Shown(db)[w], Latest(a)) ELSE Shown(db)[w]]
        /\ \A o \in Run(db, [kind |-> "delete", where |-> e, clauses |-> {}]) :
             Shown(o.db) = [w \in Visible(db) \ rows |-> Shown(db)[w]]

\* No change of the schema, by a statement here or by a peer's entry, changes what
\* SELECT shows of the columns a row has stored, wherever the entries put their
\* fields among the others (the codec and the executor agree on columns by their
\* places in two lists, each made from the entries of the moment).
KeepsValues ==
  db'.row = db.row =>
    \A w \in Visible(db) : \A c \in DOMAIN db.row[w].doc \cap DOMAIN db.field :
      Shown(db')[w][c] = Shown(db)[w][c]
ColumnsKeepValues == [][KeepsValues]_db

SqlStatements(d) ==
  UNION {{[s EXCEPT !.clauses = {clause}] : clause \in Dropped(s.kind) \cup Refused(s.kind)} \cup {s}
         : s \in Updates(d) \cup Deletes(d) \cup {SelectWhere(e) : e \in Equals(d)}
                 \cup {InsertOf(Listed(DOMAIN g, ByName), g, n) : g \in Gifts(d) \ {NoFunction}, n \in 1 .. 2}}

\* docs/design.md: the executor rejects unsupported query shapes rather than
\* silently discarding clauses.  The translator leaves clauses out before the
\* executor sees the statement, and all but the first row of VALUES.
NothingDiscarded ==
  \A sql \in SqlStatements(db) : \A o \in Run(db, sql) :
    /\ sql.clauses = {}
    /\ sql.kind = "insert" => Cardinality(Visible(o.db)) = Cardinality(Visible(db)) + Len(sql.rows)
=============================================================================
