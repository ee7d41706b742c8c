-------------------------- MODULE Statements_proofs --------------------------
(***************************************************************************)
(* Proofs about Statements, for any columns, rows, values, lists of        *)
(* columns that tables are created with and field entries of peers.        *)
(*                                                                         *)
(* A row is a list of values in two places and a function of its columns   *)
(* in a third.  First the lists of columns, each of which has every column *)
(* once; from that what SELECT shows of a row, without lists; and then the *)
(* statements.                                                             *)
(***************************************************************************)
EXTENDS Statements, FiniteSetTheorems, TLAPS

-----------------------------------------------------------------------------
(* Sets as lists *)

\* A list has every element of a set, and once.
Lists(list, S) ==
  /\ DOMAIN list = 1 .. Cardinality(S)
  /\ list = [n \in DOMAIN list |-> list[n]]
  /\ \A n \in DOMAIN list : list[n] \in S
  /\ \A c \in S : \E n \in DOMAIN list : list[n] = c
  /\ \A m, n \in DOMAIN list : list[m] = list[n] => m = n

\* A strict total order of a set, as a set of pairs.
Orders(R, S) ==
  /\ \A c \in S : <<c, c>> \notin R
  /\ \A c, e, f \in S : <<c, e>> \in R /\ <<e, f>> \in R => <<c, f>> \in R
  /\ \A c, e \in S : c = e \/ <<c, e>> \in R \/ <<e, c>> \in R

Below(c, R, S) == {e \in S : <<e, c>> \in R}
Rank(c, R, S) == Cardinality(Below(c, R, S))

\* The ranks of a finite set's elements are the numbers from 0 on, each once.
LEMMA Ranks ==
  ASSUME NEW S, IsFiniteSet(S), NEW R, Orders(R, S)
  PROVE  /\ Cardinality(S) \in Nat
         /\ \A c \in S : Rank(c, R, S) \in 0 .. Cardinality(S) - 1
         /\ \A c, e \in S : Rank(c, R, S) = Rank(e, R, S) => c = e
         /\ \A n \in 0 .. Cardinality(S) - 1 : \E c \in S : Rank(c, R, S) = n
<1> DEFINE N == Cardinality(S)
           rank == [c \in S |-> Rank(c, R, S)]
<1>1. N \in Nat
  BY FS_CardinalityType
<1>2. ASSUME NEW c \in S
      PROVE  IsFiniteSet(Below(c, R, S)) /\ Rank(c, R, S) \in 0 .. N - 1
  <2>1. Below(c, R, S) \in SUBSET S /\ Below(c, R, S) # S
    BY DEF Below, Orders
  <2>2. IsFiniteSet(Below(c, R, S)) /\ Rank(c, R, S) <= N /\ Rank(c, R, S) # N
    BY <2>1, FS_Subset DEF Rank
  <2>3. Rank(c, R, S) \in Nat
    BY <2>2, FS_CardinalityType DEF Rank
  <2> QED BY <1>1, <2>2, <2>3
<1>3. ASSUME NEW c \in S, NEW e \in S, <<c, e>> \in R
      PROVE  Rank(c, R, S) < Rank(e, R, S)
  <2>1. Below(c, R, S) \in SUBSET Below(e, R, S) /\ c \in Below(e, R, S) /\ c \notin Below(c, R, S)
    BY <1>3 DEF Below, Orders
  <2>2. Rank(c, R, S) <= Rank(e, R, S) /\ Rank(c, R, S) # Rank(e, R, S)
    BY <2>1, <1>2, FS_Subset DEF Rank
  <2> QED BY <1>1, <1>2, <2>2
<1>4. ASSUME NEW c \in S, NEW e \in S, Rank(c, R, S) = Rank(e, R, S)
      PROVE  c = e
  <2>1. ~(Rank(c, R, S) < Rank(e, R, S)) /\ ~(Rank(e, R, S) < Rank(c, R, S))
    BY <1>1, <1>2, <1>4
  <2>2. <<c, e>> \notin R /\ <<e, c>> \notin R
    BY <2>1, <1>3
  <2> QED BY <2>2 DEF Orders
<1>5. rank \in Injection(S, 0 .. N - 1)
  BY <1>2, <1>4 DEF Injection, IsInjective
<1>6. rank \in Surjection(S, 0 .. N - 1)
  <2>1. IsFiniteSet(0 .. N - 1) /\ Cardinality(0 .. N - 1) = N
    <3>1. 0 \in Int /\ N - 1 \in Int
      BY <1>1
    <3>2. IsFiniteSet(0 .. N - 1) /\ Cardinality(0 .. N - 1) = IF 0 > N - 1 THEN 0 ELSE N - 1 - 0 + 1
      BY <3>1, FS_Interval, Zenon
    <3> QED BY <1>1, <3>2
  <2> QED BY <2>1, <1>5, FS_Injection
<1>7. \A n \in 0 .. N - 1 : \E c \in S : Rank(c, R, S) = n
  BY <1>6 DEF Surjection
<1> QED BY <1>1, <1>2, <1>4, <1>7

\* One of finitely many numbers is the greatest: the one of rank 0 downwards.
LEMMA Greatest ==
  ASSUME NEW S, IsFiniteSet(S), S \subseteq Nat, S # {}
  PROVE  \E m \in S : \A n \in S : n <= m
<1> DEFINE R == {p \in S \X S : p[1] > p[2]}
<1>1. Orders(R, S)
  BY DEF Orders
<1>2. Cardinality(S) \in Nat /\ Cardinality(S) # 0
  BY FS_EmptySet, FS_CardinalityType
<1>3. PICK m \in S : Rank(m, R, S) = 0
  <2> HIDE DEF R
  <2>1. 0 \in 0 .. Cardinality(S) - 1
    BY <1>2
  <2>2. \A n \in 0 .. Cardinality(S) - 1 : \E c \in S : Rank(c, R, S) = n
    BY <1>1, Ranks
  <2> QED BY <2>1, <2>2
<1>4. Below(m, R, S) = {}
  <2>1. Below(m, R, S) \in SUBSET S
    BY DEF Below
  <2>2. IsFiniteSet(Below(m, R, S))
    BY <2>1, FS_Subset
  <2> QED BY <1>3, <2>2, FS_EmptySet DEF Rank
<1>5. \A n \in S : ~(n > m)
  BY <1>4 DEF Below
<1> QED BY <1>5

\* Elements in the places of their ranks are a list of the set.
LEMMA Ranked ==
  ASSUME NEW S, IsFiniteSet(S), NEW R, Orders(R, S), NEW list,
         DOMAIN list = 1 .. Cardinality(S), list = [n \in DOMAIN list |-> list[n]],
         \A n \in DOMAIN list : list[n] \in S /\ Rank(list[n], R, S) = n - 1
  PROVE  Lists(list, S)
<1>1. ASSUME NEW c \in S
      PROVE  \E n \in DOMAIN list : list[n] = c
  <2> DEFINE n == Rank(c, R, S) + 1
  <2>1. n \in DOMAIN list /\ n - 1 = Rank(c, R, S)
    BY Ranks
  <2>2. Rank(list[n], R, S) = Rank(c, R, S) /\ list[n] \in S
    BY <2>1
  <2> QED BY <2>1, <2>2, Ranks
<1>2. ASSUME NEW m \in DOMAIN list, NEW n \in DOMAIN list, list[m] = list[n]
      PROVE  m = n
  <2>1. m - 1 = n - 1
    BY <1>2
  <2>2. m \in Int /\ n \in Int
    BY Ranks
  <2> QED BY <2>1, <2>2
<1> QED BY <1>1, <1>2 DEF Lists

\* Columns by their names are a list of them.
LEMMA NamesListed ==
  ASSUME NEW S, IsFiniteSet(S), S \subseteq Nat
  PROVE  Lists(Listed(S, ByName), S)
<1> DEFINE R == {p \in S \X S : p[1] < p[2]}
           list == Listed(S, ByName)
<1>1. Orders(R, S)
  BY DEF Orders
<1>2. ASSUME NEW c \in S
      PROVE  Rank(c, R, S) = Cardinality({e \in S : ByName(e, c)})
  <2>1. Below(c, R, S) = {e \in S : ByName(e, c)}
    BY DEF Below, ByName
  <2> QED BY <2>1 DEF Rank
<1> HIDE DEF R
<1>3. DOMAIN list = 1 .. Cardinality(S) /\ list = [n \in DOMAIN list |-> list[n]]
  <2> DEFINE element(n) == CHOOSE c \in S : Cardinality({e \in S : ByName(e, c)}) = n - 1
  <2>1. list = [n \in 1 .. Cardinality(S) |-> element(n)]
    BY DEF Listed
  <2> HIDE DEF element, list
  <2> QED BY <2>1
<1>4. /\ Cardinality(S) \in Nat
      /\ \A n \in 0 .. Cardinality(S) - 1 : \E c \in S : Rank(c, R, S) = n
  BY <1>1, Ranks
<1>5. ASSUME NEW n \in 1 .. Cardinality(S)
      PROVE  list[n] \in S /\ Rank(list[n], R, S) = n - 1
  <2>1. list[n] = CHOOSE c \in S : Cardinality({e \in S : ByName(e, c)}) = n - 1
    BY DEF Listed
  <2>2. n - 1 \in 0 .. Cardinality(S) - 1
    BY <1>4
  <2>3. \E c \in S : Rank(c, R, S) = n - 1
    BY <2>2, <1>4
  <2>4. list[n] \in S /\ Cardinality({e \in S : ByName(e, list[n])}) = n - 1
    BY <2>1, <2>3, <1>2
  <2> QED BY <2>4, <1>2
<1> QED BY <1>1, <1>3, <1>5, Ranked

\* Well-formed fields: finitely many, with a position each.
Positioned(field) ==
  /\ IsFiniteSet(DOMAIN field)
  /\ DOMAIN field \subseteq Nat
  /\ \A c \in DOMAIN field : field[c].position \in Nat

\* The executor's columns are a list of the fields, whatever positions tie.
LEMMA FieldsListed ==
  ASSUME NEW d, Positioned(d.field)
  PROVE  Lists(SchemaColumns(d), DOMAIN d.field)
<1> DEFINE S == DOMAIN d.field
           Before(c, e) == \/ d.field[c].position < d.field[e].position
                           \/ d.field[c].position = d.field[e].position /\ c < e
           R == {p \in S \X S : Before(p[1], p[2])}
           list == SchemaColumns(d)
<1>1. Orders(R, S)
  BY DEF Orders, Positioned
<1>2. ASSUME NEW c \in S
      PROVE  Rank(c, R, S) = Cardinality({e \in S : Before(e, c)})
  <2>1. Below(c, R, S) = {e \in S : Before(e, c)}
    BY DEF Below
  <2> QED BY <2>1 DEF Rank
<1>3. list = [n \in 1 .. Cardinality(S) |-> CHOOSE c \in S : Cardinality({e \in S : Before(e, c)}) = n - 1]
  BY DEF SchemaColumns, Listed
<1> HIDE DEF R, Before, list
<1>4. IsFiniteSet(S) /\ Cardinality(S) \in Nat
  BY <1>1, Ranks DEF Positioned
<1>5. ASSUME NEW n \in 1 .. Cardinality(S)
      PROVE  list[n] \in S /\ Rank(list[n], R, S) = n - 1
  <2>1. list[n] = CHOOSE c \in S : Cardinality({e \in S : Before(e, c)}) = n - 1
    BY <1>3
  <2>2. n - 1 \in 0 .. Cardinality(S) - 1
    BY <1>4
  <2>3. \E c \in S : Rank(c, R, S) = n - 1
    BY <2>2, <1>1, <1>4, Ranks
  <2>4. list[n] \in S /\ Cardinality({e \in S : Before(e, list[n])}) = n - 1
    BY <2>1, <2>3, <1>2
  <2> QED BY <2>4, <1>2
<1>6. DOMAIN list = 1 .. Cardinality(S) /\ list = [n \in DOMAIN list |-> list[n]]
  <2> DEFINE element(n) == CHOOSE c \in S : Cardinality({e \in S : Before(e, c)}) = n - 1
  <2>1. list = [n \in 1 .. Cardinality(S) |-> element(n)]
    BY <1>3
  <2> HIDE DEF element
  <2> QED BY <2>1
<1>7. Lists(list, S)
  BY <1>1, <1>4, <1>5, <1>6, Ranked
<1> QED BY <1>7 DEF list

\* The row codec's are the same (AutomergeRowCodec::columns and the executor's
\* columns are two functions).
LEMMA SameColumns == \A d : CodecColumns(d) = SchemaColumns(d)
BY DEF CodecColumns, SchemaColumns

\* Columns depend on nothing else.
LEMMA ColumnsOfFields ==
  ASSUME NEW d, NEW e, d.field = e.field
  PROVE  SchemaColumns(d) = SchemaColumns(e)
BY DEF SchemaColumns

\* A column's place in a list.
LEMMA Places ==
  ASSUME NEW S, NEW list, Lists(list, S)
  PROVE  /\ \A c \in S : Place(list, c) \in DOMAIN list /\ list[Place(list, c)] = c
         /\ \A n \in DOMAIN list : Place(list, list[n]) = n
<1>1. \A c \in S : Place(list, c) \in DOMAIN list /\ list[Place(list, c)] = c
  BY DEF Lists, Place
<1>2. \A n \in DOMAIN list : list[n] \in S
  BY DEF Lists
<1>3. \A n \in DOMAIN list : Place(list, list[n]) = n
  BY <1>1, <1>2 DEF Lists
<1> QED BY <1>1, <1>3

-----------------------------------------------------------------------------
(* What SELECT shows *)

\* A well-formed database: a row is live and has a document of its columns'
\* values, or it has none.
RowState == [state : {"none", "live", "deleted"}, doc : Some(Datum)]
Databases ==
  [table : {"absent", "active", "dropped"}, field : Some(FieldEntry), row : [Row -> RowState]]

WellFormed(d) ==
  /\ d \in Databases
  /\ \A w \in Row : d.row[w].state # "live" => d.row[w].doc = NoFunction

\* Sets of functions of some columns are what Partial says.
LEMMA Partials ==
  ASSUME NEW f, NEW S
  PROVE  f \in Some(S) <=> f = [c \in DOMAIN f |-> f[c]] /\ Partial(f, S)
BY DEF Some, Partial

\* Fields of a well-formed database have positions.
LEMMA FieldsPositioned ==
  ASSUME NEW d, WellFormed(d)
  PROVE  Positioned(d.field) /\ d.field \in [DOMAIN d.field -> FieldEntry] /\ DOMAIN d.field \subseteq Column
<1>1. d.field \in Some(FieldEntry)
  BY DEF WellFormed, Databases
<1>2. DOMAIN d.field \subseteq Column /\ d.field \in [DOMAIN d.field -> FieldEntry]
  BY <1>1 DEF Some
<1>3. IsFiniteSet(DOMAIN d.field)
  BY <1>2, ColumnAssumption, FS_Subset
<1>4. \A c \in DOMAIN d.field : d.field[c].position \in Nat
  BY <1>2 DEF FieldEntry
<1> QED BY <1>2, <1>3, <1>4, ColumnAssumption DEF Positioned

\* What there is to see of a row: what its document has and the defaults of the
\* columns it does not have.
Seen(d, w) ==
  [c \in DOMAIN d.field |-> IF c \in DOMAIN d.row[w].doc THEN d.row[w].doc[c] ELSE d.field[c].default]

\* The executor reads a row's columns in their places,
LEMMA RowsAreSeen ==
  ASSUME NEW d, Positioned(d.field), NEW w \in Visible(d)
  PROVE  Rows(d)[w] = [n \in DOMAIN SchemaColumns(d) |-> Seen(d, w)[SchemaColumns(d)[n]]]
<1> DEFINE schema == SchemaColumns(d)
<1>1. Lists(schema, DOMAIN d.field)
  BY FieldsListed
<1>2. CodecColumns(d) = schema
  BY SameColumns
<1> HIDE DEF schema
<1>3. Rows(d)[w] = Padded(d, schema, Decode(d, schema, d.row[w].doc))
  BY <1>2 DEF Rows, schema
<1>4. Padded(d, schema, Decode(d, schema, d.row[w].doc)) = Decode(d, schema, d.row[w].doc)
  BY DEF Padded, Decode
<1>5. \A n \in DOMAIN schema : schema[n] \in DOMAIN d.field
  BY <1>1 DEF Lists
<1>6. Decode(d, schema, d.row[w].doc) = [n \in DOMAIN schema |-> Seen(d, w)[schema[n]]]
  BY <1>5 DEF Decode, Seen
<1> QED BY <1>3, <1>4, <1>6 DEF schema

\* and SELECT shows them by their names.
LEMMA ShownIsSeen ==
  ASSUME NEW d, Positioned(d.field)
  PROVE  Shown(d) = [w \in Visible(d) |-> Seen(d, w)]
<1> DEFINE schema == SchemaColumns(d)
<1>1. Lists(schema, DOMAIN d.field)
  BY FieldsListed
<1>2. ToSet(schema) = DOMAIN d.field
  BY <1>1 DEF Lists, ToSet
<1>3. ASSUME NEW w \in Visible(d)
      PROVE  Named(schema, Rows(d)[w]) = Seen(d, w)
  <2>1. \A c \in DOMAIN d.field : Place(schema, c) \in DOMAIN schema /\ schema[Place(schema, c)] = c
    BY <1>1, Places
  <2>2. \A c \in DOMAIN d.field : Rows(d)[w][Place(schema, c)] = Seen(d, w)[c]
    <3>1. Rows(d)[w] = [n \in DOMAIN schema |-> Seen(d, w)[schema[n]]]
      BY RowsAreSeen
    <3> HIDE DEF schema
    <3> QED BY <2>1, <3>1
  <2>3. DOMAIN Seen(d, w) = DOMAIN d.field /\ Seen(d, w) = [c \in DOMAIN d.field |-> Seen(d, w)[c]]
    BY DEF Seen
  <2>4. Named(schema, Rows(d)[w]) = [c \in DOMAIN d.field |-> Rows(d)[w][Place(schema, c)]]
    BY <1>2 DEF Named
  <2> QED BY <2>2, <2>3, <2>4
<1>4. Shown(d) = [w \in Visible(d) |-> Named(schema, Rows(d)[w])]
  BY DEF Shown
<1> QED BY <1>3, <1>4

-----------------------------------------------------------------------------
(* Types, and fields that stay *)

\* A database after a step: it is well-formed and has at least the fields it had.
After(d, e) == WellFormed(e) /\ DOMAIN d.field \subseteq DOMAIN e.field

\* The same fields, and one row or several written anew.
LEMMA RowsWritten ==
  ASSUME NEW d, WellFormed(d), NEW rows \in [Row -> RowState],
         \A w \in Row : rows[w].state # "live" => rows[w].doc = NoFunction
  PROVE  After(d, [d EXCEPT !.row = rows])
BY DEF After, WellFormed, Databases

\* What one function says over another is of the same kind (materialize).
LEMMA OverlayOK ==
  ASSUME NEW S, NEW f \in Some(S), NEW g \in Some(S)
  PROVE  Overlay(f, g) \in Some(S)
<1>1. /\ DOMAIN f \cup DOMAIN g \subseteq Column
      /\ f \in [DOMAIN f -> S] /\ g \in [DOMAIN g -> S]
  BY DEF Some
<1>2. Overlay(f, g) \in [DOMAIN f \cup DOMAIN g -> S]
  BY <1>1 DEF Overlay
<1> QED BY <1>1, <1>2 DEF Some

\* NoFunction is of every kind.
LEMMA NoFunctionOK == \A S : NoFunction \in Some(S)
<1>1. ASSUME NEW S
      PROVE  NoFunction \in Some(S)
  <2>1. NoFunction \in [{} -> S]
    BY DEF NoFunction
  <2> QED BY <2>1 DEF Some
<1> QED BY <1>1

\* Defaults of fields, and what statements write, are values.
LEMMA DataOK ==
  /\ Null \in Datum
  /\ \A w \in Row : Uuid(w) \in Datum
  /\ Written \subseteq Datum
BY DEF Datum, Written

\* The places of a row put values into a document, by the names of the columns.
LEMMA EncodeOK ==
  ASSUME NEW d, WellFormed(d),
         NEW row \in [DOMAIN SchemaColumns(d) -> Datum], NEW places \in SUBSET DOMAIN SchemaColumns(d)
  PROVE  /\ Encode(d, row, places) \in Some(Datum)
         /\ DOMAIN Encode(d, row, places) = {SchemaColumns(d)[n] : n \in places}
         /\ \A n \in places : Encode(d, row, places)[SchemaColumns(d)[n]] = row[n]
<1> DEFINE schema == SchemaColumns(d)
<1>1. Lists(schema, DOMAIN d.field) /\ DOMAIN d.field \subseteq Column
  BY FieldsPositioned, FieldsListed
<1>2. Encode(d, row, places) = [c \in {schema[n] : n \in places} |-> row[Place(schema, c)]]
  BY SameColumns DEF Encode
<1> HIDE DEF schema
<1>3. row \in [DOMAIN schema -> Datum] /\ places \subseteq DOMAIN schema
  BY DEF schema
<1>4. \A n \in places : schema[n] \in DOMAIN d.field /\ Place(schema, schema[n]) = n
  <2>1. \A n \in DOMAIN schema : schema[n] \in DOMAIN d.field
    BY <1>1 DEF Lists
  <2>2. \A n \in DOMAIN schema : Place(schema, schema[n]) = n
    BY <1>1, Places
  <2> QED BY <1>3, <2>1, <2>2
<1>5. Encode(d, row, places) \in [{schema[n] : n \in places} -> Datum]
  BY <1>2, <1>3, <1>4
<1>6. {schema[n] : n \in places} \subseteq Column
  BY <1>1, <1>4
<1>7. Encode(d, row, places) \in Some(Datum)
  BY <1>5, <1>6 DEF Some
<1>8. \A n \in places : Encode(d, row, places)[schema[n]] = row[n]
  BY <1>2, <1>4
<1> QED BY <1>5, <1>7, <1>8 DEF schema

\* A row that materialize_insert gives has a value for every column.
LEMMA MaterializedOK ==
  ASSUME NEW d, WellFormed(d), NEW row \in Seq(Datum), NEW r \in Materialized(d, row)
  PROVE  r \in [DOMAIN SchemaColumns(d) -> Datum]
<1> DEFINE schema == SchemaColumns(d)
<1>1. ASSUME NEW list \in Seq(Datum)
      PROVE  Padded(d, schema, list) \in [DOMAIN schema -> Datum]
  <2>1. \A n \in DOMAIN schema : schema[n] \in DOMAIN d.field
    BY FieldsPositioned, FieldsListed DEF Lists
  <2>2. \A c \in DOMAIN d.field : d.field[c].default \in Datum
    BY FieldsPositioned DEF FieldEntry
  <2>3. \A n \in DOMAIN list : list[n] \in Datum
    OBVIOUS
  <2> HIDE DEF schema
  <2> QED BY <2>1, <2>2, <2>3 DEF Padded
<1>2. ASSUME NEW w \in Fresh(d)
      PROVE  <<Uuid(w)>> \o row \in Seq(Datum)
  <2>1. <<Uuid(w)>> \in Seq(Datum)
    BY DataOK DEF Fresh
  <2> QED BY <2>1
<1> QED BY <1>1, <1>2 DEF Materialized

\* A row was inserted: it has a document with the row's values, and the answer is
\* the row.
RowInserted(d, o, r, w, returning) ==
  /\ o.db.field = d.field
  /\ After(d, o.db)
  /\ o.db = [d EXCEPT !.row = [x \in Row |->
       IF x = w THEN [state |-> "live", doc |-> Encode(d, r, DOMAIN r)] ELSE d.row[x]]]
  /\ returning # <<>> =>
       o.answer = [x \in {w} |->
         [n \in DOMAIN Project(d, returning) |-> r[Place(SchemaColumns(d), Project(d, returning)[n])]]]

\* INSERT inserts a row under the one key that the row itself names, if it was
\* never used.
LEMMA InsertRowOK ==
  ASSUME NEW d, WellFormed(d), NEW row \in Seq(Datum), NEW returning,
         NEW o \in InsertRow(d, row, returning)
  PROVE  \E r \in Materialized(d, row) : \E w \in RowId(d, r) \cap Fresh(d) :
           RowInserted(d, o, r, w, returning)
<1> DEFINE Outcome(r, w) ==
             [db |-> [d EXCEPT !.row[w] = [state |-> "live", doc |-> Encode(d, r, DOMAIN r)]],
              answer |-> IF returning = <<>> THEN NoRows ELSE [x \in {w} |->
                [n \in DOMAIN Project(d, returning) |-> r[Place(SchemaColumns(d), Project(d, returning)[n])]]]]
<1>0. PICK r \in Materialized(d, row) : \E w \in RowId(d, r) \cap Fresh(d) : o = Outcome(r, w)
  BY DEF InsertRow
<1>1. PICK w \in RowId(d, r) \cap Fresh(d) : o = Outcome(r, w)
  BY <1>0
<1> DEFINE rows == [x \in Row |->
             IF x = w THEN [state |-> "live", doc |-> Encode(d, r, DOMAIN r)] ELSE d.row[x]]
<1>2. d.row \in [Row -> RowState]
  BY DEF WellFormed, Databases
<1>3. o.db = [d EXCEPT !.row = rows]
  BY <1>1, <1>2 DEF Fresh
<1>4. Encode(d, r, DOMAIN r) \in Some(Datum)
  BY MaterializedOK, EncodeOK
<1>5. rows \in [Row -> RowState] /\ \A x \in Row : rows[x].state # "live" => rows[x].doc = NoFunction
  <2>1. [state |-> "live", doc |-> Encode(d, r, DOMAIN r)] \in RowState
    BY <1>4 DEF RowState
  <2>2. rows \in [Row -> RowState]
    BY <1>2, <2>1
  <2>3. ASSUME NEW x \in Row, rows[x].state # "live"
        PROVE  rows[x].doc = NoFunction
    BY <2>3 DEF WellFormed
  <2> QED BY <2>2, <2>3
<1>6. After(d, o.db)
  <2> HIDE DEF rows
  <2> QED BY <1>3, <1>5, RowsWritten
<1>7. o.db.field = d.field
  BY <1>3 DEF WellFormed, Databases
<1>8. ASSUME returning # <<>>
      PROVE  o.answer = [x \in {w} |->
               [n \in DOMAIN Project(d, returning) |-> r[Place(SchemaColumns(d), Project(d, returning)[n])]]]
  BY <1>1, <1>8
<1> HIDE DEF Outcome
<1>9. RowInserted(d, o, r, w, returning)
  BY <1>3, <1>6, <1>7, <1>8 DEF RowInserted
<1> QED BY <1>9

\* The lists of values that statements give to some of the columns.
LEMMA GiftsOK ==
  ASSUME NEW d, WellFormed(d), NEW g \in Gifts(d)
  PROVE  /\ DOMAIN g \subseteq DOMAIN d.field
         /\ g \in [DOMAIN g -> Datum \cup {Default}]
         /\ \A c \in DOMAIN g \cap Keys(d) : g[c] = Default \/ \E w \in Row : g[c] = Uuid(w)
<1> DEFINE GiftsTo(C) == {Overlay(f, h) : f \in [C \ Keys(d) -> Written \cup {Default}],
                                        h \in [C \cap Keys(d) -> {Default} \cup {Uuid(w) : w \in Row}]}
<1>0. Gifts(d) = UNION {GiftsTo(C) : C \in SUBSET DOMAIN d.field}
  BY DEF Gifts
<1>1. PICK C \in SUBSET DOMAIN d.field : g \in GiftsTo(C)
  <2> HIDE DEF GiftsTo
  <2> QED BY <1>0
<1>2. PICK f \in [C \ Keys(d) -> Written \cup {Default}],
           h \in [C \cap Keys(d) -> {Default} \cup {Uuid(w) : w \in Row}] : g = Overlay(f, h)
  BY <1>1
<1>3. g = [c \in C |-> IF c \in Keys(d) THEN h[c] ELSE f[c]]
  <2>1. DOMAIN f \cup DOMAIN h = C /\ \A c \in C : c \in DOMAIN h <=> c \in Keys(d)
    OBVIOUS
  <2> QED BY <1>2, <2>1 DEF Overlay
<1>4. \A c \in C : c \notin Keys(d) => f[c] \in Datum \cup {Default}
  BY DataOK
<1>5. \A c \in C : c \in Keys(d) => h[c] = Default \/ \E w \in Row : h[c] = Uuid(w)
  OBVIOUS
<1>6. \A c \in C : g[c] \in Datum \cup {Default}
  BY <1>3, <1>4, <1>5, DataOK
<1> QED BY <1>3, <1>5, <1>6

\* A function on the first numbers is a sequence.
LEMMA IsSequence ==
  ASSUME NEW N \in Nat, NEW S, NEW f \in [1 .. N -> S]
  PROVE  f \in Seq(S) /\ Len(f) = N
OBVIOUS

\* A list of the fields is a sequence of them.
LEMMA ListsAreSequences ==
  ASSUME NEW S, IsFiniteSet(S), NEW list, Lists(list, S)
  PROVE  list \in Seq(S) /\ Len(list) = Cardinality(S)
<1>1. Cardinality(S) \in Nat
  BY FS_CardinalityType
<1>2. list \in [1 .. Cardinality(S) -> S]
  BY DEF Lists
<1> QED BY <1>1, <1>2, IsSequence

\* What an INSERT makes of what it gives to some columns, listed in any order:
\* a new row with it, the defaults of the others, and the row's own key.
Inserted(d, g, w, c) ==
  IF c \in DOMAIN g /\ g[c] # Default THEN g[c]
  ELSE IF c \in Keys(d) THEN Uuid(w) ELSE d.field[c].default

LEMMA GiftInserted ==
  ASSUME NEW d, WellFormed(d), NEW g \in Gifts(d), g # NoFunction,
         NEW list, Lists(list, DOMAIN g), NEW s,
         s.columns = list, s.values = [n \in DOMAIN list |-> g[list[n]]],
         NEW o \in InsertValues(d, s)
  PROVE  \E w \in Fresh(d) : \E r \in [DOMAIN SchemaColumns(d) -> Datum] :
           /\ RowInserted(d, o, r, w, s.returning)
           /\ \A n \in DOMAIN SchemaColumns(d) : r[n] = Inserted(d, g, w, SchemaColumns(d)[n])
<1> DEFINE F == DOMAIN d.field
           schema == SchemaColumns(d)
           names == IF s.columns = <<>> THEN schema ELSE s.columns
           given == {n \in DOMAIN names : s.values[n] # Default}
           gives(c) == \E n \in given : names[n] = c
           row(v) == [n \in DOMAIN schema |->
                        IF gives(schema[n]) THEN s.values[Place(names, schema[n])]
                        ELSE IF n = FirstKey(d) THEN Uuid(v) ELSE d.field[schema[n]].default]
           issued == IF gives(schema[FirstKey(d)]) THEN {0} ELSE Fresh(d)
<1>1. /\ Lists(schema, F) /\ IsFiniteSet(F) /\ Cardinality(F) \in Nat
      /\ \A c \in F : d.field[c].default \in Datum
  <2>1. Lists(schema, F) /\ IsFiniteSet(F)
    BY FieldsPositioned, FieldsListed DEF Positioned
  <2>2. \A c \in F : d.field[c].default \in Datum
    BY FieldsPositioned DEF FieldEntry
  <2> QED BY <2>1, <2>2, FS_CardinalityType
<1>2. /\ DOMAIN g \subseteq F
      /\ g \in [DOMAIN g -> Datum \cup {Default}]
      /\ \A c \in DOMAIN g \cap Keys(d) : g[c] = Default \/ \E w \in Row : g[c] = Uuid(w)
  BY GiftsOK
<1>3. names = list
  <2>1. PICK c \in DOMAIN g : TRUE
    <3>1. g = [c \in DOMAIN g |-> g[c]]
      BY <1>2
    <3> QED BY <3>1 DEF NoFunction
  <2>2. PICK n \in DOMAIN list : list[n] = c
    BY DEF Lists
  <2>3. list # <<>>
    BY <2>2
  <2> QED BY <2>3
<1>4. Keys(d) # {} /\ \E v \in issued : o \in InsertRow(d, row(v), s.returning)
  <2>1. Keys(d) # {} /\ o \in UNION {InsertRow(d, row(v), s.returning) : v \in issued}
    BY DEF InsertValues
  <2> HIDE DEF row, issued
  <2> QED BY <2>1
<1>5. PICK v \in issued : o \in InsertRow(d, row(v), s.returning)
  BY <1>4
<1> HIDE DEF names
\* What is given to a column is found at its place in the list.
<1>6. ASSUME NEW c \in F
      PROVE  /\ gives(c) <=> c \in DOMAIN g /\ g[c] # Default
             /\ gives(c) => s.values[Place(names, c)] = g[c] /\ g[c] \in Datum
  <2>1. \A n \in DOMAIN list : list[n] \in DOMAIN g /\ s.values[n] = g[list[n]]
    BY DEF Lists
  <2>2. \A e \in DOMAIN g : Place(list, e) \in DOMAIN list /\ list[Place(list, e)] = e
    BY Places
  <2>3. gives(c) <=> c \in DOMAIN g /\ g[c] # Default
    BY <1>3, <2>1, <2>2
  <2>4. ASSUME gives(c)
        PROVE  s.values[Place(names, c)] = g[c] /\ g[c] \in Datum
    <3>1. c \in DOMAIN g /\ g[c] # Default
      BY <2>3, <2>4
    <3> QED BY <1>2, <1>3, <2>1, <2>2, <3>1
  <2> QED BY <2>3, <2>4
<1> HIDE DEF schema, given, gives, issued, F
<1>7. row(v) \in [DOMAIN schema -> Datum]
  <2>1. ASSUME NEW n \in DOMAIN schema
        PROVE  row(v)[n] \in Datum
    <3>1. schema[n] \in F
      BY <1>1 DEF Lists
    <3>2. CASE gives(schema[n])
      BY <1>6, <3>1, <3>2
    <3>3. CASE ~gives(schema[n]) /\ n = FirstKey(d)
      <4>1. v \in Row
        BY <3>3 DEF issued, Fresh
      <4> QED BY <3>3, <4>1, DataOK
    <3>4. CASE ~gives(schema[n]) /\ n # FirstKey(d)
      BY <1>1, <3>1, <3>4
    <3> QED BY <3>2, <3>3, <3>4
  <2> QED BY <2>1
<1>8. row(v) \in Seq(Datum) /\ Len(row(v)) = Cardinality(F)
  <2>1. row(v) \in [1 .. Cardinality(F) -> Datum]
    BY <1>1, <1>7 DEF Lists
  <2> HIDE DEF row
  <2> QED BY <1>1, <2>1, IsSequence
<1>9. Materialized(d, row(v)) = {row(v)}
  <2>1. Padded(d, schema, row(v)) = row(v)
    <3> HIDE DEF row
    <3> QED BY <1>7 DEF Padded
  <2> HIDE DEF row
  <2>2. Materialized(d, row(v)) = {Padded(d, schema, row(v))}
    BY <1>1, <1>4, <1>8 DEF Materialized, F, schema
  <2> QED BY <2>1, <2>2
<1>10. PICK w \in RowId(d, row(v)) \cap Fresh(d) : RowInserted(d, o, row(v), w, s.returning)
  <2> HIDE DEF row
  <2>1. PICK r \in Materialized(d, row(v)) :
          \E w \in RowId(d, r) \cap Fresh(d) : RowInserted(d, o, r, w, s.returning)
    BY <1>5, <1>8, InsertRowOK
  <2> QED BY <1>9, <2>1
<1>11. PICK k \in F : /\ Keys(d) = {k}
                      /\ IsUuid(row(v)[Place(schema, k)])
                      /\ w = row(v)[Place(schema, k)][2]
  <2> HIDE DEF row
  <2> QED BY DEF RowId, Keys, F, schema
<1>12. FirstKey(d) \in DOMAIN schema /\ schema[FirstKey(d)] = k /\ Place(schema, k) = FirstKey(d)
  <2>1. Place(schema, k) \in DOMAIN schema /\ schema[Place(schema, k)] = k
    BY <1>1, Places
  <2>2. \A n \in DOMAIN schema : schema[n] \in Keys(d) <=> n = Place(schema, k)
    <3>1. Keys(d) = {k}
      BY <1>11
    <3>2. \A m, n \in DOMAIN schema : schema[m] = schema[n] => m = n
      BY <1>1 DEF Lists
    <3> QED BY <2>1, <3>1, <3>2
  <2>3. Place(schema, k) \in Nat
    <3>1. DOMAIN schema = 1 .. Cardinality(F)
      BY <1>1 DEF Lists
    <3> QED BY <1>1, <2>1, <3>1
  <2>4. FirstKey(d) = Place(schema, k)
    BY <2>1, <2>2, <2>3 DEF FirstKey, schema
  <2> QED BY <2>1, <2>4
<1>13. ASSUME NEW n \in DOMAIN schema
       PROVE  row(v)[n] = Inserted(d, g, w, schema[n])
  <2>1. schema[n] \in F
    BY <1>1 DEF Lists
  <2>2. CASE gives(schema[n])
    BY <1>6, <2>1, <2>2 DEF Inserted
  <2>3. CASE ~gives(schema[n]) /\ n = FirstKey(d)
    <3>1. row(v)[n] = Uuid(v) /\ schema[n] = k
      BY <1>12, <2>3
    <3>2. w = v
      BY <1>11, <1>12, <2>3, <3>1 DEF Uuid
    <3> QED BY <1>6, <1>11, <2>1, <2>3, <3>1, <3>2 DEF Inserted
  <2>4. CASE ~gives(schema[n]) /\ n # FirstKey(d)
    <3>1. row(v)[n] = d.field[schema[n]].default
      BY <2>4
    <3>2. schema[n] \notin Keys(d)
      BY <1>1, <1>11, <1>12, <2>4 DEF Lists
    <3> QED BY <1>6, <2>1, <2>4, <3>1, <3>2 DEF Inserted
  <2> QED BY <2>2, <2>3, <2>4
<1> HIDE DEF row
<1> QED BY <1>7, <1>10, <1>13 DEF schema

\* Assignments give columns values that statements write, and there is a last one
\* of each column.
LEMMA AssignedOK ==
  ASSUME NEW s, s.assignments \in Seq([column : Column, value : Written])
  PROVE  Assigned(s) \in Some(Datum)
<1> DEFINE list == s.assignments
           columns == {a.column : a \in ToSet(list)}
           IsLast(c, n) == list[n].column = c /\ \A m \in DOMAIN list : list[m].column = c => m <= n
           last(c) == CHOOSE n \in DOMAIN list : IsLast(c, n)
<1>1. Assigned(s) = [c \in columns |-> list[last(c)].value]
  BY DEF Assigned
<1>0. /\ DOMAIN list = 1 .. Len(list) /\ Len(list) \in Nat
      /\ \A n \in DOMAIN list : list[n].column \in Column /\ list[n].value \in Written
  <2> DEFINE Assignments == [column : Column, value : Written]
  <2>1. list \in Seq(Assignments)
    OBVIOUS
  <2>2. DOMAIN list = 1 .. Len(list) /\ Len(list) \in Nat /\ \A n \in DOMAIN list : list[n] \in Assignments
    <3> HIDE DEF Assignments, list
    <3> QED BY <2>1
  <2> HIDE DEF list
  <2> QED BY <2>2
<1> HIDE DEF list
<1>2. ASSUME NEW c \in columns
      PROVE  \E n \in DOMAIN list : IsLast(c, n)
  <2> DEFINE Is == {n \in DOMAIN list : list[n].column = c}
  <2>1. Is # {}
    BY DEF ToSet
  <2>2. Is \in SUBSET (1 .. Len(list)) /\ Is \subseteq Nat
    BY <1>0
  <2>3. IsFiniteSet(Is)
    <3>1. IsFiniteSet(1 .. Len(list))
      BY <1>0, FS_Interval
    <3> HIDE DEF Is
    <3> QED BY <2>2, <3>1, FS_Subset
  <2>4. \E n \in Is : \A m \in Is : m <= n
    <3> HIDE DEF Is
    <3> QED BY <2>1, <2>2, <2>3, Greatest
  <2> QED BY <2>4
<1>3. \A n \in DOMAIN list : list[n].value \in Datum
  BY <1>0, DataOK
<1>4. columns \subseteq Column
  BY <1>0 DEF ToSet
<1>5. \A c \in columns : last(c) \in DOMAIN list
  <2> HIDE DEF columns, IsLast
  <2> QED BY <1>2
<1> HIDE DEF columns, last
<1>6. Assigned(s) \in [columns -> Datum]
  BY <1>1, <1>3, <1>5
<1> QED BY <1>4, <1>6 DEF Some

\* Rows that are written or deleted, and the others.
LEMMA MatchingVisible == \A d, where : Matching(d, where) \subseteq Visible(d)
BY DEF Matching

\* UPDATE changes what is seen of the rows it matches: all that it assigns and
\* nothing else, stored before or not.
LEMMA UpdateOK ==
  ASSUME NEW d, WellFormed(d), NEW s, s.assignments \in Seq([column : Column, value : Written]),
         NEW o \in UpdateRows(d, s)
  PROVE  \E where \in Equality(s.where) :
           /\ where.column \in DOMAIN d.field
           /\ o.db.field = d.field /\ After(d, o.db)
           /\ Visible(o.db) = Visible(d)
           /\ \A w \in Visible(d) :
                Seen(o.db, w) = IF w \in Matching(d, where) THEN Overlay(Seen(d, w), Assigned(s))
                                ELSE Seen(d, w)
<1> DEFINE F == DOMAIN d.field
           schema == SchemaColumns(d)
           assigned == Assigned(s)
           places == {n \in DOMAIN schema : schema[n] \in DOMAIN assigned}
           read == Rows(d)
           row(w) == [n \in DOMAIN schema |-> IF n \in places THEN assigned[schema[n]] ELSE read[w][n]]
           Outcomes(where) ==
             LET rows == Matching(d, where)
                 updated == [d EXCEPT !.row = [w \in Row |->
                   IF w \in rows THEN [d.row[w] EXCEPT !.doc = Overlay(@, Encode(d, row(w), places))]
                   ELSE d.row[w]]]
             IN  IF \A w \in rows : RowId(d, row(w)) = {w} THEN Unchanged(updated, NoRows) ELSE {}
           known == {where \in Equality(s.where) : where.column \in F}
<1>1. DOMAIN assigned \subseteq F /\ o \in UNION {Outcomes(where) : where \in known}
  BY DEF UpdateRows
<1>2. PICK where \in known : o \in Outcomes(where)
  <2> HIDE DEF Outcomes, known
  <2> QED BY <1>1
<1> DEFINE rows == Matching(d, where)
           new == [w \in Row |->
              IF w \in rows THEN [d.row[w] EXCEPT !.doc = Overlay(@, Encode(d, row(w), places))] ELSE d.row[w]]
<1>3. o.db = [d EXCEPT !.row = new]
  <2>1. o \in Unchanged([d EXCEPT !.row = new], NoRows)
    BY <1>2
  <2> HIDE DEF new
  <2> QED BY <2>1 DEF Unchanged
<1> HIDE DEF Outcomes, known
<1>4. /\ Lists(schema, F) /\ where \in Equality(s.where) /\ where.column \in F
      /\ assigned \in Some(Datum) /\ rows \subseteq Visible(d) /\ d.row \in [Row -> RowState]
      /\ \A c \in F : d.field[c].default \in Datum
  <2>1. Lists(schema, F)
    BY FieldsPositioned, FieldsListed
  <2>2. where \in Equality(s.where) /\ where.column \in F
    BY DEF known
  <2>3. \A c \in F : d.field[c].default \in Datum
    BY FieldsPositioned DEF FieldEntry
  <2> QED BY <2>1, <2>2, <2>3, AssignedOK, MatchingVisible DEF WellFormed, Databases
<1>5. ASSUME NEW w \in Visible(d)
      PROVE  /\ Seen(d, w) \in [F -> Datum]
             /\ d.row[w].state = "live" /\ d.row[w].doc \in Some(Datum) /\ d.row[w] \in RowState
  <2>1. d.row[w].state = "live" /\ d.row[w].doc \in Some(Datum) /\ d.row[w] \in RowState
    BY <1>4 DEF Visible, RowState
  <2>2. \A c \in DOMAIN d.row[w].doc : d.row[w].doc[c] \in Datum
    BY <2>1 DEF Some
  <2> QED BY <1>4, <2>1, <2>2 DEF Seen
<1>6. ASSUME NEW w \in Visible(d)
      PROVE  /\ row(w) \in [DOMAIN schema -> Datum]
             /\ \A n \in places : row(w)[n] = assigned[schema[n]]
  <2>1. read[w] = [n \in DOMAIN schema |-> Seen(d, w)[schema[n]]]
    BY RowsAreSeen, FieldsPositioned
  <2>2. \A n \in DOMAIN schema : schema[n] \in F
    BY <1>4 DEF Lists
  <2>3. \A c \in DOMAIN assigned : assigned[c] \in Datum
    BY <1>4 DEF Some
  <2> HIDE DEF read, schema, assigned
  <2>4. \A n \in DOMAIN schema : read[w][n] \in Datum
    BY <1>5, <2>1, <2>2
  <2> QED BY <2>3, <2>4
<1>7. DOMAIN assigned = {schema[n] : n \in places}
  <2> HIDE DEF schema, assigned, F
  <2>1. \A c \in F : \E n \in DOMAIN schema : schema[n] = c
    BY <1>4 DEF Lists
  <2> QED BY <1>1, <2>1
<1> HIDE DEF row
\* What is put into a matched row's document is what is assigned.
<1>8. ASSUME NEW w \in Visible(d)
      PROVE  Encode(d, row(w), places) = assigned
  <2>1. /\ Encode(d, row(w), places) \in Some(Datum)
        /\ DOMAIN Encode(d, row(w), places) = {schema[n] : n \in places}
        /\ \A n \in places : Encode(d, row(w), places)[schema[n]] = row(w)[n]
    <3>1. places \in SUBSET DOMAIN schema
      OBVIOUS
    <3> HIDE DEF places
    <3> QED BY <1>6, <3>1, EncodeOK
  <2> DEFINE e == Encode(d, row(w), places)
  <2>2. \A n \in places : e[schema[n]] = assigned[schema[n]]
    BY <1>6, <2>1
  <2>3. e = [c \in DOMAIN e |-> e[c]] /\ assigned = [c \in DOMAIN assigned |-> assigned[c]]
    BY <1>4, <2>1 DEF Some
  <2>4. DOMAIN e = DOMAIN assigned
    BY <1>7, <2>1
  <2> HIDE DEF e, assigned, places, schema
  <2>5. \A c \in DOMAIN assigned : e[c] = assigned[c]
    BY <1>7, <2>2
  <2>6. e = assigned
    BY <2>3, <2>4, <2>5
  <2> QED BY <2>6 DEF e
<1>9. new \in [Row -> RowState] /\ \A w \in Row : new[w].state # "live" => new[w].doc = NoFunction
  <2>1. ASSUME NEW w \in Row
        PROVE  new[w] \in RowState /\ (new[w].state # "live" => new[w].doc = NoFunction)
    <3>1. CASE w \in rows
      <4>1. new[w] = [d.row[w] EXCEPT !.doc = Overlay(d.row[w].doc, assigned)]
        BY <1>4, <1>8, <3>1
      <4>2. Overlay(d.row[w].doc, assigned) \in Some(Datum)
        BY <1>4, <1>5, <3>1, OverlayOK
      <4> QED BY <1>4, <1>5, <3>1, <4>1, <4>2 DEF RowState
    <3>2. CASE w \notin rows
      <4>1. new[w] = d.row[w]
        BY <3>2
      <4> QED BY <1>4, <4>1 DEF WellFormed
    <3> QED BY <3>1, <3>2
  <2> QED BY <2>1
<1>10. o.db.field = d.field /\ After(d, o.db)
  <2> HIDE DEF new
  <2>1. After(d, o.db)
    BY <1>3, <1>9, RowsWritten
  <2> QED BY <1>3, <2>1 DEF WellFormed, Databases
<1>11. o.db.row = new
  BY <1>3 DEF WellFormed, Databases
<1>12. Visible(o.db) = Visible(d)
  <2>1. \A w \in Row : new[w].state = d.row[w].state
    BY <1>4, <1>5
  <2> HIDE DEF new
  <2> QED BY <1>11, <2>1 DEF Visible
<1>13. ASSUME NEW w \in Visible(d)
       PROVE  Seen(o.db, w) = IF w \in rows THEN Overlay(Seen(d, w), assigned) ELSE Seen(d, w)
  <2>1. CASE w \in rows
    <3>1. o.db.row[w].doc = Overlay(d.row[w].doc, assigned)
      BY <1>4, <1>5, <1>8, <1>11, <2>1 DEF RowState, Visible
    <3>2. DOMAIN assigned \subseteq F
      BY <1>1
    <3> HIDE DEF assigned, rows
    <3> QED BY <1>10, <2>1, <3>1, <3>2 DEF Seen, Overlay
  <2>2. CASE w \notin rows
    <3>1. o.db.row[w] = d.row[w]
      BY <1>11, <2>2 DEF Visible
    <3> QED BY <1>10, <2>2, <3>1 DEF Seen
  <2> QED BY <2>1, <2>2
<1> HIDE DEF new, places
<1> QED BY <1>4, <1>10, <1>12, <1>13

\* DELETE takes the rows it matches from what is seen and changes nothing else.
LEMMA DeleteOK ==
  ASSUME NEW d, WellFormed(d), NEW s, NEW o \in DeleteRows(d, s)
  PROVE  \E where \in Equality(s.where) :
           /\ where.column \in DOMAIN d.field
           /\ o.db.field = d.field /\ After(d, o.db)
           /\ Visible(o.db) = Visible(d) \ Matching(d, where)
           /\ \A w \in Visible(o.db) : Seen(o.db, w) = Seen(d, w)
<1> DEFINE F == DOMAIN d.field
           deleted(rows) == [d EXCEPT !.row = [w \in Row |->
             IF w \in rows THEN [state |-> "deleted", doc |-> NoFunction] ELSE d.row[w]]]
           known == {where \in Equality(s.where) : where.column \in F}
<1>1. o \in UNION {Unchanged(deleted(Matching(d, where)), NoRows) : where \in known}
  BY DEF DeleteRows
<1>2. PICK where \in known : o \in Unchanged(deleted(Matching(d, where)), NoRows)
  <2> HIDE DEF deleted, known
  <2> QED BY <1>1
<1> DEFINE rows == Matching(d, where)
           new == [w \in Row |->
             IF w \in rows THEN [state |-> "deleted", doc |-> NoFunction] ELSE d.row[w]]
<1>3. o.db = [d EXCEPT !.row = new]
  <2>1. o \in Unchanged([d EXCEPT !.row = new], NoRows)
    BY <1>2
  <2> HIDE DEF new
  <2> QED BY <2>1 DEF Unchanged
<1>4. rows \subseteq Visible(d) /\ d.row \in [Row -> RowState]
  BY MatchingVisible DEF WellFormed, Databases
<1>5. new \in [Row -> RowState] /\ \A w \in Row : new[w].state # "live" => new[w].doc = NoFunction
  <2>1. [state |-> "deleted", doc |-> NoFunction] \in RowState
    BY NoFunctionOK DEF RowState
  <2>2. new \in [Row -> RowState]
    BY <1>4, <2>1
  <2>3. ASSUME NEW w \in Row, new[w].state # "live"
        PROVE  new[w].doc = NoFunction
    BY <2>3 DEF WellFormed
  <2> QED BY <2>2, <2>3
<1>6. o.db.field = d.field /\ After(d, o.db) /\ o.db.row = new
  <2> HIDE DEF new
  <2>1. After(d, o.db)
    BY <1>3, <1>5, RowsWritten
  <2> QED BY <1>3, <2>1 DEF WellFormed, Databases
<1>7. \A w \in Row : new[w] = IF w \in rows THEN [state |-> "deleted", doc |-> NoFunction] ELSE d.row[w]
  OBVIOUS
<1> HIDE DEF new, rows
<1>8. Visible(o.db) = Visible(d) \ rows
  BY <1>6, <1>7 DEF Visible
<1>9. \A w \in Visible(o.db) : o.db.row[w] = d.row[w]
  BY <1>6, <1>7, <1>8 DEF Visible
<1>10. \A w \in Visible(o.db) : Seen(o.db, w) = Seen(d, w)
  BY <1>6, <1>9 DEF Seen
<1> QED BY <1>2, <1>6, <1>8, <1>10 DEF known, rows

-----------------------------------------------------------------------------
(* Statements on the table, and what peers send *)

\* The same table but for some fields, in addition to those there were.
LEMMA FieldsWritten ==
  ASSUME NEW d, WellFormed(d), NEW field \in Some(FieldEntry), DOMAIN d.field \subseteq DOMAIN field
  PROVE  After(d, [d EXCEPT !.field = field])
BY DEF After, WellFormed, Databases

\* Another state of the table.
LEMMA TableWritten ==
  ASSUME NEW d, WellFormed(d), NEW table \in {"active", "dropped"}
  PROVE  After(d, [d EXCEPT !.table = table]) /\ [d EXCEPT !.table = table].field = d.field
BY DEF After, WellFormed, Databases

\* Columns are added with their positions (add_column).
LEMMA AddColumnsOK ==
  ASSUME NEW d, WellFormed(d), NEW columns \in Seq(ColumnDefinition), NEW first \in Nat
  PROVE  After(d, AddColumns(d, columns, first))
<1> DEFINE names == {columns[n].name : n \in DOMAIN columns}
           place(c) == CHOOSE m \in DOMAIN columns : columns[m].name = c
           added == [c \in names |->
             [default |-> columns[place(c)].default, position |-> first + place(c) - 1,
              key |-> columns[place(c)].key]]
<1>1. /\ DOMAIN columns \subseteq Nat \ {0}
      /\ \A n \in DOMAIN columns : /\ columns[n].name \in Column
                                   /\ columns[n].default \in Datum
                                   /\ columns[n].key \in BOOLEAN
  <2>1. DOMAIN columns = 1 .. Len(columns) /\ Len(columns) \in Nat
    OBVIOUS
  <2>2. \A n \in DOMAIN columns : columns[n] \in ColumnDefinition
    OBVIOUS
  <2> QED BY <2>1, <2>2 DEF ColumnDefinition
<1>2. \A c \in names : place(c) \in DOMAIN columns
  OBVIOUS
<1> HIDE DEF place
<1>3. added \in [names -> FieldEntry] /\ names \subseteq Column
  BY <1>1, <1>2 DEF FieldEntry
<1> HIDE DEF names
<1>4. added \in Some(FieldEntry)
  BY <1>3 DEF Some
<1>5. AddColumns(d, columns, first) = [d EXCEPT !.field = Overlay(added, d.field)]
  BY DEF AddColumns, names, place
<1> HIDE DEF added
<1>6. d.field \in Some(FieldEntry)
  BY DEF WellFormed, Databases
<1>7. Overlay(added, d.field) \in Some(FieldEntry) /\ DOMAIN d.field \subseteq DOMAIN Overlay(added, d.field)
  BY <1>4, <1>6, OverlayOK DEF Overlay
<1> QED BY <1>5, <1>7, FieldsWritten

LEMMA TablesOK ==
  ASSUME NEW d, WellFormed(d)
  PROVE  /\ \A columns \in Schemas : \A e \in CreateTable(d, columns) : After(d, e)
         /\ \A columns \in Additions : \A e \in AlterTable(d, columns) : After(d, e)
         /\ \A e \in DropTheTable(d) : After(d, e)
<1>1. ASSUME NEW columns \in Schemas, NEW e \in CreateTable(d, columns)
      PROVE  After(d, e)
  <2> DEFINE active == [d EXCEPT !.table = "active"]
  <2>1. WellFormed(active) /\ active.field = d.field
    BY TableWritten DEF After
  <2>2. columns \in Seq(ColumnDefinition)
    BY SchemaAssumption
  <2>3. e = AddColumns(active, columns, 0)
    BY DEF CreateTable
  <2> HIDE DEF active
  <2>4. After(active, e)
    BY <2>1, <2>2, <2>3, AddColumnsOK
  <2> QED BY <2>1, <2>4 DEF After
<1>2. ASSUME NEW columns \in Additions, NEW e \in AlterTable(d, columns)
      PROVE  After(d, e)
  <2>1. columns \in Seq(ColumnDefinition)
    BY SchemaAssumption
  <2>2. Cardinality(DOMAIN d.field) \in Nat
    BY FieldsPositioned, FS_CardinalityType DEF Positioned
  <2>3. e = AddColumns(d, columns, Cardinality(DOMAIN d.field))
    BY DEF AlterTable
  <2> QED BY <2>1, <2>2, <2>3, AddColumnsOK
<1>3. \A e \in DropTheTable(d) : After(d, e)
  BY TableWritten DEF DropTheTable
<1> QED BY <1>1, <1>2, <1>3

\* One row written anew.
LEMMA RowWritten ==
  ASSUME NEW d, WellFormed(d), NEW w \in Row, NEW r \in RowState, r.state # "live" => r.doc = NoFunction
  PROVE  After(d, [d EXCEPT !.row[w] = r])
<1> DEFINE rows == [d.row EXCEPT ![w] = r]
<1>1. d.row \in [Row -> RowState]
  BY DEF WellFormed, Databases
<1>2. [d EXCEPT !.row[w] = r] = [d EXCEPT !.row = rows]
  OBVIOUS
<1>3. rows \in [Row -> RowState] /\ \A x \in Row : rows[x].state # "live" => rows[x].doc = NoFunction
  BY <1>1 DEF WellFormed
<1> HIDE DEF rows
<1> QED BY <1>2, <1>3, RowsWritten

LEMMA PeersOK ==
  ASSUME WellFormed(db), Peer
  PROVE  After(db, db')
<1>1. ASSUME NEW state \in {"active", "dropped"}, db' \in ReceiveTable(db, state)
      PROVE  After(db, db')
  <2>1. db' = [db EXCEPT !.table = state]
    BY <1>1 DEF ReceiveTable
  <2> QED BY <2>1, TableWritten
<1>2. ASSUME NEW f \in PeerFields, db' \in ReceiveField(db, f.name, f.entry)
      PROVE  After(db, db')
  <2> DEFINE sent == [x \in {f.name} |-> f.entry]
  <2>1. sent \in Some(FieldEntry)
    <3>1. sent \in [{f.name} -> FieldEntry] /\ {f.name} \subseteq Column
      BY PeerAssumption
    <3> HIDE DEF sent
    <3> QED BY <3>1 DEF Some
  <2>2. db' = [db EXCEPT !.field = Overlay(db.field, sent)]
    BY <1>2 DEF ReceiveField
  <2> HIDE DEF sent
  <2>3. db.field \in Some(FieldEntry)
    BY DEF WellFormed, Databases
  <2>4. /\ Overlay(db.field, sent) \in Some(FieldEntry)
        /\ DOMAIN db.field \subseteq DOMAIN Overlay(db.field, sent)
    BY <2>1, <2>3, OverlayOK DEF Overlay
  <2> QED BY <2>2, <2>4, FieldsWritten
<1>3. ASSUME NEW w \in Row, NEW k \in Keys(db), NEW doc \in Some(Literal),
             db' \in ReceiveRow(db, w, Overlay(doc, [c \in {k} |-> Uuid(w)]))
      PROVE  After(db, db')
  <2> DEFINE key == [c \in {k} |-> Uuid(w)]
             sent == Overlay(doc, key)
  <2>1. sent \in Some(Datum)
    <3>1. doc \in Some(Datum)
      BY DEF Some, Datum
    <3>2. key \in Some(Datum)
      <4>1. k \in Column
        BY FieldsPositioned DEF Keys
      <4>2. key \in [{k} -> Datum]
        BY DataOK
      <4> HIDE DEF key
      <4> QED BY <4>1, <4>2 DEF Some
    <3> HIDE DEF key
    <3> QED BY <3>1, <3>2, OverlayOK
  <2>2. CASE db' = db
    BY <2>2 DEF After
  <2>3. CASE db' # db
    <3> HIDE DEF sent
    <3> DEFINE r == [state |-> "live", doc |-> Overlay(db.row[w].doc, sent)]
    <3>1. db' = [db EXCEPT !.row[w] = r]
      BY <1>3, <2>3 DEF ReceiveRow, sent
    <3>2. r \in RowState
      <4>1. db.row[w].doc \in Some(Datum)
        BY DEF WellFormed, Databases, RowState
      <4>2. Overlay(db.row[w].doc, sent) \in Some(Datum)
        BY <2>1, <4>1, OverlayOK
      <4> QED BY <4>2 DEF RowState
    <3>3. r.state = "live"
      OBVIOUS
    <3> HIDE DEF r
    <3> QED BY <3>1, <3>2, <3>3, RowWritten
  <2> QED BY <2>2, <2>3
<1>4. ASSUME NEW w \in Row, db' \in ReceiveDeletion(db, w)
      PROVE  After(db, db')
  <2> DEFINE r == [state |-> "deleted", doc |-> NoFunction]
  <2>1. r \in RowState /\ r.doc = NoFunction
    BY NoFunctionOK DEF RowState
  <2>2. db' = [db EXCEPT !.row[w] = r]
    BY <1>4 DEF ReceiveDeletion
  <2> HIDE DEF r
  <2> QED BY <2>1, <2>2, RowWritten
<1> QED BY <1>1, <1>2, <1>3, <1>4 DEF Peer

-----------------------------------------------------------------------------
(* Statements as SQL has them *)

\* Without clauses that are refused, statements reach the executor.
LEMMA RunsSelect ==
  ASSUME NEW d, NEW e, NEW o \in Run(d, SelectWhere(e))
  PROVE  o \in Select(d, SelectWhere(e))
<1> DEFINE sql == SelectWhere(e)
<1>1. sql.kind = "select" /\ sql.clauses = {}
  BY DEF SelectWhere
<1> HIDE DEF sql
<1>2. Translate(sql) = {sql}
  BY <1>1 DEF Translate
<1>3. o \in Execute(d, sql)
  BY <1>2 DEF Run, sql
<1>4. o \in Select(d, sql)
  BY <1>1, <1>3 DEF Execute
<1> QED BY <1>4 DEF sql

LEMMA RunsUpdate ==
  ASSUME NEW d, NEW a, NEW e,
         NEW o \in Run(d, [kind |-> "update", assignments |-> a, where |-> e, clauses |-> {}])
  PROVE  o \in UpdateRows(d, [kind |-> "update", assignments |-> a, where |-> e, clauses |-> {}])
BY DEF Run, Translate, Execute

LEMMA RunsDelete ==
  ASSUME NEW d, NEW e, NEW o \in Run(d, [kind |-> "delete", where |-> e, clauses |-> {}])
  PROVE  o \in DeleteRows(d, [kind |-> "delete", where |-> e, clauses |-> {}])
BY DEF Run, Translate, Execute

\* The first of the rows, which is all that is left of a list of rows.
FirstRow(list, g) ==
  [kind |-> "insert_values", columns |-> list, values |-> [n \in DOMAIN list |-> g[list[n]]],
   returning |-> Everything]

LEMMA RunsInsert ==
  ASSUME NEW d, NEW list, NEW g, NEW o \in Run(d, InsertOf(list, g, 1))
  PROVE  o \in InsertValues(d, FirstRow(list, g))
<1> DEFINE sql == InsertOf(list, g, 1)
           values == [n \in DOMAIN list |-> g[list[n]]]
<1>1. sql.rows[1] = values /\ sql.kind = "insert" /\ sql.columns = list /\ sql.returning = Everything
  BY DEF InsertOf
<1>2. sql.clauses \cap Refused(sql.kind) = {}
  BY DEF InsertOf
<1> HIDE DEF sql, values
<1>3. Translate(sql) = {[kind |-> "insert_values", columns |-> list, values |-> values, returning |-> Everything]}
  BY <1>1, <1>2 DEF Translate
<1>4. Translate(sql) = {FirstRow(list, g)}
  BY <1>3 DEF FirstRow, values
<1>5. FirstRow(list, g).kind = "insert_values"
  BY DEF FirstRow
<1>6. o \in Execute(d, FirstRow(list, g))
  BY <1>4 DEF Run, sql
<1> QED BY <1>5, <1>6 DEF Execute

-----------------------------------------------------------------------------
(* Types of every database there can be *)

LEMMA RowStatementsOK ==
  ASSUME WellFormed(db), RowStatement
  PROVE  After(db, db')
<1>0. PICK sql \in FullInserts(db) \cup Updates(db) \cup Deletes(db) : \E o \in Run(db, sql) : db' = o.db
  BY DEF RowStatement
<1>1. PICK o \in Run(db, sql) : db' = o.db
  BY <1>0
<1>2. CASE sql \in FullInserts(db)
  <2> DEFINE list == SchemaColumns(db)
  <2>1. PICK g \in Gifts(db) : DOMAIN g = DOMAIN db.field /\ sql = InsertOf(list, g, 1)
    BY <1>2 DEF FullInserts
  <2> DEFINE s == FirstRow(list, g)
  <2>2. o \in InsertValues(db, s)
    BY <2>1, RunsInsert
  <2>3. Lists(list, DOMAIN g)
    BY <2>1, FieldsPositioned, FieldsListed
  <2>4. g # NoFunction
    <3>1. Keys(db) # {}
      BY <2>2 DEF InsertValues
    <3> QED BY <2>1, <3>1 DEF Keys, NoFunction
  <2>5. s.columns = list /\ s.values = [n \in DOMAIN list |-> g[list[n]]]
    BY DEF FirstRow
  <2> HIDE DEF s
  <2>6. \E w, r : RowInserted(db, o, r, w, s.returning)
    <3> HIDE DEF list
    <3> QED BY <2>2, <2>3, <2>4, <2>5, GiftInserted
  <2> QED BY <1>1, <2>6 DEF RowInserted
<1>3. CASE sql \in Updates(db)
  <2>1. PICK x \in Assignment, e \in Equals(db) :
          sql = [kind |-> "update", assignments |-> <<x>>, where |-> e, clauses |-> {}]
    BY <1>3 DEF Updates, UpdatesOf
  <2>2. o \in UpdateRows(db, sql)
    BY <2>1, RunsUpdate
  <2>3. sql.assignments \in Seq([column : Column, value : Written])
    BY <2>1 DEF Assignment
  <2> QED BY <1>1, <2>2, <2>3, UpdateOK
<1>4. CASE sql \in Deletes(db)
  <2>1. PICK e \in Equals(db) : sql = [kind |-> "delete", where |-> e, clauses |-> {}]
    BY <1>4 DEF Deletes
  <2>2. o \in DeleteRows(db, sql)
    BY <2>1, RunsDelete
  <2> QED BY <1>1, <2>2, DeleteOK
<1> QED BY <1>2, <1>3, <1>4

LEMMA RowInsertsOK ==
  ASSUME WellFormed(db), RowInsert
  PROVE  After(db, db')
<1> DEFINE row(n, place, v, w) == [m \in 1 .. n |-> IF m = place THEN Uuid(w) ELSE v]
           s(n, place, v, w) == [kind |-> "insert", row |-> row(n, place, v, w), returning |-> Everything]
<1>1. PICK n \in 1 .. Cardinality(Column), v \in Written, w \in Row :
        \E place \in 0 .. n : \E o \in Execute(db, s(n, place, v, w)) : db' = o.db
  BY DEF RowInsert
<1> PICK place \in 0 .. n : \E o \in Execute(db, s(n, place, v, w)) : db' = o.db
  BY <1>1
<1>2. PICK o \in Execute(db, s(n, place, v, w)) : db' = o.db
  OBVIOUS
<1>3. o \in InsertRow(db, row(n, place, v, w), Everything)
  <2> HIDE DEF row
  <2> QED BY DEF Execute
<1>4. row(n, place, v, w) \in Seq(Datum)
  <2>1. n \in Nat
    BY ColumnAssumption, FS_CardinalityType
  <2>2. row(n, place, v, w) \in [1 .. n -> Datum]
    BY DataOK
  <2> HIDE DEF row
  <2> QED BY <2>1, <2>2, IsSequence
<1> HIDE DEF row
<1>5. \E x, r : RowInserted(db, o, r, x, Everything)
  BY <1>3, <1>4, InsertRowOK
<1> QED BY <1>2, <1>5 DEF RowInserted

LEMMA StatementsInitOK == StatementsInit => WellFormed(db)
<1> SUFFICES ASSUME StatementsInit PROVE WellFormed(db)
  OBVIOUS
<1> DEFINE none == [state |-> "none", doc |-> NoFunction]
<1>1. none \in RowState
  BY NoFunctionOK DEF RowState
<1>2. db = [table |-> "absent", field |-> NoFunction, row |-> [w \in Row |-> none]]
  BY DEF StatementsInit
<1>3. NoFunction \in Some(FieldEntry)
  BY NoFunctionOK
<1>4. none.doc = NoFunction
  OBVIOUS
<1> HIDE DEF none
<1> QED BY <1>1, <1>2, <1>3, <1>4 DEF WellFormed, Databases

\* Every step leaves a well-formed database, with the fields there were.
LEMMA StatementsNextOK ==
  ASSUME WellFormed(db), [StatementsNext]_db
  PROVE  After(db, db')
<1>1. CASE RowStatement
  BY <1>1, RowStatementsOK
<1>2. CASE RowInsert
  BY <1>2, RowInsertsOK
<1>3. CASE TableStatement
  BY <1>3, TablesOK DEF TableStatement
<1>4. CASE Peer
  BY <1>4, PeersOK
<1>5. CASE UNCHANGED db
  BY <1>5 DEF After
<1> QED BY <1>1, <1>2, <1>3, <1>4, <1>5 DEF StatementsNext

\* Every database there can be is well-formed: documents are functions of columns
\* to values, of live rows only.
THEOREM StatementsInvariance == StatementsSpec => []WellFormed(db)
<1>1. WellFormed(db) /\ [StatementsNext]_db => WellFormed(db)'
  <2> SUFFICES ASSUME WellFormed(db), [StatementsNext]_db PROVE WellFormed(db')
    OBVIOUS
  <2> QED BY StatementsNextOK DEF After
<1> QED BY <1>1, StatementsInitOK, PTL DEF StatementsSpec

\* The same as the run checks it.
THEOREM StatementsTypes == StatementsSpec => []StatementsTypeOK
<1>1. WellFormed(db) => StatementsTypeOK
  <2> SUFFICES ASSUME WellFormed(db) PROVE StatementsTypeOK
    OBVIOUS
  <2>1. \A f, S : f \in Some(S) => Partial(f, S)
    BY Partials
  <2> QED BY <2>1 DEF WellFormed, Databases, RowState, StatementsTypeOK
<1> QED BY <1>1, StatementsInvariance, PTL

-----------------------------------------------------------------------------
(* Values stay where they are *)

\* Whoever adds fields, and wherever among the others, SELECT goes on to show of
\* every row what the row has stored under each name.
THEOREM ValuesStay == StatementsSpec => ColumnsKeepValues
<1>1. WellFormed(db) /\ [StatementsNext]_db => KeepsValues
  <2> SUFFICES ASSUME WellFormed(db), [StatementsNext]_db, db'.row = db.row,
                      NEW w \in Visible(db), NEW c \in DOMAIN db.row[w].doc \cap DOMAIN db.field
               PROVE  Shown(db')[w][c] = Shown(db)[w][c]
    BY DEF KeepsValues
  <2>1. WellFormed(db') /\ c \in DOMAIN db'.field
    BY StatementsNextOK DEF After
  <2>2. w \in Visible(db')
    BY DEF Visible
  <2>3. Shown(db)[w] = Seen(db, w) /\ Shown(db')[w] = Seen(db', w)
    BY <2>1, <2>2, FieldsPositioned, ShownIsSeen
  <2>4. Seen(db, w)[c] = db.row[w].doc[c] /\ Seen(db', w)[c] = db.row[w].doc[c]
    BY <2>1 DEF Seen
  <2> QED BY <2>3, <2>4
<1> QED BY <1>1, StatementsInvariance, PTL DEF StatementsSpec, ColumnsKeepValues

-----------------------------------------------------------------------------
(* SELECT *)

\* A value, or a column that a row has.
IsOperand(row, e) ==
  \/ e.op = "value"
  \/ e.op = "column" /\ e.column \in DOMAIN row

\* An operand is its value, whatever stands beside it.
LEMMA OperandsEvaluate ==
  ASSUME NEW row, NEW e, IsOperand(row, e), NEW left, NEW right
  PROVE  Node(row, e, left, right) = {Operand(row, e)}
<1>1. CASE e.op = "value"
  BY <1>1 DEF Node, Operand, Comparison
<1>2. CASE e.op = "column" /\ e.column \in DOMAIN row
  BY <1>2 DEF Node, Operand, Comparison
<1> QED BY <1>1, <1>2 DEF IsOperand

\* A comparison of operands, or a test of one.
IsCondition(row, e) ==
  \/ e.op \in Comparison /\ IsOperand(row, e.left) /\ IsOperand(row, e.right)
  \/ e.op \in {"is_null", "is_not_null"} /\ IsOperand(row, e.left)

\* A part of a predicate has a value, the same by itself and under AND and OR, and
\* it is true where SQL calls the part true: neither false nor unknown is.
Judged(row, e) ==
  /\ \E v : /\ Condition(row, e) = {v} /\ Evaluate(row, e) = {v}
            /\ v = Yes <=> TruthOfPart(row, e) = 2
  /\ TruthOfPart(row, e) \in 0 .. 2

LEMMA ConditionsJudged ==
  ASSUME NEW row, NEW e, IsOperand(row, e) \/ IsCondition(row, e)
  PROVE  Judged(row, e)
<1>1. \A b \in BOOLEAN : Bool(b) = Yes <=> b
  BY DEF Bool, Yes
<1>2. Yes # Null
  BY DEF Bool, Yes, Null
<1>3. CASE IsOperand(row, e)
  <2>1. Condition(row, e) = {Operand(row, e)} /\ Evaluate(row, e) = {Operand(row, e)}
    BY <1>3, OperandsEvaluate DEF Condition, Evaluate
  <2>2. /\ TruthOfPart(row, e) = IF Operand(row, e) = Null THEN 1
                                ELSE IF Operand(row, e) = Yes THEN 2 ELSE 0
    BY <1>3 DEF TruthOfPart, IsOperand, Comparison
  <2> QED BY <1>2, <2>1, <2>2 DEF Judged
<1>4. CASE e.op \in Comparison /\ IsOperand(row, e.left) /\ IsOperand(row, e.right)
  <2> DEFINE a == Operand(row, e.left)
             b == Operand(row, e.right)
             holds == Compare(e.op, a, b)
  <2>1. Node(row, e, {a}, {b}) = {Bool(holds)}
    <3> HIDE DEF a, b
    <3>1. e.op \in Comparison /\ e.op \notin {"value", "column", "is_null", "is_not_null", "and", "or"}
      BY <1>4 DEF Comparison
    <3>2. ASSUME NEW z
          PROVE  z \in Node(row, e, {a}, {b}) <=> z = Bool(holds)
      BY <3>1 DEF Node
    <3> HIDE DEF holds
    <3> QED BY <3>2
  <2>2. Condition(row, e) = {Bool(holds)}
    <3>1. Leaf(row, e.left) = {a} /\ Leaf(row, e.right) = {b}
      BY <1>4, OperandsEvaluate DEF Leaf
    <3> QED BY <2>1, <3>1 DEF Condition
  <2>3. Evaluate(row, e) = {Bool(holds)}
    <3>1. Condition(row, e.left) = {a} /\ Condition(row, e.right) = {b}
      BY <1>4, OperandsEvaluate DEF Condition
    <3> QED BY <2>1, <3>1 DEF Evaluate
  <2>4. TruthOfPart(row, e) = IF Null \in {a, b} THEN 1 ELSE IF Holds(e.op, a, b) THEN 2 ELSE 0
    BY <1>4 DEF TruthOfPart, Comparison
  <2>5. holds \in BOOLEAN /\ (holds <=> TruthOfPart(row, e) = 2)
    <3> HIDE DEF a, b
    <3> QED BY <2>4 DEF Compare, holds
  <2>6. TruthOfPart(row, e) \in 0 .. 2
    BY <2>4
  <2> HIDE DEF holds, a, b
  <2> QED BY <1>1, <2>2, <2>3, <2>5, <2>6 DEF Judged
<1>5. CASE e.op \in {"is_null", "is_not_null"} /\ IsOperand(row, e.left)
  <2> DEFINE a == Operand(row, e.left)
             holds == IF e.op = "is_null" THEN a = Null ELSE a # Null
  <2>1. ASSUME NEW right
        PROVE  Node(row, e, {a}, right) = {Bool(holds)}
    <3> HIDE DEF a
    <3>1. CASE e.op = "is_null"
      <4>1. e.op \notin Comparison
        BY <3>1 DEF Comparison
      <4>2. ASSUME NEW z
            PROVE  z \in Node(row, e, {a}, right) <=> z = Bool(holds)
        BY <3>1, <4>1 DEF Node
      <4> HIDE DEF holds
      <4> QED BY <4>2
    <3>2. CASE e.op = "is_not_null"
      <4>1. e.op \notin Comparison
        BY <3>2 DEF Comparison
      <4>2. ASSUME NEW z
            PROVE  z \in Node(row, e, {a}, right) <=> z = Bool(holds)
        BY <3>2, <4>1 DEF Node
      <4> HIDE DEF holds
      <4> QED BY <4>2
    <3> QED BY <1>5, <3>1, <3>2
  <2>2. Condition(row, e) = {Bool(holds)}
    <3>1. Leaf(row, e.left) = {a}
      BY <1>5, OperandsEvaluate DEF Leaf
    <3> HIDE DEF holds, a
    <3> QED BY <2>1, <3>1 DEF Condition
  <2>3. Evaluate(row, e) = {Bool(holds)}
    <3>1. Condition(row, e.left) = {a}
      BY <1>5, OperandsEvaluate DEF Condition
    <3> HIDE DEF holds, a
    <3> QED BY <2>1, <3>1 DEF Evaluate
  <2>4. TruthOfPart(row, e) = IF holds THEN 2 ELSE 0
    BY <1>5 DEF TruthOfPart, Comparison
  <2>5. holds \in BOOLEAN
    OBVIOUS
  <2> HIDE DEF holds, a
  <2> QED BY <1>1, <2>2, <2>3, <2>4, <2>5 DEF Judged
<1> QED BY <1>3, <1>4, <1>5 DEF IsCondition

\* AND and OR of parts that are judged alike are judged alike: what they are to
\* the executor, true or not, does not depend on what is false and what unknown.
LEMMA ConnectivesJudged ==
  ASSUME NEW row, NEW e, e.op \in {"and", "or"}, Judged(row, e.left), Judged(row, e.right)
  PROVE  Evaluate(row, e) = {Yes} <=> Truth(row, e) = 2
<1>1. PICK v : /\ Condition(row, e.left) = {v}
               /\ v = Yes <=> TruthOfPart(row, e.left) = 2
  BY DEF Judged
<1>2. PICK w : /\ Condition(row, e.right) = {w}
               /\ w = Yes <=> TruthOfPart(row, e.right) = 2
  BY DEF Judged
<1>3. No # Yes /\ \A b \in BOOLEAN : Bool(b) = Yes <=> b
  BY DEF Bool, Yes, No
<1>4. TruthOfPart(row, e.left) \in 0 .. 2 /\ TruthOfPart(row, e.right) \in 0 .. 2
  BY DEF Judged
<1>5. Evaluate(row, e) = Node(row, e, {v}, {w})
  BY <1>1, <1>2 DEF Evaluate
<1>6. CASE e.op = "and"
  <2>1. Node(row, e, {v}, {w}) = IF {v} = {Yes} THEN {Bool(y = Yes) : y \in {w}} ELSE {No : x \in {v}}
    BY <1>6 DEF Node, Comparison
  <2>2. Node(row, e, {v}, {w}) = IF v = Yes THEN {Bool(w = Yes)} ELSE {No}
    BY <2>1
  <2>3. Evaluate(row, e) = {Yes} <=> v = Yes /\ w = Yes
    BY <1>3, <1>5, <2>2
  <2>4. Truth(row, e) = Least(TruthOfPart(row, e.left), TruthOfPart(row, e.right))
    BY <1>6 DEF Truth
  <2> QED BY <1>1, <1>2, <1>4, <2>3, <2>4 DEF Least
<1>7. CASE e.op = "or"
  <2>1. Node(row, e, {v}, {w}) = IF {v} = {Yes} THEN {v} ELSE {Bool(y = Yes) : x \in {v}, y \in {w}}
    BY <1>7 DEF Node, Comparison
  <2>2. Node(row, e, {v}, {w}) = IF v = Yes THEN {Yes} ELSE {Bool(w = Yes)}
    BY <2>1
  <2>3. Evaluate(row, e) = {Yes} <=> v = Yes \/ w = Yes
    BY <1>3, <1>5, <2>2
  <2>4. Truth(row, e) = Most(TruthOfPart(row, e.left), TruthOfPart(row, e.right))
    BY <1>7 DEF Truth
  <2> QED BY <1>1, <1>2, <1>4, <2>3, <2>4 DEF Most
<1> QED BY <1>6, <1>7

\* Every predicate there is, for a row with the columns there are.
LEMMA PredicatesJudged ==
  ASSUME NEW d, NEW row, DOMAIN row = DOMAIN d.field, NEW e \in Predicates(d)
  PROVE  Evaluate(row, e) = {Yes} <=> Truth(row, e) = 2
<1>1. ASSUME NEW f \in Operands(d)
      PROVE  IsOperand(row, f) /\ f.op \in {"value", "column"}
  BY DEF Operands, ValueOf, ColumnOf, IsOperand
<1>2. ASSUME NEW f \in Comparisons(d)
      PROVE  IsCondition(row, f)
  <2>1. ASSUME NEW op \in Comparison, NEW g \in Operands(d), NEW h \in Operands(d), f = Binary(op, g, h)
        PROVE  IsCondition(row, f)
    <3>1. f.op = op /\ f.left = g /\ f.right = h
      BY <2>1 DEF Binary
    <3> QED BY <1>1, <3>1 DEF IsCondition
  <2>2. ASSUME NEW g \in Operands(d), f = IsNull(g) \/ f = IsNotNull(g)
        PROVE  IsCondition(row, f)
    <3>1. f.op \in {"is_null", "is_not_null"} /\ f.left = g
      BY <2>2 DEF IsNull, IsNotNull
    <3> QED BY <1>1, <3>1 DEF IsCondition
  <2> QED BY <2>1, <2>2 DEF Comparisons
<1>3. ASSUME NEW f \in Equals(d)
      PROVE  IsCondition(row, f)
  <2>1. PICK c \in DOMAIN d.field : \E v : f = Binary("=", ColumnOf(c), ValueOf(v))
    BY DEF Equals, Keys
  <2> QED BY <2>1 DEF Binary, ColumnOf, ValueOf, IsCondition, IsOperand, Comparison
<1>4. CASE e \in Operands(d) \cup Comparisons(d)
  <2>1. Judged(row, e)
    BY <1>1, <1>2, <1>4, ConditionsJudged
  <2>2. e.op \notin {"and", "or"}
    BY <1>1, <1>2, <1>4 DEF IsCondition, Comparison
  <2>3. Truth(row, e) = TruthOfPart(row, e)
    BY <2>2 DEF Truth
  <2> QED BY <2>1, <2>3 DEF Judged
<1>5. ASSUME NEW op \in {"and", "or"}, NEW f, NEW g, e = Binary(op, f, g),
             IsOperand(row, f) \/ IsCondition(row, f), IsOperand(row, g) \/ IsCondition(row, g)
      PROVE  Evaluate(row, e) = {Yes} <=> Truth(row, e) = 2
  <2>1. e.op \in {"and", "or"} /\ e.left = f /\ e.right = g
    BY <1>5 DEF Binary
  <2>2. Judged(row, f) /\ Judged(row, g)
    BY <1>5, ConditionsJudged
  <2> QED BY <2>1, <2>2, ConnectivesJudged
<1> DEFINE parts == {ColumnOf(c) : c \in DOMAIN d.field} \cup {f \in Equals(d) : ~IsUuid(f.right.value)}
<1>6. ASSUME NEW f \in parts
      PROVE  IsOperand(row, f) \/ IsCondition(row, f)
  <2>1. CASE f \in Equals(d)
    BY <1>3, <2>1
  <2>2. CASE \E c \in DOMAIN d.field : f = ColumnOf(c)
    BY <2>2 DEF ColumnOf, IsOperand
  <2> QED BY <2>1, <2>2
<1>7. \/ e \in Operands(d) \cup Comparisons(d)
      \/ \E op \in {"and", "or"}, f \in parts, g \in parts : e = Binary(op, f, g)
  BY DEF Predicates
<1> HIDE DEF parts
<1> QED BY <1>4, <1>5, <1>6, <1>7

\* What a SELECT answers.
LEMMA SelectIs ==
  ASSUME NEW d, NEW e, NEW o \in Select(d, SelectWhere(e))
  PROVE  /\ DOMAIN o.answer = {w \in Visible(d) : Evaluate(Shown(d)[w], e) = {Yes}}
         /\ \A w \in DOMAIN o.answer :
              o.answer[w] = [n \in DOMAIN Project(d, Everything) |-> Shown(d)[w][Project(d, Everything)[n]]]
         /\ \A n \in DOMAIN Project(d, Everything) : Project(d, Everything)[n] \in DOMAIN d.field
<1> DEFINE s == SelectWhere(e)
           columns == Project(d, s.projection)
           shown == Shown(d)
           verdict == [w \in Visible(d) |-> Evaluate(shown[w], s.where)]
           chosen == {w \in Visible(d) : verdict[w] = {Yes}}
<1>1. /\ o \in Unchanged(d, [w \in chosen |-> [n \in DOMAIN columns |-> shown[w][columns[n]]]])
      /\ \A n \in DOMAIN columns : columns[n] \in DOMAIN d.field
  <2> HIDE DEF s
  <2> QED BY DEF Select, s
<1>2. s.projection = Everything /\ s.where = e
  BY DEF SelectWhere
<1>3. o.answer = [w \in chosen |-> [n \in DOMAIN columns |-> shown[w][columns[n]]]]
  <2> HIDE DEF chosen, columns, shown
  <2> QED BY <1>1 DEF Unchanged
<1>4. chosen = {w \in Visible(d) : Evaluate(shown[w], e) = {Yes}}
  BY <1>2
<1> HIDE DEF chosen, shown
<1>5. DOMAIN o.answer = chosen
  BY <1>3
<1>6. \A w \in chosen : o.answer[w] = [n \in DOMAIN columns |-> shown[w][columns[n]]]
  <2> HIDE DEF columns
  <2> QED BY <1>3
<1> QED BY <1>1, <1>2, <1>4, <1>5, <1>6 DEF shown

\* SELECT selects what SQL's three-valued logic calls true.
THEOREM SelectsTruth == StatementsSpec => []SelectsLikeSql
<1>1. WellFormed(db) => SelectsLikeSql
  <2> SUFFICES ASSUME WellFormed(db), NEW e \in Predicates(db), NEW o \in Run(db, SelectWhere(e))
               PROVE  DOMAIN o.answer = {w \in Visible(db) : Truth(Shown(db)[w], e) = 2}
    BY DEF SelectsLikeSql
  <2>1. ASSUME NEW w \in Visible(db)
        PROVE  Evaluate(Shown(db)[w], e) = {Yes} <=> Truth(Shown(db)[w], e) = 2
    <3>1. DOMAIN Shown(db)[w] = DOMAIN db.field
      BY FieldsPositioned, ShownIsSeen DEF Seen
    <3> QED BY <3>1, PredicatesJudged
  <2> QED BY <2>1, RunsSelect, SelectIs
<1> QED BY <1>1, StatementsInvariance, PTL

-----------------------------------------------------------------------------
(* INSERT *)

\* A list the other way round is a list.
LEMMA ReversedLists ==
  ASSUME NEW S, IsFiniteSet(S), NEW list, Lists(list, S)
  PROVE  Lists(Reversed(list), S)
<1>1. Cardinality(S) \in Nat /\ Len(list) = Cardinality(S) /\ DOMAIN list = 1 .. Cardinality(S)
  BY ListsAreSequences, FS_CardinalityType DEF Lists
<1> DEFINE N == Cardinality(S)
<1>2. Reversed(list) = [n \in 1 .. N |-> list[N + 1 - n]]
  BY <1>1 DEF Reversed
<1>3. \A n \in 1 .. N : N + 1 - n \in 1 .. N /\ N + 1 - (N + 1 - n) = n
  BY <1>1
<1> HIDE DEF N
<1>4. ASSUME NEW c \in S
      PROVE  \E n \in 1 .. N : Reversed(list)[n] = c
  <2>1. PICK n \in 1 .. N : list[n] = c
    BY <1>1 DEF Lists, N
  <2> QED BY <1>2, <1>3, <2>1
<1>5. ASSUME NEW m \in 1 .. N, NEW n \in 1 .. N, Reversed(list)[m] = Reversed(list)[n]
      PROVE  m = n
  <2>1. list[N + 1 - m] = list[N + 1 - n]
    BY <1>2, <1>5
  <2>2. N + 1 - m = N + 1 - n
    BY <1>1, <1>3, <2>1 DEF Lists, N
  <2> QED BY <1>1, <2>2 DEF N
<1>6. \A n \in 1 .. N : Reversed(list)[n] \in S
  BY <1>1, <1>2, <1>3 DEF Lists, N
<1> QED BY <1>2, <1>4, <1>5, <1>6 DEF Lists, N

\* An inserted row is seen as it was inserted, and the other rows as before.
LEMMA InsertedIsSeen ==
  ASSUME NEW d, WellFormed(d), NEW o, NEW w \in Fresh(d), NEW returning,
         NEW r \in [DOMAIN SchemaColumns(d) -> Datum], RowInserted(d, o, r, w, returning)
  PROVE  /\ Visible(o.db) = Visible(d) \cup {w}
         /\ \A n \in DOMAIN SchemaColumns(d) : Seen(o.db, w)[SchemaColumns(d)[n]] = r[n]
         /\ \A x \in Visible(d) : Seen(o.db, x) = Seen(d, x) /\ x # w
<1> DEFINE schema == SchemaColumns(d)
           stored == [state |-> "live", doc |-> Encode(d, r, DOMAIN r)]
<1>1. o.db.field = d.field /\ \A x \in Row : o.db.row[x] = IF x = w THEN stored ELSE d.row[x]
  BY DEF RowInserted, WellFormed, Databases
<1>2. w \in Row /\ w \notin Visible(d)
  BY DEF Fresh, Visible
<1>3. stored.state = "live" /\ stored.doc = Encode(d, r, DOMAIN r)
  OBVIOUS
<1> HIDE DEF stored
<1>4. Visible(o.db) = Visible(d) \cup {w}
  BY <1>1, <1>2, <1>3 DEF Visible
<1>5. ASSUME NEW n \in DOMAIN schema
      PROVE  Seen(o.db, w)[schema[n]] = r[n]
  <2>1. /\ DOMAIN Encode(d, r, DOMAIN r) = {schema[m] : m \in DOMAIN r}
        /\ \A m \in DOMAIN r : Encode(d, r, DOMAIN r)[schema[m]] = r[m]
    <3> DEFINE places == DOMAIN r
    <3>1. places \in SUBSET DOMAIN schema
      OBVIOUS
    <3> HIDE DEF places
    <3>2. /\ DOMAIN Encode(d, r, places) = {schema[m] : m \in places}
          /\ \A m \in places : Encode(d, r, places)[schema[m]] = r[m]
      BY <3>1, EncodeOK
    <3> QED BY <3>2 DEF places
  <2>2. schema[n] \in DOMAIN d.field
    BY FieldsPositioned, FieldsListed DEF Lists
  <2>3. n \in DOMAIN r
    OBVIOUS
  <2> HIDE DEF schema
  <2> QED BY <1>1, <1>2, <1>3, <2>1, <2>2, <2>3 DEF Seen
<1>6. ASSUME NEW x \in Visible(d)
      PROVE  Seen(o.db, x) = Seen(d, x) /\ x # w
  BY <1>1, <1>2 DEF Seen, Visible
<1> QED BY <1>4, <1>5, <1>6

\* What an INSERT gives, and the defaults of the rest.
LEMMA GivenIs ==
  ASSUME NEW d, WellFormed(d), NEW g \in Gifts(d), NEW w, NEW list, Lists(list, DOMAIN g)
  PROVE  Overlay(Defaults(d, w), Given(InsertOf(list, g, 1))) = [c \in DOMAIN d.field |-> Inserted(d, g, w, c)]
<1> DEFINE sql == InsertOf(list, g, 1)
           values == [n \in DOMAIN list |-> g[list[n]]]
           given == Given(sql)
           defaults == Defaults(d, w)
<1>0. sql.rows[1] = values /\ sql.columns = list
  BY DEF InsertOf
<1>1. DOMAIN g \subseteq DOMAIN d.field
  BY GiftsOK
<1>2. /\ \A c \in DOMAIN g : Place(list, c) \in DOMAIN list /\ list[Place(list, c)] = c
      /\ \A n \in DOMAIN list : list[n] \in DOMAIN g
  BY Places DEF Lists
<1> HIDE DEF sql
<1>3. /\ DOMAIN given = {c \in DOMAIN g : g[c] # Default}
      /\ \A c \in DOMAIN given : given[c] = g[c]
  <2>1. given = [c \in {list[n] : n \in {n \in DOMAIN values : values[n] # Default}} |-> values[Place(list, c)]]
    BY <1>0 DEF Given
  <2> HIDE DEF given
  <2>2. DOMAIN given = {c \in DOMAIN g : g[c] # Default}
    BY <1>2, <2>1
  <2>3. \A c \in DOMAIN given : given[c] = g[c]
    BY <1>2, <2>1, <2>2
  <2> QED BY <2>2, <2>3
<1>4. /\ DOMAIN defaults = DOMAIN d.field
      /\ \A c \in DOMAIN d.field : defaults[c] = IF c \in Keys(d) THEN Uuid(w) ELSE d.field[c].default
  BY DEF Defaults
<1> HIDE DEF given, defaults
<1>5. \A c \in DOMAIN d.field :
        (IF c \in DOMAIN given THEN given[c] ELSE defaults[c]) = Inserted(d, g, w, c)
  BY <1>3, <1>4 DEF Inserted
<1>6. DOMAIN defaults \cup DOMAIN given = DOMAIN d.field
  BY <1>1, <1>3, <1>4
<1>7. Overlay(defaults, given) = [c \in DOMAIN d.field |-> Inserted(d, g, w, c)]
  BY <1>5, <1>6 DEF Overlay
<1> QED BY <1>7 DEF given, defaults, sql

\* The row that an INSERT returns is what SELECT shows from then on, and it is
\* what was given, by names, and the defaults.
LEMMA InsertIsRead ==
  ASSUME WellFormed(db), NEW sql \in Inserts(db), NEW o \in Run(db, sql)
  PROVE  \E w \in Fresh(db) :
           /\ Shown(o.db) = [x \in Visible(db) \cup {w} |->
                               IF x = w THEN Overlay(Defaults(db, w), Given(sql)) ELSE Shown(db)[x]]
           /\ \A a \in All(o.db) : o.answer = [x \in {w} |-> a.answer[w]]
<1>1. PICK g \in Gifts(db) \ {NoFunction} :
        sql \in {InsertOf(Listed(DOMAIN g, ByName), g, 1), InsertOf(Reversed(Listed(DOMAIN g, ByName)), g, 1)}
  BY DEF Inserts
<1>2. PICK list : Lists(list, DOMAIN g) /\ sql = InsertOf(list, g, 1)
  <2>1. DOMAIN g \subseteq DOMAIN db.field
    BY GiftsOK
  <2>2. IsFiniteSet(DOMAIN g) /\ DOMAIN g \subseteq Nat
    BY <2>1, FieldsPositioned, FS_Subset DEF Positioned
  <2>3. Lists(Listed(DOMAIN g, ByName), DOMAIN g)
    BY <2>2, NamesListed
  <2>4. Lists(Reversed(Listed(DOMAIN g, ByName)), DOMAIN g)
    BY <2>2, <2>3, ReversedLists
  <2> QED BY <1>1, <2>3, <2>4
<1> DEFINE schema == SchemaColumns(db)
           columns == Project(db, Everything)
           s == FirstRow(list, g)
<1>3. s.columns = list /\ s.values = [n \in DOMAIN list |-> g[list[n]]] /\ s.returning = Everything
  BY DEF FirstRow
<1>4. o \in InsertValues(db, s)
  BY <1>2, RunsInsert
<1> HIDE DEF s
<1>5. PICK w \in Fresh(db), r \in [DOMAIN schema -> Datum] :
        /\ RowInserted(db, o, r, w, Everything)
        /\ \A n \in DOMAIN schema : r[n] = Inserted(db, g, w, schema[n])
  BY <1>2, <1>3, <1>4, GiftInserted
<1>6. /\ Lists(schema, DOMAIN db.field)
      /\ Positioned(db.field) /\ Positioned(o.db.field) /\ o.db.field = db.field
  BY <1>5, FieldsPositioned, FieldsListed DEF RowInserted, After
<1>7. /\ Visible(o.db) = Visible(db) \cup {w}
      /\ \A n \in DOMAIN schema : Seen(o.db, w)[schema[n]] = r[n]
      /\ \A x \in Visible(db) : Seen(o.db, x) = Seen(db, x) /\ x # w
  BY <1>5, InsertedIsSeen
<1>8. Seen(o.db, w) = [c \in DOMAIN db.field |-> Inserted(db, g, w, c)]
  <2>1. ASSUME NEW c \in DOMAIN db.field
        PROVE  Seen(o.db, w)[c] = Inserted(db, g, w, c)
    <3>1. PICK n \in DOMAIN schema : schema[n] = c
      BY <1>6 DEF Lists
    <3> HIDE DEF schema
    <3> QED BY <1>5, <1>7, <3>1
  <2>2. DOMAIN Seen(o.db, w) = DOMAIN db.field /\ Seen(o.db, w) = [c \in DOMAIN Seen(o.db, w) |-> Seen(o.db, w)[c]]
    BY <1>6 DEF Seen
  <2> QED BY <2>1, <2>2
<1>9. Shown(o.db) = [x \in Visible(o.db) |-> Seen(o.db, x)] /\ Shown(db) = [x \in Visible(db) |-> Seen(db, x)]
  BY <1>6, ShownIsSeen
<1>10. Shown(o.db) = [x \in Visible(db) \cup {w} |->
                        IF x = w THEN Overlay(Defaults(db, w), Given(sql)) ELSE Shown(db)[x]]
  <2>1. Overlay(Defaults(db, w), Given(sql)) = [c \in DOMAIN db.field |-> Inserted(db, g, w, c)]
    BY <1>2, GivenIs
  <2> QED BY <1>7, <1>8, <1>9, <2>1
\* The answer is the row in the order of the columns, as SELECT's are.
<1>11. ASSUME NEW a \in All(o.db)
       PROVE  o.answer = [x \in {w} |-> a.answer[w]]
  <2> DEFINE e == ValueOf(Yes)
  <2>1. Project(o.db, Everything) = columns
    <3>1. SchemaColumns(o.db) = schema
      BY <1>6, ColumnsOfFields
    <3> QED BY <3>1 DEF Project
  <2>2. a \in Select(o.db, SelectWhere(e))
    BY DEF All
  <2>3. Evaluate(Shown(o.db)[w], e) = {Yes}
    <3>1. e.op = "value" /\ e.value = Yes
      BY DEF ValueOf
    <3> HIDE DEF e
    <3>2. IsOperand(Shown(o.db)[w], e) /\ Operand(Shown(o.db)[w], e) = Yes
      BY <3>1 DEF IsOperand, Operand
    <3> QED BY <3>2, OperandsEvaluate DEF Evaluate
  <2> HIDE DEF e, columns
  <2>4. w \in DOMAIN a.answer
    BY <1>7, <2>2, <2>3, SelectIs
  <2>5. a.answer[w] = [n \in DOMAIN columns |-> Shown(o.db)[w][columns[n]]]
    BY <2>1, <2>2, <2>4, SelectIs
  <2>6. \A n \in DOMAIN columns : columns[n] \in DOMAIN db.field
    BY <1>6, <2>1, <2>2, SelectIs
  <2>7. o.answer = [x \in {w} |-> [n \in DOMAIN columns |-> r[Place(schema, columns[n])]]]
    <3>1. Everything # <<>>
      BY DEF Everything
    <3> QED BY <1>5, <3>1 DEF RowInserted, columns
  <2>8. ASSUME NEW n \in DOMAIN columns
        PROVE  r[Place(schema, columns[n])] = Shown(o.db)[w][columns[n]]
    <3>1. /\ Place(schema, columns[n]) \in DOMAIN schema
          /\ schema[Place(schema, columns[n])] = columns[n]
      BY <1>6, <2>6, Places
    <3>2. Shown(o.db)[w] = Seen(o.db, w)
      BY <1>7, <1>9
    <3> HIDE DEF schema
    <3> QED BY <1>7, <3>1, <3>2
  <2> HIDE DEF schema
  <2> QED BY <2>5, <2>7, <2>8
<1> QED BY <1>10, <1>11

\* INSERT is read back as it was written.
THEOREM InsertsRead == StatementsSpec => []InsertReadsBack
<1>1. WellFormed(db) => InsertReadsBack
  BY InsertIsRead DEF InsertReadsBack
<1> QED BY <1>1, StatementsInvariance, PTL

-----------------------------------------------------------------------------
(* UPDATE and DELETE *)

\* One assignment or two assign what the executor assigns.
LEMMA LatestAssigned ==
  ASSUME NEW a \in AssignmentLists, NEW s, s.assignments = a
  PROVE  a \in Seq([column : Column, value : Written]) /\ Assigned(s) = Latest(a)
<1> DEFINE last(c) == CHOOSE n \in DOMAIN a :
             a[n].column = c /\ \A m \in DOMAIN a : a[m].column = c => m <= n
           latest(c) == IF a[Len(a)].column = c THEN Len(a) ELSE 1
<1>1. /\ \/ \E x \in Assignment : a = <<x>>
         \/ \E x \in Assignment, y \in Assignment : a = <<x, y>>
  BY DEF AssignmentLists, Assignment, Written
<1>2. a \in Seq([column : Column, value : Written])
  <2>1. \A S : \A x, y \in S : <<x>> \in Seq(S) /\ <<x, y>> \in Seq(S)
    OBVIOUS
  <2>2. a \in Seq(Assignment)
    <3> HIDE DEF last, latest
    <3> QED BY <1>1, <2>1
  <2> QED BY <2>2 DEF Assignment
<1>3. ASSUME NEW c \in {x.column : x \in ToSet(a)}
      PROVE  last(c) = latest(c)
  <2>1. CASE \E x \in Assignment : a = <<x>>
    <3>1. DOMAIN a = {1} /\ Len(a) = 1 /\ a[1].column = c
      BY <2>1 DEF ToSet
    <3> QED BY <3>1
  <2>2. CASE \E x \in Assignment, y \in Assignment : a = <<x, y>>
    <3>1. DOMAIN a = {1, 2} /\ Len(a) = 2 /\ (a[1].column = c \/ a[2].column = c)
      BY <2>2 DEF ToSet
    <3> QED BY <3>1
  <2> QED BY <1>1, <2>1, <2>2
<1>4. Assigned(s) = [c \in {x.column : x \in ToSet(a)} |-> a[last(c)].value]
  BY DEF Assigned
<1>5. Latest(a) = [c \in {x.column : x \in ToSet(a)} |-> a[latest(c)].value]
  BY DEF Latest
<1> HIDE DEF last, latest
<1> QED BY <1>2, <1>3, <1>4, <1>5

\* A column = value names one column and one value, and a value that is not null
\* is matched by the rows that SELECT selects.
LEMMA MatchingSelected ==
  ASSUME NEW d, WellFormed(d), NEW e \in Equals(d), e.right.value # Null,
         NEW o \in Run(d, SelectWhere(e)), NEW where \in Equality(e)
  PROVE  Matching(d, where) = DOMAIN o.answer
<1> DEFINE c == e.left.column
           v == e.right.value
           schema == SchemaColumns(d)
<1>1. /\ e.op = "=" /\ e.left.op = "column" /\ e.right.op = "value"
      /\ c \in DOMAIN d.field
  <2>1. PICK k \in DOMAIN d.field : \E x : e = Binary("=", ColumnOf(k), ValueOf(x))
    BY DEF Equals, Keys
  <2> QED BY <2>1 DEF Binary, ColumnOf, ValueOf
<1>2. where.column = c /\ where.value = v
  BY <1>1 DEF Equality
<1>3. Lists(schema, DOMAIN d.field) /\ Positioned(d.field)
  BY FieldsPositioned, FieldsListed
<1>4. ASSUME NEW w \in Visible(d)
      PROVE  Evaluate(Shown(d)[w], e) = {Yes} <=> Seen(d, w)[c] = v
  <2> DEFINE row == Seen(d, w)
  <2>1. Shown(d)[w] = row /\ DOMAIN row = DOMAIN d.field
    BY <1>3, ShownIsSeen DEF Seen
  <2> HIDE DEF row, c, v
  <2>2. IsCondition(row, e)
    BY <1>1, <2>1 DEF IsCondition, IsOperand, Comparison, c
  <2>3. Operand(row, e.left) = row[c] /\ Operand(row, e.right) = v
    BY <1>1 DEF Operand, c, v
  <2>4. TruthOfPart(row, e) = IF Null \in {row[c], v} THEN 1 ELSE IF Holds("=", row[c], v) THEN 2 ELSE 0
    BY <1>1, <2>3 DEF TruthOfPart, Comparison
  <2>5. Holds("=", row[c], v) <=> row[c] = v
    BY DEF Holds
  <2>6. TruthOfPart(row, e) = 2 <=> row[c] = v
    BY <2>4, <2>5 DEF v
  <2>7. Evaluate(row, e) = {Yes} <=> TruthOfPart(row, e) = 2
    BY <2>2, ConditionsJudged DEF Judged
  <2> QED BY <2>1, <2>6, <2>7 DEF row
<1>5. ASSUME NEW w \in Visible(d)
      PROVE  Rows(d)[w][Place(schema, c)] = Seen(d, w)[c]
  <2>1. Rows(d)[w] = [n \in DOMAIN schema |-> Seen(d, w)[schema[n]]]
    BY <1>3, RowsAreSeen
  <2>2. Place(schema, c) \in DOMAIN schema /\ schema[Place(schema, c)] = c
    BY <1>1, <1>3, Places
  <2> HIDE DEF schema, c
  <2> QED BY <2>1, <2>2
<1>6. Matching(d, where) = {w \in Visible(d) : Seen(d, w)[c] = v}
  BY <1>2, <1>5 DEF Matching
<1>7. DOMAIN o.answer = {w \in Visible(d) : Evaluate(Shown(d)[w], e) = {Yes}}
  BY RunsSelect, SelectIs
<1> HIDE DEF c, v
<1> QED BY <1>4, <1>6, <1>7

\* UPDATE and DELETE change the rows that SELECT selects, and nothing else of them
\* than they say.
THEOREM ChangesAreExact == StatementsSpec => []ChangesExactly
<1>1. ASSUME WellFormed(db), NEW e \in Equals(db), e.right.value # Null, NEW s \in Run(db, SelectWhere(e)),
             NEW a \in AssignmentLists,
             NEW o \in Run(db, [kind |-> "update", assignments |-> a, where |-> e, clauses |-> {}])
      PROVE  Shown(o.db) = [w \in Visible(db) |->
               IF w \in DOMAIN s.answer THEN Overlay(Shown(db)[w], Latest(a)) ELSE Shown(db)[w]]
  <2> DEFINE sql == [kind |-> "update", assignments |-> a, where |-> e, clauses |-> {}]
  <2>1. o \in UpdateRows(db, sql)
    BY RunsUpdate
  <2>2. sql.assignments = a /\ sql.where = e
    OBVIOUS
  <2> HIDE DEF sql
  <2>3. sql.assignments \in Seq([column : Column, value : Written]) /\ Assigned(sql) = Latest(a)
    BY <2>2, LatestAssigned
  <2>4. PICK where \in Equality(e) :
          /\ After(db, o.db)
          /\ Visible(o.db) = Visible(db)
          /\ \A w \in Visible(db) :
               Seen(o.db, w) = IF w \in Matching(db, where) THEN Overlay(Seen(db, w), Latest(a)) ELSE Seen(db, w)
    <3>1. \E where \in Equality(sql.where) :
            /\ where.column \in DOMAIN db.field
            /\ o.db.field = db.field /\ After(db, o.db)
            /\ Visible(o.db) = Visible(db)
            /\ \A w \in Visible(db) :
                 Seen(o.db, w) = IF w \in Matching(db, where) THEN Overlay(Seen(db, w), Assigned(sql))
                                 ELSE Seen(db, w)
      BY <1>1, <2>1, <2>3, UpdateOK
    <3> QED BY <2>2, <2>3, <3>1
  <2>5. Matching(db, where) = DOMAIN s.answer
    BY <1>1, MatchingSelected
  <2>6. Shown(o.db) = [w \in Visible(o.db) |-> Seen(o.db, w)] /\ Shown(db) = [w \in Visible(db) |-> Seen(db, w)]
    BY <1>1, <2>4, FieldsPositioned, ShownIsSeen DEF After
  <2> QED BY <2>4, <2>5, <2>6
<1>2. ASSUME WellFormed(db), NEW e \in Equals(db), e.right.value # Null, NEW s \in Run(db, SelectWhere(e)),
             NEW o \in Run(db, [kind |-> "delete", where |-> e, clauses |-> {}])
      PROVE  Shown(o.db) = [w \in Visible(db) \ DOMAIN s.answer |-> Shown(db)[w]]
  <2> DEFINE sql == [kind |-> "delete", where |-> e, clauses |-> {}]
  <2>1. o \in DeleteRows(db, sql)
    BY RunsDelete
  <2>2. sql.where = e
    OBVIOUS
  <2> HIDE DEF sql
  <2>3. PICK where \in Equality(e) :
          /\ After(db, o.db)
          /\ Visible(o.db) = Visible(db) \ Matching(db, where)
          /\ \A w \in Visible(o.db) : Seen(o.db, w) = Seen(db, w)
    BY <1>2, <2>1, <2>2, DeleteOK
  <2>4. Matching(db, where) = DOMAIN s.answer
    BY <1>2, MatchingSelected
  <2>5. Shown(o.db) = [w \in Visible(o.db) |-> Seen(o.db, w)] /\ Shown(db) = [w \in Visible(db) |-> Seen(db, w)]
    BY <1>2, <2>3, FieldsPositioned, ShownIsSeen DEF After
  <2> QED BY <2>3, <2>4, <2>5
<1>3. WellFormed(db) => ChangesExactly
  BY <1>1, <1>2 DEF ChangesExactly
<1> QED BY <1>3, StatementsInvariance, PTL
=============================================================================
