---------------------------- MODULE Expressions ----------------------------
(***************************************************************************)
(* Values, the order of values, and the predicates of statements.          *)
(*                                                                         *)
(* A value is a pair: the rank of its variant and a number for its         *)
(* contents.  Values of two variants are ordered by their ranks.           *)
(***************************************************************************)
EXTENDS Naturals

Null == <<0, 0>>
Uuid(w) == <<2, w>>
Bool(b) == <<3, IF b THEN 1 ELSE 0>>
Yes == Bool(TRUE)
No == Bool(FALSE)
Integer(n) == <<4, n>>

IsUuid(v) == v[1] = 2

\* Ord for Value.
Less(v, w) == v[1] < w[1] \/ (v[1] = w[1] /\ v[2] < w[2])

Comparison == {"=", "<>", "<", "<=", ">", ">="}

Holds(op, v, w) ==
  \/ op \in {"=", "<=", ">="} /\ v = w
  \/ op \in {"<>", "<", "<="} /\ Less(v, w)
  \/ op \in {"<>", ">", ">="} /\ Less(w, v)

\* Fault: a null is compared as the lowest of the values.
CompareNulls(op, v, w) == Holds(op, v, w)

\* compare_expr: no comparison with a null holds.
Compare(op, v, w) == v # Null /\ w # Null /\ Holds(op, v, w)

-----------------------------------------------------------------------------
(* Predicates *)

ValueOf(v) == [op |-> "value", value |-> v]
ColumnOf(c) == [op |-> "column", column |-> c]
IsNull(e) == [op |-> "is_null", left |-> e]
IsNotNull(e) == [op |-> "is_not_null", left |-> e]
Binary(op, e, f) == [op |-> op, left |-> e, right |-> f]

\* What an expression is for a row, a function of its columns, when its operands
\* are `left` and `right`: one value, or none when it cannot be evaluated.  AND
\* and OR evaluate their right side only when they need it.
Node(row, e, left, right) ==
  CASE e.op = "value" -> {e.value}
    [] e.op = "column" -> {row[c] : c \in {e.column} \cap DOMAIN row}
    [] e.op = "is_null" -> {Bool(v = Null) : v \in left}
    [] e.op = "is_not_null" -> {Bool(v # Null) : v \in left}
    [] e.op \in Comparison -> {Bool(Compare(e.op, v, w)) : v \in left, w \in right}
    [] e.op = "and" -> IF left = {Yes} THEN {Bool(w = Yes) : w \in right} ELSE {No : v \in left}
    [] e.op = "or" -> IF left = {Yes} THEN left ELSE {Bool(w = Yes) : v \in left, w \in right}
    [] OTHER -> {}

\* Bound: an expression is an operand, a condition on operands, or AND or OR of
\* those.
Leaf(row, e) == Node(row, e, {}, {})
Condition(row, e) == Node(row, e, Leaf(row, e.left), Leaf(row, e.right))
Evaluate(row, e) == Node(row, e, Condition(row, e.left), Condition(row, e.right))

-----------------------------------------------------------------------------
(* Reference: the three-valued logic of SQL.  0 is false, 1 unknown, 2 true. *)

Least(m, n) == IF m < n THEN m ELSE n
Most(m, n) == IF m < n THEN n ELSE m

Operand(row, e) == IF e.op = "column" THEN row[e.column] ELSE e.value

\* A condition and an operand by itself,
TruthOfPart(row, e) ==
  LET v == Operand(row, e.left)
      w == Operand(row, e.right)
      x == Operand(row, e)
      Known(b) == IF b THEN 2 ELSE 0
  IN  CASE e.op = "is_null" -> Known(v = Null)
        [] e.op = "is_not_null" -> Known(v # Null)
        [] e.op \in Comparison -> IF Null \in {v, w} THEN 1 ELSE Known(Holds(e.op, v, w))
        [] OTHER -> IF x = Null THEN 1 ELSE Known(x = Yes)

\* and connectives of them.
Truth(row, e) ==
  CASE e.op = "and" -> Least(TruthOfPart(row, e.left), TruthOfPart(row, e.right))
    [] e.op = "or" -> Most(TruthOfPart(row, e.left), TruthOfPart(row, e.right))
    [] OTHER -> TruthOfPart(row, e)
=============================================================================
