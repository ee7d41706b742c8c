SPECIFICATION Spec
CONSTANTS
  a = a
  b = b
  Null = Null
  Table = {t1}
  Index = {i1}
  Row = {1, 2}
  Column = {a}
  Value = {1, 2}
  Defaults = {1}
  Definitions <- OneColumn
  PeerCatalogs = FALSE
INVARIANTS Recreatable
CHECK_DEADLOCK FALSE
