SPECIFICATION IndexesSpec
CONSTANTS
  a = a
  b = b
  t1 = t1
  t2 = t2
  Null = Null
  Table = {t1, t2}
  Index = {i1}
  Row = {1, 2, 3}
  Column = {a, b}
  Value = {1, 2}
  Defaults = {1}
  Definitions <- OneOrTwoColumns
  PeerCatalogs = FALSE
INVARIANTS TypeOK IndexesExact LookupCanonical
PROPERTIES UniqueEnforced ImportsRepaired
CHECK_DEADLOCK FALSE
