\* Three clients on one key: a transaction can be overtaken twice, and the
\* tables can return to contents they had (ensure, drop) under another revision.
SPECIFICATION EngineSpec
CONSTANTS
  Client = {c1, c2, c3}
  Name = {n1}
  Key = {k1}
  Value = {v1, v2}
  MaxRevision = 3
  Task = {c1, c2}
  Doc = {d1}
  Change = {1, 2}
  MaxCalls = 2
  Absent = Absent
  Unreadable = Unreadable
  Column = {1, 2, 3}
  Row = {1, 2}
  Literal <- Literals
  Schemas <- Created
  Additions <- Added
  PeerFields <- Sent
SYMMETRY Symmetry
INVARIANTS
  TypeOK
  RevisionIdentifies
  FileTypeOK
  DocumentsFaithful
  StatementsTypeOK SelectsLikeSql InsertReadsBack ChangesExactly
PROPERTIES
  ImplementsSerialStore
  FileImplementsSerialStore
  AdditionsKept CompactionKeeps
  ColumnsKeepValues
