SPECIFICATION SqlSpec
CONSTANTS
  Client = {c1}
  Name = {n1}
  Key = {k1}
  Value = {v1}
  MaxRevision = 1
  Task = {c1}
  Doc = {d1}
  Change = {1}
  MaxCalls = 1
  Absent = Absent
  Unreadable = Unreadable
  Column = {1, 2, 3}
  Row = {1, 2}
  Literal <- Literals
  Schemas <- Created
  Additions <- Added
  PeerFields <- Sent
INVARIANTS NothingDiscarded
CHECK_DEADLOCK FALSE
