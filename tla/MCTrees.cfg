SPECIFICATION TreesSpec
CONSTANTS
  Task = {c1, c2}
  Key = {1, 2}
  Value = {v1, v2}
  Deleted = Deleted
  Values <- SomeValues
  MaxColumns = 2
  ChangeKeys <- SomeChangeKeys
  Uuid = 2
  Number = 2
INVARIANTS
  TypeOK GetIsRange RemovalsHold
  KeysSort
PROPERTIES CommitMakesView CommitsFinish
