SPECIFICATION Spec
CONSTANTS
  Replica = {r1, r2}
  Row = {w1, w2}
  Change = {c1, c2, c3, c4}
  Column = {a, b}
  FullPayload = FALSE
SYMMETRY Symmetry
INVARIANTS TypeOK Readable CausallyComplete
PROPERTIES NoChangeLost TombstonePermanent ConflictsKept ImplementsHistory
