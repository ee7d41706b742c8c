SPECIFICATION Spec
CONSTANTS
  r1 = r1
  r2 = r2
  w1 = w1
  w2 = w2
  t1 = t1
  l1 = l1
  l2 = l2
  Replica = {r1, r2}
  Row = {w1}
  Table = {t1}
  TableOf <- OneTable
  Link = {l1}
  End <- Ends
  Deployments <- SameVersion
  Change = {1, 2}
  Column = {1}
  FullPayload = FALSE
  Batch = 1
  Closes = FALSE
  MaxOpen = 1
  MaxFailures = 0
  MaxDdl = 2
INVARIANTS DeliversUnits
