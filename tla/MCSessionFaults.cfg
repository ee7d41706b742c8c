SPECIFICATION MCSpec
CONSTANTS
  r1 = r1
  r2 = r2
  w1 = w1
  w2 = w2
  t1 = t1
  l1 = l1
  l2 = l2
  l3 = l3
  Replica = {r1, r2}
  Row = {w1, w2}
  Table = {t1}
  TableOf <- OneTable
  Link = {l1, l2, l3}
  End <- Ends
  Deployments <- AnyVersion
  Change = {1, 2}
  Column = {1}
  FullPayload = TRUE
  Batch = 2
  Closes = TRUE
  MaxOpen = 2
  MaxFailures = 1
  MaxDdl = 2
INVARIANTS SuccessDelivers NoneWaitForever
PROPERTIES ImplementsReplication
