--------------------------- MODULE MCSessionFaults --------------------------
(* Sessions of two replicas: those of one link, again and again, which may  *)
(* fail at any step; and, once one of these has brought a first row to both *)
(* replicas, one of each of two other links at the same time.               *)
EXTENDS MCSession

CONSTANT l3

Fresh(l) == At(l, "initiator", "idle")
Over(l) == \A role \in Role : end[l][role].pc \in {"ok", "failed"}

Both == ~Fresh(l1) \/ ~Fresh(l2)

\* Rows are alike: the first of them is w1, and with two sessions at a time it is the
\* only one and deleted by r2 alone.
StatementStep ==
  /\ Statement
  /\ DOMAIN log = {} \/ Both => \A r \in Replica : store'[r][w2] = NoRow
  /\ Both => store'[r1][w1].deleted = store[r1][w1].deleted

\* No session starts before there is a row, or no table that could have one.
OpenAlone ==
  /\ ~Both
  /\ DOMAIN log # {} \/ ddl = MaxDdl
  /\ Open(l3)

\* Nothing has failed, both replicas made the table, and the last session has brought
\* the first row from r1 to r2.
Told ==
  /\ failures = 0 /\ ddl = MaxDdl /\ \A r \in Replica : Active(r, t1)
  /\ DOMAIN log = {1} /\ log[1].row = w1 /\ ~store[r1][w1].deleted
  /\ \A role \in Role : At(l3, role, "ok")
  /\ \A r \in Replica : RowUnits(r) = RowUnits(r1)
  /\ end[l3]["initiator"].units = CatalogUnits(r2)

OpenOthers == (Both \/ Told) /\ \E l \in {l1, l2} : Fresh(l) /\ Open(l)

MCNext ==
  \/ StatementStep
  \/ ~Both /\ Ddl
  \/ OpenAlone \/ OpenOthers
  \/ \E l \in Link, role \in Role : Proceed(l, role)
  \/ \E role \in Role : Fail(l3, role)
  \/ Over(l1) /\ Over(l2) /\ UNCHANGED vars

MCSpec == Init /\ [][MCNext]_vars
=============================================================================
