------------------------------ MODULE MCSession -----------------------------
(* Small instances of Session for TLC: two replicas.                       *)
EXTENDS Session

CONSTANTS r1, r2, w1, w2, t1, l1, l2

OneTable == [w \in Row |-> t1]

\* The first link runs from r1 to r2, the second back.
Ends == [l \in Link |-> [role \in Role |->
           IF (l = l1) = (role = "initiator") THEN r1 ELSE r2]]

SameVersion == {[r \in Replica |-> 3]}

AnyVersion == SameVersion \cup {[r \in Replica |-> IF r = r1 THEN 3 ELSE 2]}
=============================================================================
