----------------------------- MODULE RowHistory -----------------------------
(***************************************************************************)
(* What replication promises of Logical Rows, with no storage and no       *)
(* protocol: each replica knows a set of changes per row that only grows   *)
(* and is always complete (a change is never known without the changes its *)
(* author had seen), and a row that is dead at a replica stays dead there. *)
(* A replica learns changes and deaths only from what some replica did.    *)
(***************************************************************************)
CONSTANTS Replica, Row, Change

VARIABLES
  past,    \* the changes authored so far, each with the changes its author knew
  known,   \* known[r][w]: the changes of row w that replica r holds
  dead     \* the rows each replica has seen deleted

vars == <<past, known, dead>>

Complete(p, C) == \A c \in C : c \in DOMAIN p /\ p[c] \subseteq C

Init ==
  /\ past = [c \in {} |-> {}]
  /\ known = [r \in Replica |-> [w \in Row |-> {}]]
  /\ dead = [r \in Replica |-> {}]

\* A replica authors a change on a row that is alive there, on all it knows.
Author(r, w, c) ==
  /\ w \notin dead[r]
  /\ c \notin DOMAIN past
  /\ past' = [d \in DOMAIN past \cup {c} |-> IF d = c THEN known[r][w] ELSE past[d]]
  /\ known' = [known EXCEPT ![r][w] = @ \cup {c}]
  /\ UNCHANGED dead

Delete(r, w) ==
  /\ w \notin dead[r]
  /\ known[r][w] # {}
  /\ dead' = [dead EXCEPT ![r] = @ \cup {w}]
  /\ UNCHANGED <<past, known>>

\* Everything a replica accepts in one transaction: changes and deaths, any
\* subset of them, in any order and any number of times.
Learn(r, learned, died) ==
  /\ \A w \in Row :
       /\ learned[w] \subseteq DOMAIN past
       /\ Complete(past, known[r][w] \cup learned[w])
  /\ \A w \in died : \E q \in Replica : w \in dead[q]
  /\ known' = [known EXCEPT ![r] = [w \in Row |-> @[w] \cup learned[w]]]
  /\ dead' = [dead EXCEPT ![r] = @ \cup died]
  /\ UNCHANGED past

Next ==
  \/ \E r \in Replica, w \in Row, c \in Change : Author(r, w, c)
  \/ \E r \in Replica, w \in Row : Delete(r, w)
  \/ \E r \in Replica, learned \in [Row -> SUBSET Change], died \in SUBSET Row :
       Learn(r, learned, died)

Spec == Init /\ [][Next]_vars
=============================================================================
