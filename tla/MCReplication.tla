---------------------------- MODULE MCReplication ---------------------------
(* Small instances of Replication for TLC.                                 *)
EXTENDS Replication, TLC

\* Hashes are compared for nothing in this module, and no replica, row or
\* column is special.
Symmetry == Permutations(Change) \cup Permutations(Replica) \cup Permutations(Row) \cup Permutations(Column)
=============================================================================
