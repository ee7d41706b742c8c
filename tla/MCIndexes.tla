----------------------------- MODULE MCIndexes ------------------------------
(* IndexRecords in three scopes, of which a behaviour has one: many rows and *)
(* indexes of up to two columns; two tables and two values; and, in a        *)
(* database of its own, the catalog entries of peers.                        *)
EXTENDS IndexRecords

VARIABLES
  scope,    \* "rows", "tables" or "imports"
  imported  \* the database of the third scope

CONSTANTS t1, t2, a, b

OneColumn == {<<a>>}
OneOrTwoColumns == {<<a>>, <<a, b>>}

\* Both act on db: what they do is a step of IndexRecords with its own constants.
Rows == INSTANCE IndexRecords WITH Table <- {t1}, Value <- {1}

Tables ==
  INSTANCE IndexRecords WITH
    Row <- {1, 2}, Column <- {a}, Definitions <- OneColumn

Imports ==
  INSTANCE IndexRecords WITH
    db <- imported, Table <- {t1}, Row <- {1}, Column <- {a},
    Definitions <- OneColumn, PeerCatalogs <- TRUE

ASSUME InstanceAssumption == Constants /\ Rows!Constants /\ Tables!Constants /\ Imports!Constants

IndexesInit ==
  /\ scope \in {"rows", "tables", "imports"}
  /\ Init
  /\ Imports!Init

IndexesNext ==
  /\ UNCHANGED scope
  /\ \/ scope = "rows" /\ Rows!Next /\ UNCHANGED imported
     \/ scope = "tables" /\ Tables!Next /\ UNCHANGED imported
     \/ scope = "imports" /\ Imports!Next /\ UNCHANGED db

IndexesSpec == IndexesInit /\ [][IndexesNext]_<<db, imported, scope>>

-----------------------------------------------------------------------------

\* StatementsRepair of IndexRecords, where peers send catalog entries.
ImportsRepaired == [][scope = "imports" => Imports!Repair]_imported
=============================================================================
