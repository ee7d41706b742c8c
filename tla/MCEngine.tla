------------------------------ MODULE MCEngine ------------------------------
(* What an engine stands on and does, a behaviour has one of three: the     *)
(* databases of the two kernels, with clients that contend; Automerge       *)
(* documents in a tree; and the statements of one client on a table, where  *)
(* column 2 is the usual key.                                               *)
EXTENDS Database, DocumentTree, Statements, TLC

VARIABLE scope  \* "kernels", "documents" or "statements"

\* Clients are interchangeable.
Symmetry == Permutations(Client)

Field(c, default, key) == [name |-> c, default |-> default, key |-> key]

One == Integer(1)
Literals == {One}
KeyFirst == <<Field(2, Null, TRUE), Field(3, Null, FALSE)>>
KeyLast == <<Field(3, One, FALSE), Field(2, Null, TRUE)>>
Created == {KeyFirst, KeyLast}
Added == {<<Field(1, One, FALSE)>>}
Sent == {[name |-> 1, entry |-> [default |-> Bool(TRUE), position |-> 1, key |-> FALSE]]}

EngineInit ==
  /\ DatabaseInit
  /\ DocInit
  /\ StatementsInit
  /\ scope \in {"kernels", "documents", "statements"}
  /\ scope # "kernels" => kind = "InMemory"
  /\ scope # "documents" => inner = "memory"

EngineNext ==
  /\ UNCHANGED scope
  /\ \/ scope = "kernels" /\ DatabaseNext /\ UNCHANGED <<docVars, db>>
     \/ scope = "documents" /\ DocNext /\ UNCHANGED <<databaseVars, db>>
     \/ scope = "statements" /\ StatementsNext /\ UNCHANGED <<databaseVars, docVars>>

EngineSpec == EngineInit /\ [][EngineNext]_<<databaseVars, docVars, db, scope>>

\* Statements alone.
SqlSpec == EngineInit /\ scope = "statements" /\ [][EngineNext]_<<databaseVars, docVars, db, scope>>
=============================================================================
