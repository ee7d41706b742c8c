------------------------------- MODULE MCTrees -------------------------------
(* The in-memory tree and the encoding of the keys of trees, of which a     *)
(* behaviour has one; the other stays as it begins.                         *)
EXTENDS PatchTree, KeyOrder

VARIABLE
  scope  \* "patches" or "keys"

Typed(type, data) == {[type |-> type, data |-> d] : d \in data}

\* Zeros at the end, at the beginning and before 255; the ends of the numbers.
SomeValues ==
  UNION {Typed(0, {<<>>}), Typed(1, {0, 8}), Typed(2, {<<0, 0>>, <<0, 255>>}),
         Typed(3, {0, 1}), Typed(4, {-32768, -1, 0, 256, 32767}),
         Typed(5, {<<0, 0>>, <<128, 0>>}),
         Typed(6, {<<>>, <<0>>, <<1>>, <<1, 0>>, <<0, 255>>}), Typed(8, {<<>>, <<0, 0>>})}

SomeChangeKeys ==
  [doc : {<<>>, <<0>>, <<0, 1>>, <<1>>, <<1, 0>>, <<255>>}, type : {0, 2},
   hash : {<<0, 0>>, <<0, 255>>, <<255, 0>>}]

TreesInit ==
  /\ Init
  /\ KeyInit
  /\ scope \in {"patches", "keys"}
  /\ scope # "keys" => kind = "row" /\ left = <<>>

TreesNext ==
  /\ UNCHANGED scope
  /\ \/ scope = "patches" /\ Next /\ UNCHANGED keyVars
     \/ scope = "keys" /\ KeyNext /\ UNCHANGED vars

TreesSpec ==
  TreesInit /\ [][TreesNext]_<<vars, keyVars, scope>> /\ Fairness
=============================================================================
