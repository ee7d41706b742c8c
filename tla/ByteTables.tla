----------------------------- MODULE ByteTables -----------------------------
(***************************************************************************)
(* What a Kernel stores: named tables, each a map of encoded keys to       *)
(* encoded values.  Both kernels are built from these operators.           *)
(***************************************************************************)
CONSTANTS
  Name,        (* names of storage tables *)
  Key, Value   (* encoded keys and values *)

Maps == UNION {[K -> Value] : K \in SUBSET Key}
Contents == UNION {[N -> Maps] : N \in SUBSET Name}

NoEntries == [k \in {} |-> k]
NoTables == [n \in {} |-> {}]

With(f, x, y) == [z \in DOMAIN f \cup {x} |-> IF z = x THEN y ELSE f[z]]
Without(f, x) == [z \in DOMAIN f \ {x} |-> f[z]]

EnsureTable(d, n) == IF n \in DOMAIN d THEN d ELSE With(d, n, NoEntries)
DropTable(d, n) == Without(d, n)
=============================================================================
