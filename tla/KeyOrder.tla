------------------------------- MODULE KeyOrder -------------------------------
(***************************************************************************)
(* The encodings of keys as bytes: the key of an entry of an index or of   *)
(* the catalog, which is a row, and the key of an entry of a document.  A  *)
(* table keeps its entries in the order of these bytes.                    *)
(*                                                                         *)
(* A value is its type's rank and its data: a number, or bytes (a float's  *)
(* are those of its bits).  Uuid and Number are the bytes that UUIDs and   *)
(* numbers have, 16 and 8 in the code; a hash of a change has 32.          *)
(***************************************************************************)
EXTENDS Integers, Sequences, SequencesExt

CONSTANTS
  Values,             \* values of rows
  MaxColumns,         \* the values of a row
  ChangeKeys,         \* [doc, type, hash]: keys of entries of documents
  Uuid, Number

VARIABLES
  kind,               \* "row" or "change"
  left, right         \* two keys of this kind

keyVars == <<kind, left, right>>

\* ValueType::rank.
Null == 0
Type == 1
UuidType == 2
Bool == 3
Integer == 4
Float == 5
Text == 6
Json == 7
Blob == 8

Byte == 0 .. 255

\* A number's bytes count to this power of 256.
Power[k \in Nat] == IF k = 0 THEN 1 ELSE 256 * Power[k - 1]

IsValue(v) ==
  /\ v = [type |-> v.type, data |-> v.data] /\ v.type \in 0 .. 8
  /\ CASE v.type = Null -> v.data = <<>>
       [] v.type = Type -> v.data \in 0 .. 8
       [] v.type = Bool -> v.data \in 0 .. 1
       [] v.type = Integer -> v.data \in -(Power[Number] \div 2) .. Power[Number] \div 2 - 1
       [] v.type = UuidType -> v.data \in [1 .. Uuid -> Byte]
       [] v.type = Float -> v.data \in [1 .. Number -> Byte]
       [] v.type \in {Text, Json, Blob} -> v.data \in Seq(Byte)

ASSUME WidthAssumption == Uuid \in Nat /\ Number \in Nat \ {0} /\ MaxColumns \in Nat
ASSUME ValueAssumption == \A v \in Values : IsValue(v)
ASSUME ChangeAssumption ==
  /\ ChangeKeys \subseteq [doc : Seq(Byte), type : Byte, hash : Seq(Byte)]
  /\ \A k, l \in ChangeKeys : Len(k.hash) = Len(l.hash)

Rows == UNION {[1 .. n -> Values] : n \in 0 .. MaxColumns}

-----------------------------------------------------------------------------
(* The orders of rows and of keys *)

\* Less(x, y) extended to sequences.
Lexicographic(Less(_, _), s, t) ==
  \E i \in 1 .. Len(t) :
    /\ \A j \in 1 .. i - 1 : j <= Len(s) /\ s[j] = t[j]
    /\ i > Len(s) \/ Less(s[i], t[i])

NumberLess(m, n) == m < n
BytesLess(s, t) == Lexicographic(NumberLess, s, t)

\* Value::cmp: by type, then by number or by bytes.
ValueLess(x, y) ==
  \/ x.type < y.type
  \/ /\ x.type = y.type
     /\ IF x.type \in {Type, Bool, Integer} THEN x.data < y.data
                                            ELSE BytesLess(x.data, y.data)

RowLess(r, s) == Lexicographic(ValueLess, r, s)

ChangeLess(k, l) ==
  \/ BytesLess(k.doc, l.doc)
  \/ k.doc = l.doc /\ (k.type < l.type \/ (k.type = l.type /\ BytesLess(k.hash, l.hash)))

-----------------------------------------------------------------------------
(* Encoding *)

\* Fault: a zero is written as it is.
EscapedPlain(bytes) == bytes \o <<0, 0>>

\* A zero is followed by 255, and the end is two zeros.
Escaped(bytes) ==
  FlattenSeq([i \in DOMAIN bytes |-> IF bytes[i] = 0 THEN <<0, 255>> ELSE <<bytes[i]>>])
  \o <<0, 0>>

\* The sign bit is flipped, and the bytes are written from the highest.
BigEndian(i) ==
  LET u == (i + Power[Number] \div 2) % Power[Number]
  IN  [b \in 1 .. Number |-> (u \div Power[Number - b]) % 256]

EncodeValueOrder(v) ==
  <<v.type + 1>> \o
  CASE v.type = Null -> <<>>
    [] v.type \in {Type, Bool} -> <<v.data + 1>>
    [] v.type \in {UuidType, Float} -> v.data
    [] v.type = Integer -> BigEndian(v.data)
    [] v.type \in {Text, Json, Blob} -> Escaped(v.data)

\* The part that sorts; the serialized row follows it.
EncodeKey(row) == FlattenSeq([i \in DOMAIN row |-> EncodeValueOrder(row[i])]) \o <<0, 0>>

EncodeOrdered(key) == Escaped(key.doc) \o <<key.type>> \o key.hash

-----------------------------------------------------------------------------
(* Decoding *)

At(bytes, i, two) == i < Len(bytes) /\ bytes[i] = two[1] /\ bytes[i + 1] = two[2]

\* The index behind escaped bytes that begin at i.
SkipEscaped(bytes, i) ==
  LET skip[j \in Nat \ {0}] ==
        CASE j > Len(bytes) -> j
          [] At(bytes, j, <<0, 0>>) -> j + 2
          [] At(bytes, j, <<0, 255>>) -> skip[j + 2]
          [] OTHER -> skip[j + 1]
  IN  skip[i]

\* The index behind the value that begins at i: behind the end for an invalid type.
SkipValue(bytes, i) ==
  CASE bytes[i] = Null + 1 -> i + 1
    [] bytes[i] \in {Type + 1, Bool + 1} -> i + 2
    [] bytes[i] = UuidType + 1 -> i + 1 + Uuid
    [] bytes[i] \in {Integer + 1, Float + 1} -> i + 1 + Number
    [] bytes[i] \in {Text + 1, Json + 1, Blob + 1} -> SkipEscaped(bytes, i + 1)
    [] OTHER -> Len(bytes) + 1

\* Where decode_key finds the serialized row: 0 for an invalid key.
RowFrom(bytes, i) ==
  LET from[j \in Nat \ {0}] ==
        IF j > Len(bytes) THEN 0
        ELSE IF At(bytes, j, <<0, 0>>) THEN j + 2
        ELSE from[SkipValue(bytes, j)]
  IN  from[i]

DecodesKey(row) == RowFrom(EncodeKey(row), 1) = Len(EncodeKey(row)) + 1

\* decode_ordered: the document's id, then the type, and the rest is the hash.
Unescaped(bytes, i) ==
  LET rest[j \in Nat \ {0}] ==
        CASE j >= Len(bytes) \/ At(bytes, j, <<0, 0>>) -> <<>>
          [] At(bytes, j, <<0, 255>>) -> <<0>> \o rest[j + 2]
          [] OTHER -> <<bytes[j]>> \o rest[j + 1]
  IN  rest[i]

DecodeOrdered(bytes) ==
  LET i == SkipEscaped(bytes, 1)
  IN  [doc |-> Unescaped(bytes, 1), type |-> bytes[i],
       hash |-> SubSeq(bytes, i + 1, Len(bytes))]

-----------------------------------------------------------------------------
(* Pairs of keys *)

KeyInit ==
  \/ kind = "row" /\ left \in Rows /\ right = <<>>
  \/ kind = "change" /\ left \in ChangeKeys /\ right = left

NextRow ==
  /\ kind = "row"
  /\ IF Len(right) < MaxColumns THEN \E v \in Values : right' = Append(right, v)
                                ELSE right' = <<>>
  /\ UNCHANGED <<kind, left>>

NextChange ==
  /\ kind = "change"
  /\ right' \in ChangeKeys
  /\ UNCHANGED <<kind, left>>

KeyNext == NextRow \/ NextChange

KeySpec == KeyInit /\ [][KeyNext]_keyVars

\* s differs from t and is less where it first does.
Sorts(s, t) ==
  \E i \in 1 .. Len(s) : i <= Len(t) /\ s[i] < t[i] /\ \A j \in 1 .. i - 1 : s[j] = t[j]

\* The bytes of two keys sort as the keys do, at a byte both have, and a key is
\* found again in its bytes, whatever zeros it has (row_table.rs encode_key and
\* decode_key, DocumentChangeKey encode_ordered and decode_ordered).
KeysSort ==
  IF kind = "row"
  THEN /\ RowLess(left, right) => Sorts(EncodeKey(left), EncodeKey(right))
       /\ RowLess(right, left) => Sorts(EncodeKey(right), EncodeKey(left))
       /\ left # right => RowLess(left, right) \/ RowLess(right, left)
       /\ DecodesKey(left)
  ELSE /\ ChangeLess(left, right) => Sorts(EncodeOrdered(left), EncodeOrdered(right))
       /\ DecodeOrdered(EncodeOrdered(left)) = left
=============================================================================
