---------------------------- MODULE Trees_proofs ----------------------------
(***************************************************************************)
(* Proofs about the in-memory B-tree, for any tasks, keys and values, and   *)
(* about the encodings of keys, for any rows and keys of documents.         *)
(***************************************************************************)
EXTENDS PatchTree, KeyOrder, FiniteSetTheorems, SequenceTheorems, WellFoundedInduction, TLAPS

\* The invariant that is inductive: a key a transaction found and removed is
\* marked in its patch, where no commit of another can reach it.
Inv ==
  /\ TypeOK
  /\ \A c \in Task : \A k \in gone[c] : k \in DOMAIN patch[c] /\ patch[c][k] = Deleted

-----------------------------------------------------------------------------
(* Maps and patches *)

\* A map with no entry is a map (BTreeMap::new).
LEMMA EmptyOK == ASSUME NEW V PROVE Empty \in Maps(V)
<1>1. Empty \in [{} -> V]
  BY DEF Empty
<1> QED BY <1>1 DEF Maps

\* Inserting in a map or a patch leaves one.
LEMMA WithOK ==
  ASSUME NEW V, NEW f \in Maps(V), NEW k \in Key, NEW v \in V
  PROVE  /\ With(f, k, v) \in Maps(V)
         /\ DOMAIN With(f, k, v) = DOMAIN f \cup {k}
         /\ \A j \in DOMAIN f : j # k => With(f, k, v)[j] = f[j]
         /\ With(f, k, v)[k] = v
<1>1. PICK K \in SUBSET Key : f \in [K -> V]
  BY DEF Maps
<1>2. With(f, k, v) \in [K \cup {k} -> V]
  BY <1>1 DEF With
<1>3. With(f, k, v) \in Maps(V)
  BY <1>2 DEF Maps
<1> QED BY <1>1, <1>2, <1>3 DEF With

\* Removing leaves a patch, and marks the key if it was there to be removed;
\* marks that were there stay.
LEMMA PatchRemoveOK ==
  ASSUME NEW b, NEW p \in Maps(Value \cup {Deleted}), NEW k \in Key
  PROVE  LET q == PatchRemove(b, p, k)
         IN  /\ q \in Maps(Value \cup {Deleted})
             /\ Has(b, p, k) => k \in DOMAIN q /\ q[k] = Deleted
             /\ \A j \in DOMAIN p : p[j] = Deleted => j \in DOMAIN q /\ q[j] = Deleted
<1>1. CASE Has(b, p, k)
  <2>1. PatchRemove(b, p, k) = With(p, k, Deleted)
    BY <1>1 DEF PatchRemove
  <2>2. /\ With(p, k, Deleted) \in Maps(Value \cup {Deleted})
        /\ DOMAIN With(p, k, Deleted) = DOMAIN p \cup {k}
        /\ \A j \in DOMAIN p : j # k => With(p, k, Deleted)[j] = p[j]
        /\ With(p, k, Deleted)[k] = Deleted
    BY WithOK
  <2> QED BY <2>1, <2>2
<1>2. CASE ~Has(b, p, k)
  BY <1>2 DEF PatchRemove
<1> QED BY <1>1, <1>2

\* A commit leaves a map of values: the marks are gone with the keys they mark.
LEMMA CommittedOK ==
  ASSUME NEW b \in Maps(Value), NEW p \in Maps(Value \cup {Deleted})
  PROVE  /\ Committed(b, p) \in Maps(Value)
         /\ \A k \in DOMAIN p : p[k] = Deleted => k \notin DOMAIN Committed(b, p)
<1>1. PICK B \in SUBSET Key : b \in [B -> Value]
  BY DEF Maps
<1>2. PICK P \in SUBSET Key : p \in [P -> Value \cup {Deleted}]
  BY DEF Maps
<1> DEFINE K == (B \cup P) \ {k \in P : p[k] = Deleted}
<1>3. Committed(b, p) = [k \in K |-> IF k \in P THEN p[k] ELSE b[k]]
  BY <1>1, <1>2 DEF Committed
<1>4. \A k \in K : (IF k \in P THEN p[k] ELSE b[k]) \in Value
  BY <1>1, <1>2
<1>5. Committed(b, p) \in [K -> Value]
  BY <1>3, <1>4
<1>6. K \in SUBSET Key
  OBVIOUS
<1>7. Committed(b, p) \in Maps(Value)
  BY <1>5, <1>6 DEF Maps
<1> QED BY <1>2, <1>3, <1>7

\* A range is the part of what get sees that lies in it.
LEMMA RangeIsGet ==
  ASSUME NEW b, NEW p, NEW R
  PROVE  /\ DOMAIN ReadRange(b, p, R) = {k \in R : Has(b, p, k)}
         /\ \A k \in DOMAIN ReadRange(b, p, R) : ReadRange(b, p, R)[k] = Get(b, p, k)
BY DEF ReadRange, Has, Get

\* A range has keys of the range only.
LEMMA RangeKeys ==
  ASSUME NEW b, NEW p, NEW R \in SUBSET Key
  PROVE  DOMAIN ReadRange(b, p, R) \subseteq Key
BY DEF ReadRange

\* A commit leaves what a range over all keys reads.
LEMMA CommittedIsRange ==
  ASSUME NEW b \in Maps(Value), NEW p \in Maps(Value \cup {Deleted})
  PROVE  Committed(b, p) = ReadRange(b, p, Key)
<1>1. PICK B \in SUBSET Key : b \in [B -> Value]
  BY DEF Maps
<1>2. PICK P \in SUBSET Key : p \in [P -> Value \cup {Deleted}]
  BY DEF Maps
<1> DEFINE K == (B \cup P) \ {k \in P : p[k] = Deleted}
<1>3. Committed(b, p) = [k \in K |-> IF k \in P THEN p[k] ELSE b[k]]
  BY <1>1, <1>2 DEF Committed
<1> DEFINE I == {k \in B \cap Key : ~(k \in P /\ p[k] = Deleted)}
           Q == {k \in P \cap Key : p[k] # Deleted}
<1>4. ReadRange(b, p, Key) = [k \in I \cup Q |-> IF k \in Q THEN p[k] ELSE b[k]]
  BY <1>1, <1>2 DEF ReadRange
<1>5. K = I \cup Q
  BY <1>1, <1>2
<1>6. \A k \in K : (k \in P) = (k \in Q)
  BY <1>1, <1>2
<1> HIDE DEF K, I, Q
<1> QED BY <1>3, <1>4, <1>5, <1>6

-----------------------------------------------------------------------------
(* Invariance *)

\* A new tree, before any transaction.
LEMMA InitInv == Init => Inv
BY EmptyOK DEF Init, Inv, TypeOK

\* A write of a transaction preserves the invariant.
LEMMA PutInv ==
  ASSUME Inv, NEW c \in Task, NEW k \in Key, NEW v \in Value, Put(c, k, v)
  PROVE  Inv'
<1> USE DEF Inv, TypeOK
<1> DEFINE p == With(patch[c], k, v)
<1>1. /\ patch' = [patch EXCEPT ![c] = p]
      /\ gone' = [gone EXCEPT ![c] = gone[c] \ {k}]
      /\ UNCHANGED <<base, open, removing, reading, committing, writer>>
  BY DEF Put, locks
<1>2. /\ p \in Maps(Value \cup {Deleted})
      /\ DOMAIN p = DOMAIN patch[c] \cup {k}
      /\ \A j \in DOMAIN patch[c] : j # k => p[j] = patch[c][j]
  <2> DEFINE f == patch[c]
             V == Value \cup {Deleted}
  <2>1. f \in Maps(V) /\ v \in V
    OBVIOUS
  <2> HIDE DEF f, V, Inv, TypeOK
  <2>2. /\ With(f, k, v) \in Maps(V)
        /\ DOMAIN With(f, k, v) = DOMAIN f \cup {k}
        /\ \A j \in DOMAIN f : j # k => With(f, k, v)[j] = f[j]
    BY <2>1, WithOK
  <2> QED BY <2>2 DEF f, V
<1> HIDE DEF p
<1>3. \A j \in gone[c] \ {k} : j \in DOMAIN p /\ p[j] = Deleted
  BY <1>2
<1>4. TypeOK'
  BY <1>1, <1>2
<1>5. \A d \in Task : \A j \in gone'[d] : j \in DOMAIN patch'[d] /\ patch'[d][j] = Deleted
  <2> TAKE d \in Task
  <2>1. CASE d = c
    BY <2>1, <1>1, <1>3
  <2>2. CASE d # c
    BY <2>2, <1>1
  <2> QED BY <2>1, <2>2
<1> QED BY <1>4, <1>5

\* The removal of a key preserves it.
LEMMA DropInv ==
  ASSUME Inv, NEW c \in Task, NEW k \in Key, Drop(c, k),
         removing' \in [Task -> SUBSET Key],
         UNCHANGED <<base, open, reading, committing, writer>>
  PROVE  Inv'
<1> USE DEF Inv, TypeOK
<1> DEFINE p == PatchRemove(base, patch[c], k)
           g == IF Has(base, patch[c], k) THEN gone[c] \cup {k} ELSE gone[c]
<1>1. /\ patch' = [patch EXCEPT ![c] = p]
      /\ gone' = [gone EXCEPT ![c] = g]
  BY DEF Drop
<1>2. /\ p \in Maps(Value \cup {Deleted})
      /\ g \in SUBSET Key
      /\ \A j \in g : j \in DOMAIN p /\ p[j] = Deleted
  <2>1. patch[c] \in Maps(Value \cup {Deleted}) /\ gone[c] \subseteq Key
    OBVIOUS
  <2>2. /\ p \in Maps(Value \cup {Deleted})
        /\ Has(base, patch[c], k) => k \in DOMAIN p /\ p[k] = Deleted
        /\ \A j \in DOMAIN patch[c] : patch[c][j] = Deleted => j \in DOMAIN p /\ p[j] = Deleted
    BY <2>1, PatchRemoveOK
  <2> HIDE DEF p
  <2>3. \A j \in gone[c] : j \in DOMAIN p /\ p[j] = Deleted
    BY <2>2
  <2> QED BY <2>1, <2>2, <2>3
<1> HIDE DEF p, g
<1>3. TypeOK'
  BY <1>1, <1>2
<1>4. \A d \in Task : \A j \in gone'[d] : j \in DOMAIN patch'[d] /\ patch'[d][j] = Deleted
  <2> TAKE d \in Task
  <2>1. CASE d = c
    BY <2>1, <1>1, <1>2
  <2>2. CASE d # c
    BY <2>2, <1>1
  <2> QED BY <2>1, <2>2
<1> QED BY <1>3, <1>4

\* Every step of a task preserves the invariant.
LEMMA NextInv == Inv /\ [Next]_vars => Inv'
<1> SUFFICES ASSUME Inv, [Next]_vars
             PROVE  Inv'
  OBVIOUS
<1> USE DEF Inv, TypeOK, Free, locks
<1>1. ASSUME NEW c \in Task, Begin(c)
      PROVE  Inv'
  BY <1>1, EmptyOK DEF Begin
<1>2. ASSUME NEW c \in Task, NEW k \in Key, NEW v \in Value,
             Insert(c, k, v) \/ Update(c, k, v)
      PROVE  Inv'
  BY <1>2, PutInv DEF Insert, Update
<1>3. ASSUME NEW c \in Task, NEW k \in Key, RemoveKey(c, k)
      PROVE  Inv'
  BY <1>3, DropInv DEF RemoveKey
<1>4. ASSUME NEW c \in Task, NEW m \in Key, NEW n \in Key,
             RemoveRange(c, {k \in Key : m <= k /\ k <= n})
      PROVE  Inv'
  <2> DEFINE R == {k \in Key : m <= k /\ k <= n}
  <2>1. DOMAIN ReadRange(base, patch[c], R) \subseteq Key
    <3>1. R \subseteq Key
      OBVIOUS
    <3> HIDE DEF R
    <3> QED BY <3>1, RangeKeys
  <2>2. removing' = [removing EXCEPT ![c] = DOMAIN ReadRange(base, patch[c], R)]
    BY <1>4 DEF RemoveRange
  <2>3. removing' \in [Task -> SUBSET Key]
    BY <2>1, <2>2
  <2> QED BY <1>4, <2>3 DEF RemoveRange
<1>5. ASSUME NEW c \in Task, RemoveNext(c)
      PROVE  Inv'
  <2>1. PICK k \in removing[c] :
          /\ Drop(c, k)
          /\ removing' = [removing EXCEPT ![c] = @ \ {k}]
          /\ UNCHANGED <<base, open, reading, committing, writer>>
    BY <1>5 DEF RemoveNext
  <2>2. k \in Key /\ removing' \in [Task -> SUBSET Key]
    BY <2>1
  <2> QED BY <2>1, <2>2, DropInv
<1>6. ASSUME NEW c \in Task,
             RemoveStop(c) \/ AskCommit(c) \/ Lock(c) \/ OpenStream(c) \/ EndStream(c)
      PROVE  Inv'
  BY <1>6 DEF RemoveStop, AskCommit, Lock, OpenStream, EndStream
<1>7. ASSUME NEW c \in Task, Rollback(c)
      PROVE  Inv'
  BY <1>7 DEF Rollback
<1>8. ASSUME NEW c \in Task, Commit(c)
      PROVE  Inv'
  <2>1. Committed(base, patch[c]) \in Maps(Value)
    BY CommittedOK
  <2> QED BY <1>8, <2>1 DEF Commit
<1>9. CASE UNCHANGED vars
  BY <1>9 DEF vars
<1> QED BY <1>1, <1>2, <1>3, <1>4, <1>5, <1>6, <1>7, <1>8, <1>9 DEF Next, Step

\* The inductive invariant holds of every reachable state of the tree.
THEOREM Invariance == Spec => []Inv
BY InitInv, NextInv, PTL DEF Spec

\* Type correctness: the tree never holds the mark of a removed key.
THEOREM TypeCorrect == Spec => []TypeOK
<1>1. Inv => TypeOK
  BY DEF Inv
<1> QED BY Invariance, <1>1, PTL

\* What a transaction found and removed is not there after its commit, whatever
\* other transactions committed since.
THEOREM RemovalsStay == Spec => []RemovalsHold
<1>1. Inv => RemovalsHold
  BY CommittedOK DEF Inv, TypeOK, RemovalsHold
<1> QED BY Invariance, <1>1, PTL

\* Reading a key and reading a range agree.
THEOREM ReadsAgree == Spec => []GetIsRange
<1>1. GetIsRange
  BY RangeIsGet DEF GetIsRange
<1> QED BY <1>1, PTL

\* A commit leaves what its transaction read.
THEOREM CommitsWhatWasRead == Spec => CommitMakesView
<1>1. Inv /\ [Next]_vars =>
        [\A c \in Task : c \in committing /\ c \notin committing' => base' = View(c)]_vars
  <2> SUFFICES ASSUME Inv, Next, NEW c \in Task, c \in committing, c \notin committing'
               PROVE  base' = View(c)
    OBVIOUS
  <2>1. PICK d \in Task : Step(d)
    BY DEF Next
  <2>2. Commit(d)
    BY <2>1 DEF Step, Begin, Rollback, AskCommit, Insert, Update, Put, RemoveKey, Drop,
                RemoveRange, RemoveNext, RemoveStop, Lock, OpenStream, EndStream, locks
  <2>3. d = c
    BY <2>2 DEF Commit
  <2> QED BY <2>2, <2>3, CommittedIsRange DEF Commit, View, Inv, TypeOK
<1> QED BY <1>1, Invariance, PTL DEF Spec, CommitMakesView

-----------------------------------------------------------------------------
(* Numbers *)

\* A number in a set is followed by a least one.
LEMMA LeastNumber ==
  ASSUME NEW T \in SUBSET Nat, NEW n \in T
  PROVE  \E m \in T : \A k \in T : m <= k
<1> DEFINE Low == {m \in T : m <= n}
           Below(m) == {k \in T : k <= m}
           Family == {Below(m) : m \in Low}
<1>1. IsFiniteSet(0 .. n)
  BY FS_Interval
<1>2. IsWellFoundedOn(StrictSubsetOrdering(0 .. n), FiniteSubsetsOf(0 .. n))
  BY <1>1, FS_StrictSubsetOrderingWellFounded
<1>3. Family \subseteq FiniteSubsetsOf(0 .. n) /\ Family # {}
  <2>1. ASSUME NEW m \in Low
        PROVE  Below(m) \subseteq 0 .. n /\ IsFiniteSet(Below(m))
    <3>1. Below(m) \subseteq 0 .. n
      <4>1. n \in Nat /\ m \in Nat /\ m <= n
        BY <2>1
      <4>2. ASSUME NEW k \in T, k <= m
            PROVE  k \in 0 .. n
        <5>1. k \in Nat
          OBVIOUS
        <5> QED BY <4>1, <4>2, <5>1
      <4> QED BY <4>2
    <3> HIDE DEF Below
    <3> QED BY <1>1, <3>1, FS_Subset
  <2>2. n \in Low
    <3>1. n \in Nat
      OBVIOUS
    <3> QED BY <3>1
  <2> HIDE DEF Below, Low
  <2> QED BY <2>1, <2>2 DEF FiniteSubsetsOf
<1>4. PICK X \in Family : \A Y \in Family : <<Y, X>> \notin StrictSubsetOrdering(0 .. n)
  <2> HIDE DEF Family
  <2> QED BY <1>2, <1>3, WFMin
<1>5. PICK m \in Low : X = Below(m)
  BY <1>4
<1>6. ASSUME NEW k \in T, ~(m <= k)
      PROVE  FALSE
  <2>0. k \in Nat /\ m \in Nat /\ n \in Nat /\ m <= n /\ m \in T
    OBVIOUS
  <2>1. /\ k \in Low /\ m \in Below(m) /\ m \notin Below(k)
        /\ Below(k) \subseteq Below(m)
    <3>1. k \in Low /\ m \in Below(m) /\ m \notin Below(k)
      BY <1>6, <2>0
    <3>2. ASSUME NEW j \in Below(k)
          PROVE  j \in Below(m)
      <4>1. j \in Nat /\ j \in T /\ j <= k
        OBVIOUS
      <4> QED BY <1>6, <2>0, <4>1
    <3> QED BY <3>1, <3>2
  <2>2. Below(k) \in Family
    BY <2>1
  <2>3. Below(k) \subseteq 0 .. n /\ Below(m) \subseteq 0 .. n
    <3>1. Family \subseteq SUBSET (0 .. n)
      BY <1>3 DEF FiniteSubsetsOf
    <3>2. Below(m) \in Family
      BY <1>5
    <3> HIDE DEF Below, Family
    <3> QED BY <2>2, <3>1, <3>2
  <2> HIDE DEF Below, Low, Family
  <2> QED BY <1>4, <1>5, <2>1, <2>2, <2>3 DEF StrictSubsetOrdering
<1> QED BY <1>6

\* Induction, of sets of numbers: the least number that is not in the set has one
\* before it.
LEMMA Induction ==
  ASSUME NEW T, 0 \in T, \A n \in Nat : n \in T => n + 1 \in T
  PROVE  Nat \subseteq T
<1> SUFFICES ASSUME NEW n \in Nat, n \notin T
             PROVE  FALSE
  OBVIOUS
<1>1. PICK m \in Nat \ T : \A k \in Nat \ T : m <= k
  <2>1. Nat \ T \in SUBSET Nat /\ n \in Nat \ T
    OBVIOUS
  <2> QED BY <2>1, LeastNumber
<1>2. m - 1 \in Nat /\ m - 1 \in T
  BY <1>1
<1> QED BY <1>1, <1>2

-----------------------------------------------------------------------------
(* Sequences of bytes one after another *)

Bytes == Seq(Byte)

\* u[k] is what the first k of p make, all of them what FlattenSeq makes.
Partials(p, u) ==
  /\ u \in [0 .. Len(p) -> Bytes]
  /\ u[0] = <<>>
  /\ \A k \in 1 .. Len(p) : u[k] = u[k - 1] \o p[k]

\* There are such partial results.
LEMMA PartialsExist ==
  ASSUME NEW p \in Seq(Bytes)
  PROVE  \E u : Partials(p, u)
<1> DEFINE To(m, u) == /\ u \in [0 .. m -> Bytes]
                       /\ u[0] = <<>>
                       /\ \A k \in 1 .. m : u[k] = u[k - 1] \o p[k]
           T == {m \in Nat : m <= Len(p) => \E u : To(m, u)}
<1>1. 0 \in T
  <2>1. To(0, [k \in 0 .. 0 |-> <<>>])
    BY DEF Bytes
  <2> QED BY <2>1
<1>2. ASSUME NEW m \in Nat, m \in T
      PROVE  m + 1 \in T
  <2>0. Len(p) \in Nat
    OBVIOUS
  <2>1. CASE m + 1 <= Len(p)
    <3>0. m <= Len(p)
      BY <2>0, <2>1
    <3>1. PICK u : To(m, u)
      <4> HIDE DEF To
      <4> QED BY <1>2, <3>0
    <3> DEFINE v == [k \in 0 .. m + 1 |-> IF k = m + 1 THEN u[m] \o p[m + 1] ELSE u[k]]
    <3>2. u[m] \o p[m + 1] \in Bytes
      <4>1. p[m + 1] \in Bytes /\ u[m] \in Bytes
        BY <2>1, <3>1
      <4> QED BY <4>1 DEF Bytes
    <3>3. v \in [0 .. m + 1 -> Bytes]
      BY <3>1, <3>2
    <3>4. v[0] = <<>>
      BY <3>1
    <3>5. ASSUME NEW k \in 1 .. m + 1
          PROVE  v[k] = v[k - 1] \o p[k]
      <4>1. k - 1 \in 0 .. m /\ v[k - 1] = u[k - 1]
        OBVIOUS
      <4>2. CASE k = m + 1
        <5>1. v[k] = u[m] \o p[m + 1] /\ k - 1 = m
          BY <4>2
        <5> QED BY <4>1, <4>2, <5>1
      <4>3. CASE k # m + 1
        <5>1. k \in 1 .. m /\ v[k] = u[k]
          BY <4>3
        <5>2. u[k] = u[k - 1] \o p[k]
          BY <3>1, <5>1
        <5> QED BY <4>1, <5>1, <5>2
      <4> QED BY <4>2, <4>3
    <3> HIDE DEF v
    <3>6. To(m + 1, v)
      BY <3>3, <3>4, <3>5
    <3> HIDE DEF To
    <3> QED BY <3>6
  <2>2. CASE ~(m + 1 <= Len(p))
    <3> HIDE DEF To
    <3> QED BY <2>2
  <2> QED BY <2>1, <2>2
<1>3. Len(p) \in Nat
  OBVIOUS
<1>4. \E u : To(Len(p), u)
  <2> HIDE DEF To
  <2>1. Nat \subseteq T
    <3> HIDE DEF T
    <3> QED BY <1>1, <1>2, Induction
  <2> QED BY <1>3, <2>1
<1> QED BY <1>4 DEF Partials

\* The last of them is what FlattenSeq makes.
LEMMA FlattenIs ==
  ASSUME NEW p \in Seq(Bytes), NEW u, Partials(p, u)
  PROVE  FlattenSeq(p) = u[Len(p)]
<1> DEFINE n == Len(p)
           Is(f) == f = [i \in 1 .. n |-> IF i = 1 THEN p[i] ELSE f[i - 1] \o p[i]]
<1>1. CASE n = 0
  <2>1. p = <<>>
    BY <1>1
  <2> QED BY <1>1, <2>1 DEF FlattenSeq, Partials
<1>2. CASE n # 0
  <2> DEFINE g == CHOOSE f : Is(f)
             h == [i \in 1 .. n |-> u[i]]
  <2>0. n \in Nat /\ \A i \in 1 .. n : p[i] \in Bytes
    OBVIOUS
  <2>1. u[1] = p[1]
    <3>1. u[1] = <<>> \o p[1] /\ p[1] \in Bytes
      BY <1>2, <2>0 DEF Partials
    <3> HIDE DEF n
    <3> QED BY <3>1, ConcatEmptySeq DEF Bytes
  <2>2. Is(h)
    <3>1. ASSUME NEW i \in 1 .. n
          PROVE  h[i] = IF i = 1 THEN p[i] ELSE h[i - 1] \o p[i]
      <4>1. CASE i = 1
        BY <2>1, <4>1
      <4>2. CASE i # 1
        <5>1. i - 1 \in 1 .. n /\ u[i] = u[i - 1] \o p[i]
          BY <2>0, <4>2 DEF Partials
        <5> QED BY <4>2, <5>1
      <4> QED BY <4>1, <4>2
    <3> QED BY <3>1
  <2>3. Is(g)
    <3> HIDE DEF Is, h
    <3> QED BY <2>2
  <2>4. FlattenSeq(p) = g[n]
    BY <1>2 DEF FlattenSeq
  <2> HIDE DEF g
  <2> DEFINE T == {m \in Nat : m + 1 <= n => g[m + 1] = u[m + 1]}
  <2>5. 0 \in T
    BY <1>2, <2>0, <2>1, <2>3
  <2>6. ASSUME NEW m \in Nat, m \in T
        PROVE  m + 1 \in T
    <3>1. CASE m + 2 <= n
      <4>1. g[m + 1] = u[m + 1]
        BY <2>0, <2>6, <3>1
      <4>2. m + 2 \in 1 .. n /\ m + 2 # 1 /\ (m + 2) - 1 = m + 1
        BY <2>0, <3>1
      <4>3. g[m + 2] = g[(m + 2) - 1] \o p[m + 2]
        BY <2>3, <4>2
      <4>4. u[m + 2] = u[(m + 2) - 1] \o p[m + 2]
        BY <4>2 DEF Partials
      <4>5. g[m + 2] = u[m + 2]
        BY <4>1, <4>2, <4>3, <4>4
      <4> QED BY <4>5
    <3>2. CASE ~(m + 2 <= n)
      BY <2>0, <3>2
    <3> QED BY <3>1, <3>2
  <2>7. Nat \subseteq T
    <3> HIDE DEF T
    <3> QED BY <2>5, <2>6, Induction
  <2>8. n - 1 \in Nat /\ (n - 1) + 1 = n
    BY <1>2, <2>0
  <2>9. n - 1 \in T
    BY <2>7, <2>8
  <2>10. g[n] = u[n]
    <3> HIDE DEF n
    <3>1. g[(n - 1) + 1] = u[(n - 1) + 1]
      BY <2>0, <2>8, <2>9
    <3> QED BY <2>8, <3>1
  <2> HIDE DEF n
  <2>11. FlattenSeq(p) = u[n]
    BY <2>4, <2>10
  <2> QED BY <2>11 DEF n
<1> QED BY <1>1, <1>2

\* Bytes one after another: how many, and which.
LEMMA BytesAre ==
  /\ <<>> \in Bytes /\ Len(<<>>) = 0
  /\ \A s \in Bytes : /\ Len(s) \in Nat /\ (Len(s) = 0 => s = <<>>)
                      /\ \A i \in 1 .. Len(s) : s[i] \in Byte
                      /\ s \o <<>> = s /\ <<>> \o s = s
<1>1. ASSUME NEW s \in Bytes
      PROVE  /\ Len(s) \in Nat /\ (Len(s) = 0 => s = <<>>)
             /\ \A i \in 1 .. Len(s) : s[i] \in Byte
             /\ s \o <<>> = s /\ <<>> \o s = s
  <2>1. Len(s) \in Nat /\ s \in [1 .. Len(s) -> Byte]
    BY LenProperties DEF Bytes
  <2>2. Len(s) = 0 => s = <<>>
    BY <2>1, EmptySeq DEF Bytes
  <2>3. s \o <<>> = s /\ <<>> \o s = s
    BY ConcatEmptySeq DEF Bytes
  <2> QED BY <2>1, <2>2, <2>3
<1>2. <<>> \in Bytes /\ Len(<<>>) = 0
  BY EmptySeq DEF Bytes
<1> QED BY <1>1, <1>2

\* Bytes behind others keep their order, behind as many as the others are.
LEMMA Concatenated ==
  ASSUME NEW s \in Bytes, NEW t \in Bytes
  PROVE  /\ s \o t \in Bytes
         /\ Len(s \o t) = Len(s) + Len(t)
         /\ \A i \in 1 .. Len(s) : (s \o t)[i] = s[i]
         /\ \A i \in 1 .. Len(t) : (s \o t)[Len(s) + i] = t[i]
<1>1. /\ s \o t \in Bytes
      /\ Len(s \o t) = Len(s) + Len(t)
      /\ \A i \in 1 .. Len(s) + Len(t) :
           (s \o t)[i] = IF i <= Len(s) THEN s[i] ELSE t[i - Len(s)]
  BY ConcatProperties DEF Bytes
<1>2. Len(s) \in Nat /\ Len(t) \in Nat
  BY BytesAre
<1>3. ASSUME NEW i \in 1 .. Len(s)
      PROVE  (s \o t)[i] = s[i]
  BY <1>1, <1>2
<1>4. ASSUME NEW i \in 1 .. Len(t)
      PROVE  (s \o t)[Len(s) + i] = t[i]
  <2>1. Len(s) + i \in 1 .. Len(s) + Len(t) /\ ~(Len(s) + i <= Len(s))
    BY <1>2
  <2>2. (Len(s) + i) - Len(s) = i
    BY <1>2
  <2> QED BY <1>1, <2>1, <2>2
<1> QED BY <1>1, <1>3, <1>4

\* The two ways to put three together are the same.
Regroup(s, t, x) == (s \o t) \o x = s \o (t \o x)

\* In which order bytes are put together makes no difference.
LEMMA Associative ==
  ASSUME NEW s \in Bytes, NEW t \in Bytes, NEW x \in Bytes
  PROVE  Regroup(s, t, x)
<1> QED BY ConcatAssociative DEF Bytes, Regroup

\* One byte, and two.
LEMMA FewBytes ==
  ASSUME NEW a \in Byte, NEW b \in Byte
  PROVE  /\ <<a>> \in Bytes /\ Len(<<a>>) = 1 /\ <<a>>[1] = a
         /\ <<a, b>> \in Bytes /\ Len(<<a, b>>) = 2 /\ <<a, b>>[1] = a /\ <<a, b>>[2] = b
<1> QED BY DEF Bytes

\* The two bytes of an end and of a zero.
LEMMA PairsOfBytes ==
  /\ <<0, 0>> \in Bytes /\ Len(<<0, 0>>) = 2 /\ <<0, 0>>[1] = 0 /\ <<0, 0>>[2] = 0
  /\ <<0, 255>> \in Bytes /\ Len(<<0, 255>>) = 2 /\ <<0, 255>>[1] = 0 /\ <<0, 255>>[2] = 255
<1>1. 0 \in Byte /\ 255 \in Byte
  BY DEF Byte
<1>2. <<0, 0>> \in Bytes /\ <<0, 255>> \in Bytes
  BY <1>1 DEF Bytes
<1>3. Len(<<0, 0>>) = 2 /\ Len(<<0, 255>>) = 2
  OBVIOUS
<1>4. <<0, 0>>[1] = 0 /\ <<0, 0>>[2] = 0 /\ <<0, 255>>[1] = 0 /\ <<0, 255>>[2] = 255
  OBVIOUS
<1> QED BY <1>2, <1>3, <1>4

\* What all of p make begins with what the first of them make.
LEMMA PartialsGrow ==
  ASSUME NEW p \in Seq(Bytes), NEW u, Partials(p, u), NEW k \in 0 .. Len(p)
  PROVE  \E x \in Bytes : FlattenSeq(p) = u[k] \o x
<1> DEFINE n == Len(p)
           T == {m \in Nat : k + m <= n => \E x \in Bytes : u[k + m] = u[k] \o x}
<1>0. n \in Nat /\ k \in Nat /\ k <= n /\ \A i \in 1 .. n : p[i] \in Bytes
  OBVIOUS
<1>1. \A i \in 0 .. n : u[i] \in Bytes
  BY DEF Partials
<1>2. 0 \in T
  <2>1. u[k + 0] = u[k] \o <<>>
    BY <1>0, <1>1, BytesAre
  <2> QED BY <2>1, BytesAre
<1>3. ASSUME NEW m \in Nat, m \in T
      PROVE  m + 1 \in T
  <2>1. CASE k + (m + 1) <= n
    <3>1. k + m <= n
      BY <1>0, <2>1
    <3>2. PICK x \in Bytes : u[k + m] = u[k] \o x
      BY <1>3, <3>1
    <3>3. k + (m + 1) \in 1 .. n /\ (k + (m + 1)) - 1 = k + m
      BY <1>0, <2>1
    <3>4. u[k + (m + 1)] = (u[k] \o x) \o p[k + (m + 1)] /\ p[k + (m + 1)] \in Bytes
      BY <1>0, <3>2, <3>3 DEF Partials
    <3>5. u[k + (m + 1)] = u[k] \o (x \o p[k + (m + 1)])
      <4>1. Regroup(u[k], x, p[k + (m + 1)])
        BY <1>0, <1>1, <3>4, Associative
      <4> QED BY <3>4, <4>1 DEF Regroup
    <3>6. x \o p[k + (m + 1)] \in Bytes
      BY <3>2, <3>4, Concatenated
    <3>7. \E z \in Bytes : u[k + (m + 1)] = u[k] \o z
      BY <3>5, <3>6
    <3> QED BY <3>7
  <2>2. CASE ~(k + (m + 1) <= n)
    BY <2>2
  <2> QED BY <2>1, <2>2
<1>4. Nat \subseteq T
  <2> HIDE DEF T
  <2> QED BY <1>2, <1>3, Induction
<1>5. n - k \in Nat /\ k + (n - k) = n
  BY <1>0
<1>6. n - k \in T
  BY <1>4, <1>5
<1>7. \E x \in Bytes : u[n] = u[k] \o x
  <2> HIDE DEF n
  <2> QED BY <1>5, <1>6, <1>0
<1> QED BY <1>7, FlattenIs

\* Equal beginnings make the same.
LEMMA PartialsAgree ==
  ASSUME NEW p \in Seq(Bytes), NEW u, Partials(p, u),
         NEW q \in Seq(Bytes), NEW v, Partials(q, v),
         NEW n \in Nat, n <= Len(p), n <= Len(q), \A j \in 1 .. n : p[j] = q[j]
  PROVE  u[n] = v[n]
<1> DEFINE T == {m \in Nat : m <= n => u[m] = v[m]}
<1>0. Len(p) \in Nat /\ Len(q) \in Nat
  OBVIOUS
<1>1. 0 \in T
  BY DEF Partials
<1>2. ASSUME NEW m \in Nat, m \in T
      PROVE  m + 1 \in T
  <2>1. CASE m + 1 <= n
    <3>1. /\ m <= n /\ (m + 1) - 1 = m
          /\ m + 1 \in 1 .. n /\ m + 1 \in 1 .. Len(p) /\ m + 1 \in 1 .. Len(q)
      BY <1>0, <2>1
    <3>2. u[m] = v[m]
      BY <1>2, <3>1
    <3>3. u[m + 1] = u[m] \o p[m + 1]
      BY <3>1 DEF Partials
    <3>4. v[m + 1] = v[m] \o q[m + 1]
      BY <3>1 DEF Partials
    <3>5. p[m + 1] = q[m + 1]
      BY <3>1
    <3>6. u[m + 1] = v[m + 1]
      BY <3>2, <3>3, <3>4, <3>5
    <3> QED BY <3>6
  <2>2. CASE ~(m + 1 <= n)
    BY <2>2
  <2> QED BY <2>1, <2>2
<1>3. Nat \subseteq T
  <2> HIDE DEF T
  <2> QED BY <1>1, <1>2, Induction
<1> QED BY <1>3

\* p as its first k - 1, the k-th and the rest.
Splits(p, u, k) == \E x \in Bytes : FlattenSeq(p) = u[k - 1] \o (p[k] \o x)

\* Each of p can be taken apart from the others.
LEMMA Split ==
  ASSUME NEW p \in Seq(Bytes), NEW u, Partials(p, u), NEW k \in 1 .. Len(p)
  PROVE  u[k - 1] \in Bytes /\ p[k] \in Bytes /\ Splits(p, u, k)
<1>0. Len(p) \in Nat /\ k \in 0 .. Len(p) /\ k - 1 \in 0 .. Len(p) /\ p[k] \in Bytes
  OBVIOUS
<1>1. u[k - 1] \in Bytes /\ u[k] = u[k - 1] \o p[k]
  BY <1>0 DEF Partials
<1>2. PICK x \in Bytes : FlattenSeq(p) = u[k] \o x
  BY <1>0, PartialsGrow
<1>3. FlattenSeq(p) = u[k - 1] \o (p[k] \o x)
  <2>1. (u[k - 1] \o p[k]) \o x = u[k - 1] \o (p[k] \o x)
    <3>1. Regroup(u[k - 1], p[k], x)
      BY <1>0, <1>1, Associative
    <3> QED BY <3>1 DEF Regroup
  <2> QED BY <1>1, <1>2, <2>1
<1> QED BY <1>0, <1>1, <1>3 DEF Splits

-----------------------------------------------------------------------------
(* The order of bytes *)

\* What sorts, sorts too behind the same bytes and before any others.
LEMMA SortsWithin ==
  ASSUME NEW s \in Bytes, NEW a \in Bytes, NEW b \in Bytes, NEW x \in Bytes, NEW y \in Bytes,
         Sorts(a, b)
  PROVE  Sorts(s \o (a \o x), s \o (b \o y))
<1> DEFINE l == s \o (a \o x)
           r == s \o (b \o y)
<1>0. Len(s) \in Nat /\ Len(a) \in Nat /\ Len(b) \in Nat /\ Len(x) \in Nat /\ Len(y) \in Nat
  BY BytesAre
<1>1. PICK i \in 1 .. Len(a) : i <= Len(b) /\ a[i] < b[i] /\ \A j \in 1 .. i - 1 : a[j] = b[j]
  BY DEF Sorts
<1>2. /\ a \o x \in Bytes /\ b \o y \in Bytes
      /\ Len(a \o x) = Len(a) + Len(x) /\ Len(b \o y) = Len(b) + Len(y)
      /\ \A j \in 1 .. i : (a \o x)[j] = a[j] /\ (b \o y)[j] = b[j]
  <2>1. /\ a \o x \in Bytes /\ Len(a \o x) = Len(a) + Len(x)
        /\ \A j \in 1 .. Len(a) : (a \o x)[j] = a[j]
    BY Concatenated
  <2>2. /\ b \o y \in Bytes /\ Len(b \o y) = Len(b) + Len(y)
        /\ \A j \in 1 .. Len(b) : (b \o y)[j] = b[j]
    BY Concatenated
  <2>3. \A j \in 1 .. i : j \in 1 .. Len(a) /\ j \in 1 .. Len(b)
    BY <1>0, <1>1
  <2> QED BY <2>1, <2>2, <2>3
<1>3. /\ Len(l) = Len(s) + (Len(a) + Len(x)) /\ Len(r) = Len(s) + (Len(b) + Len(y))
      /\ \A j \in 1 .. Len(s) : l[j] = s[j] /\ r[j] = s[j]
      /\ \A j \in 1 .. Len(a) + Len(x) : l[Len(s) + j] = (a \o x)[j]
      /\ \A j \in 1 .. Len(b) + Len(y) : r[Len(s) + j] = (b \o y)[j]
  <2>1. a \o x \in Bytes /\ b \o y \in Bytes
    BY <1>2
  <2>2. /\ Len(l) = Len(s) + Len(a \o x)
        /\ \A j \in 1 .. Len(s) : l[j] = s[j]
        /\ \A j \in 1 .. Len(a \o x) : l[Len(s) + j] = (a \o x)[j]
    BY <2>1, Concatenated
  <2>3. /\ Len(r) = Len(s) + Len(b \o y)
        /\ \A j \in 1 .. Len(s) : r[j] = s[j]
        /\ \A j \in 1 .. Len(b \o y) : r[Len(s) + j] = (b \o y)[j]
    BY <2>1, Concatenated
  <2> HIDE DEF l, r
  <2> QED BY <1>2, <2>2, <2>3
<1> HIDE DEF l, r
<1>4. \A j \in 1 .. i : l[Len(s) + j] = a[j] /\ r[Len(s) + j] = b[j]
  <2>1. ASSUME NEW j \in 1 .. i
        PROVE  j \in 1 .. Len(a) + Len(x) /\ j \in 1 .. Len(b) + Len(y)
    BY <1>0, <1>1
  <2> QED BY <1>2, <1>3, <2>1
<1>5. /\ Len(s) + i \in 1 .. Len(l) /\ Len(s) + i <= Len(r)
      /\ l[Len(s) + i] < r[Len(s) + i]
  <2>1. i \in 1 .. i
    BY <1>0
  <2> QED BY <1>0, <1>1, <1>3, <1>4, <2>1
<1>6. ASSUME NEW j \in 1 .. (Len(s) + i) - 1
      PROVE  l[j] = r[j]
  <2>1. CASE j <= Len(s)
    <3>1. j \in 1 .. Len(s)
      BY <1>0, <2>1
    <3> QED BY <1>3, <3>1
  <2>2. CASE j > Len(s)
    <3>1. j - Len(s) \in 1 .. i - 1 /\ j - Len(s) \in 1 .. i /\ Len(s) + (j - Len(s)) = j
      BY <1>0, <2>2
    <3> QED BY <1>1, <1>4, <3>1
  <2> QED BY <1>0, <2>1, <2>2
<1>7. Sorts(l, r)
  BY <1>5, <1>6 DEF Sorts
<1> QED BY <1>7 DEF l, r

\* The first pieces that differ decide, and the end of pieces is two zeros.
LEMMA FlattenedOrder ==
  ASSUME NEW p \in Seq(Bytes), NEW q \in Seq(Bytes), NEW k \in 1 .. Len(q),
         \A j \in 1 .. k - 1 : j <= Len(p) /\ p[j] = q[j],
         k <= Len(p) => Sorts(p[k], q[k]),
         k > Len(p) => Sorts(<<0, 0>>, q[k])
  PROVE  Sorts(FlattenSeq(p) \o <<0, 0>>, FlattenSeq(q) \o <<0, 0>>)
<1>0. Len(p) \in Nat /\ Len(q) \in Nat /\ k - 1 \in Nat /\ <<0, 0>> \in Bytes
  <2>1. Len(p) \in Nat /\ Len(q) \in Nat /\ k - 1 \in Nat
    OBVIOUS
  <2>2. 0 \in Byte
    BY DEF Byte
  <2> QED BY <2>1, <2>2, FewBytes
<1>1. PICK u : Partials(p, u)
  BY PartialsExist
<1>2. PICK v : Partials(q, v)
  BY PartialsExist
<1>3. k - 1 <= Len(p) /\ k - 1 <= Len(q)
  <2>1. CASE k = 1
    BY <1>0, <2>1
  <2>2. CASE k # 1
    <3>1. k - 1 \in 1 .. k - 1
      BY <1>0, <2>2
    <3> QED BY <1>0, <3>1
  <2> QED BY <2>1, <2>2
<1>4. u[k - 1] = v[k - 1]
  <2>1. \A j \in 1 .. k - 1 : p[j] = q[j]
    OBVIOUS
  <2> QED BY <1>0, <1>1, <1>2, <1>3, <2>1, PartialsAgree
<1>5. PICK y \in Bytes : FlattenSeq(q) = v[k - 1] \o (q[k] \o y)
  <2>1. Splits(q, v, k)
    BY <1>2, Split
  <2> QED BY <2>1 DEF Splits
<1>6. v[k - 1] \in Bytes /\ q[k] \in Bytes
  BY <1>2, Split
<1>7. FlattenSeq(q) \o <<0, 0>> = v[k - 1] \o (q[k] \o (y \o <<0, 0>>)) /\ y \o <<0, 0>> \in Bytes
  <2> DEFINE w == v[k - 1]
             c == q[k]
             z == <<0, 0>>
  <2>0. w \in Bytes /\ c \in Bytes /\ z \in Bytes
    BY <1>0, <1>6
  <2> HIDE DEF w, c, z
  <2>1. (w \o (c \o y)) \o z = w \o (c \o (y \o z)) /\ y \o z \in Bytes
    <3>1. c \o y \in Bytes /\ y \o z \in Bytes
      BY <2>0, Concatenated
    <3>2. (w \o (c \o y)) \o z = w \o ((c \o y) \o z)
      <4>1. Regroup(w, c \o y, z)
        BY <2>0, <3>1, Associative
      <4> QED BY <4>1 DEF Regroup
    <3>3. (c \o y) \o z = c \o (y \o z)
      <4>1. Regroup(c, y, z)
        BY <2>0, Associative
      <4> QED BY <4>1 DEF Regroup
    <3> QED BY <3>1, <3>2, <3>3
  <2> USE DEF w, c, z
  <2> QED BY <1>5, <2>1
<1>8. CASE k <= Len(p)
  <2>1. k \in 1 .. Len(p)
    BY <1>0, <1>8
  <2>2. PICK x \in Bytes : FlattenSeq(p) = u[k - 1] \o (p[k] \o x)
    <3>1. Splits(p, u, k)
      BY <1>1, <2>1, Split
    <3> QED BY <3>1 DEF Splits
  <2>3. p[k] \in Bytes
    BY <1>1, <2>1, Split
  <2>4. FlattenSeq(p) \o <<0, 0>> = v[k - 1] \o (p[k] \o (x \o <<0, 0>>)) /\ x \o <<0, 0>> \in Bytes
    <3> DEFINE w == v[k - 1]
               c == p[k]
               z == <<0, 0>>
    <3>0. w \in Bytes /\ c \in Bytes /\ z \in Bytes
      BY <1>0, <1>6, <2>3
    <3> HIDE DEF w, c, z
    <3>1. (w \o (c \o x)) \o z = w \o (c \o (x \o z)) /\ x \o z \in Bytes
      <4>1. c \o x \in Bytes /\ x \o z \in Bytes
        BY <3>0, Concatenated
      <4>2. (w \o (c \o x)) \o z = w \o ((c \o x) \o z)
        <5>1. Regroup(w, c \o x, z)
          BY <3>0, <4>1, Associative
        <5> QED BY <5>1 DEF Regroup
      <4>3. (c \o x) \o z = c \o (x \o z)
        <5>1. Regroup(c, x, z)
          BY <3>0, Associative
        <5> QED BY <5>1 DEF Regroup
      <4> QED BY <4>1, <4>2, <4>3
    <3> USE DEF w, c, z
    <3> QED BY <1>4, <2>2, <3>1
  <2> QED BY <1>6, <1>7, <1>8, <2>3, <2>4, SortsWithin
<1>9. CASE k > Len(p)
  <2>1. k - 1 = Len(p)
    BY <1>0, <1>3, <1>9
  <2>2. FlattenSeq(p) = v[k - 1]
    BY <1>1, <1>4, <2>1, FlattenIs
  <2>3. FlattenSeq(p) \o <<0, 0>> = v[k - 1] \o (<<0, 0>> \o <<>>)
    BY <1>0, <2>2, BytesAre
  <2>4. Sorts(<<0, 0>>, q[k]) /\ <<>> \in Bytes
    BY <1>9, BytesAre
  <2> QED BY <1>0, <1>6, <1>7, <2>3, <2>4, SortsWithin
<1> QED BY <1>0, <1>8, <1>9

\* Sequences of bytes, one after another, are bytes.
LEMMA FlattenedBytes ==
  ASSUME NEW p \in Seq(Bytes)
  PROVE  FlattenSeq(p) \in Bytes
<1>1. PICK u : Partials(p, u)
  BY PartialsExist
<1>2. Len(p) \in 0 .. Len(p)
  OBVIOUS
<1> QED BY <1>1, <1>2, FlattenIs DEF Partials

\* What is written for each of some bytes.
Pieces(s) == [i \in DOMAIN s |-> IF s[i] = 0 THEN <<0, 255>> ELSE <<s[i]>>]

\* Escaped bytes are their pieces and two zeros (encode_escaped).
LEMMA PiecesAre ==
  ASSUME NEW s \in Bytes
  PROVE  /\ Pieces(s) \in Seq(Bytes) /\ Len(Pieces(s)) = Len(s)
         /\ \A i \in 1 .. Len(s) :
              /\ Pieces(s)[i] = IF s[i] = 0 THEN <<0, 255>> ELSE <<s[i]>>
              /\ Pieces(s)[i] \in Bytes
         /\ Escaped(s) = FlattenSeq(Pieces(s)) \o <<0, 0>>
         /\ Escaped(s) \in Bytes
<1>1. DOMAIN s = 1 .. Len(s) /\ Len(s) \in Nat
  BY LenProperties DEF Bytes
<1>2. \A i \in 1 .. Len(s) :
        /\ Pieces(s)[i] = IF s[i] = 0 THEN <<0, 255>> ELSE <<s[i]>>
        /\ Pieces(s)[i] \in Bytes
  <2>2. \A i \in 1 .. Len(s) : s[i] \in Byte
    BY BytesAre
  <2>3. ASSUME NEW i \in 1 .. Len(s)
        PROVE  <<s[i]>> \in Bytes
    <3> DEFINE a == s[i]
    <3>1. a \in Byte
      BY <2>2
    <3> HIDE DEF a
    <3>2. <<a>> \in Bytes
      BY <3>1, FewBytes
    <3> QED BY <3>2 DEF a
  <2>4. \A i \in 1 .. Len(s) : Pieces(s)[i] = IF s[i] = 0 THEN <<0, 255>> ELSE <<s[i]>>
    BY <1>1 DEF Pieces
  <2> QED BY <2>3, <2>4, PairsOfBytes
<1>3. Pieces(s) \in [1 .. Len(s) -> Bytes]
  <2>1. Pieces(s) = [i \in 1 .. Len(s) |-> Pieces(s)[i]]
    BY <1>1 DEF Pieces
  <2> QED BY <1>2, <2>1
<1>4. Pieces(s) \in Seq(Bytes) /\ Len(Pieces(s)) = Len(s)
  BY <1>1, <1>3
<1>5. Escaped(s) = FlattenSeq(Pieces(s)) \o <<0, 0>>
  BY DEF Escaped, Pieces
<1>6. Escaped(s) \in Bytes
  <2>1. 0 \in Byte
    BY DEF Byte
  <2> QED BY <1>4, <1>5, <2>1, FewBytes, FlattenedBytes, Concatenated
<1> QED BY <1>2, <1>4, <1>5, <1>6

\* Bytes sort by their first ones when these differ.
LEMMA FirstSorts ==
  ASSUME NEW a \in Bytes, NEW b \in Bytes, Len(a) # 0, Len(b) # 0, a[1] < b[1]
  PROVE  Sorts(a, b)
<1>1. 1 \in 1 .. Len(a) /\ 1 <= Len(b)
  BY BytesAre
<1> QED BY <1>1 DEF Sorts

\* Of two bytes, what is written for the less sorts first, a zero's two bytes too.
LEMMA PieceSorts ==
  ASSUME NEW a \in Byte, NEW b \in Byte, a < b
  PROVE  b # 0 /\ Sorts(IF a = 0 THEN <<0, 255>> ELSE <<a>>, <<b>>)
<1>0. b # 0 /\ 0 \in Byte /\ 255 \in Byte
  BY DEF Byte
<1>1. CASE a = 0
  <2>1. <<0, 255>> \in Bytes /\ Len(<<0, 255>>) = 2 /\ <<0, 255>>[1] = 0
    BY PairsOfBytes
  <2>2. <<b>> \in Bytes /\ Len(<<b>>) = 1 /\ <<b>>[1] = b
    BY FewBytes
  <2>3. Sorts(<<0, 255>>, <<b>>)
    BY <1>1, <2>1, <2>2, FirstSorts
  <2> QED BY <1>0, <1>1, <2>3
<1>2. CASE a # 0
  <2>1. <<a>> \in Bytes /\ Len(<<a>>) = 1 /\ <<a>>[1] = a
    BY FewBytes
  <2>2. <<b>> \in Bytes /\ Len(<<b>>) = 1 /\ <<b>>[1] = b
    BY FewBytes
  <2>3. Sorts(<<a>>, <<b>>)
    BY <2>1, <2>2, FirstSorts
  <2> QED BY <1>0, <1>2, <2>3
<1> QED BY <1>1, <1>2

\* The end sorts before what is written for any byte: the escape of a zero is what
\* keeps a shorter key before the ones it begins.
LEMMA EndSorts ==
  ASSUME NEW b \in Byte
  PROVE  Sorts(<<0, 0>>, IF b = 0 THEN <<0, 255>> ELSE <<b>>)
<1>1. 0 \in Byte /\ 255 \in Byte
  BY DEF Byte
<1>2. <<0, 0>> \in Bytes /\ Len(<<0, 0>>) = 2 /\ <<0, 0>>[1] = 0 /\ <<0, 0>>[2] = 0
  BY <1>1, FewBytes
<1>3. CASE b = 0
  <2>1. Len(<<0, 255>>) = 2 /\ <<0, 255>>[1] = 0 /\ <<0, 255>>[2] = 255
    BY <1>1, FewBytes
  <2>2. ASSUME NEW j \in 1 .. 2 - 1
        PROVE  <<0, 0>>[j] = <<0, 255>>[j]
    <3>1. j = 1
      OBVIOUS
    <3> QED BY <1>2, <2>1, <3>1
  <2>3. 2 \in 1 .. Len(<<0, 0>>) /\ 2 <= Len(<<0, 255>>) /\ <<0, 0>>[2] < <<0, 255>>[2]
    BY <1>2, <2>1
  <2>4. Sorts(<<0, 0>>, <<0, 255>>)
    BY <2>2, <2>3 DEF Sorts
  <2> QED BY <1>3, <2>4
<1>4. CASE b # 0
  <2>1. <<b>> \in Bytes /\ Len(<<b>>) = 1 /\ <<b>>[1] = b
    BY FewBytes
  <2>2. 0 < b
    BY <1>4 DEF Byte
  <2>3. Sorts(<<0, 0>>, <<b>>)
    BY <1>2, <2>1, <2>2, FirstSorts
  <2> QED BY <1>4, <2>3
<1> QED BY <1>3, <1>4

\* Escaped bytes sort as the bytes do.
LEMMA EscapedOrder ==
  ASSUME NEW s \in Bytes, NEW t \in Bytes, BytesLess(s, t)
  PROVE  Sorts(Escaped(s), Escaped(t))
<1> DEFINE p == Pieces(s)
           q == Pieces(t)
<1>0. Len(s) \in Nat /\ Len(t) \in Nat
  BY BytesAre
<1>1. PICK i \in 1 .. Len(t) :
        /\ \A j \in 1 .. i - 1 : j <= Len(s) /\ s[j] = t[j]
        /\ i > Len(s) \/ s[i] < t[i]
  BY DEF BytesLess, Lexicographic, NumberLess
<1>2. /\ p \in Seq(Bytes) /\ Len(p) = Len(s) /\ q \in Seq(Bytes) /\ Len(q) = Len(t)
      /\ \A j \in 1 .. Len(s) : p[j] = IF s[j] = 0 THEN <<0, 255>> ELSE <<s[j]>>
      /\ \A j \in 1 .. Len(t) : q[j] = IF t[j] = 0 THEN <<0, 255>> ELSE <<t[j]>>
  BY PiecesAre
<1> HIDE DEF p, q
<1>3. t[i] \in Byte
  BY BytesAre
<1>4. ASSUME NEW j \in 1 .. i - 1
      PROVE  j <= Len(p) /\ p[j] = q[j]
  <2>1. j \in 1 .. Len(s) /\ j \in 1 .. Len(t) /\ s[j] = t[j]
    BY <1>0, <1>1
  <2>2. j <= Len(p)
    BY <1>0, <1>2, <2>1
  <2>3. p[j] = q[j]
    BY <1>2, <2>1
  <2> QED BY <2>2, <2>3
<1>5. i <= Len(p) => Sorts(p[i], q[i])
  <2> SUFFICES ASSUME i <= Len(p)
               PROVE  Sorts(p[i], q[i])
    OBVIOUS
  <2>1. i \in 1 .. Len(s) /\ s[i] < t[i]
    BY <1>0, <1>1, <1>2
  <2>2. s[i] \in Byte
    BY <2>1, BytesAre
  <2>3. t[i] # 0 /\ Sorts(IF s[i] = 0 THEN <<0, 255>> ELSE <<s[i]>>, <<t[i]>>)
    BY <1>3, <2>1, <2>2, PieceSorts
  <2>4. p[i] = (IF s[i] = 0 THEN <<0, 255>> ELSE <<s[i]>>) /\ q[i] = <<t[i]>>
    BY <1>2, <2>1, <2>3
  <2> QED BY <2>3, <2>4
<1>6. Sorts(<<0, 0>>, q[i])
  <2>1. q[i] = IF t[i] = 0 THEN <<0, 255>> ELSE <<t[i]>>
    BY <1>2
  <2> QED BY <1>3, <2>1, EndSorts
<1>7. Sorts(FlattenSeq(p) \o <<0, 0>>, FlattenSeq(q) \o <<0, 0>>)
  <2>1. i \in 1 .. Len(q)
    BY <1>2
  <2> QED BY <1>2, <1>4, <1>5, <1>6, <2>1, FlattenedOrder
<1> QED BY <1>7, PiecesAre DEF p, q

\* Where two sequences first differ, or one ends.
LEMMA FirstDifference ==
  ASSUME NEW S, NEW s \in Seq(S), NEW t \in Seq(S), s # t
  PROVE  \E i \in Nat \ {0} :
           /\ \A j \in 1 .. i - 1 : j <= Len(s) /\ j <= Len(t) /\ s[j] = t[j]
           /\ i <= Len(s) \/ i <= Len(t)
           /\ i <= Len(s) /\ i <= Len(t) => s[i] # t[i]
<1> DEFINE T == {i \in Nat \ {0} : /\ i <= Len(s) \/ i <= Len(t)
                                   /\ i <= Len(s) /\ i <= Len(t) => s[i] # t[i]}
<1>0. Len(s) \in Nat /\ Len(t) \in Nat
  OBVIOUS
<1>1. T # {}
  <2> SUFFICES ASSUME T = {}
               PROVE  FALSE
    OBVIOUS
  <2>1. Len(s) = Len(t)
    <3>1. CASE Len(s) < Len(t)
      <4>1. Len(t) \in T
        BY <1>0, <3>1
      <4> QED BY <4>1
    <3>2. CASE Len(t) < Len(s)
      <4>1. Len(s) \in T
        BY <1>0, <3>2
      <4> QED BY <4>1
    <3> QED BY <1>0, <3>1, <3>2
  <2>2. ASSUME NEW i \in 1 .. Len(s), s[i] # t[i]
        PROVE  FALSE
    <3>1. i \in T
      BY <1>0, <2>1, <2>2
    <3> QED BY <3>1
  <2> QED BY <2>1, <2>2, SeqEqual
<1>2. PICK i \in T : \A k \in T : i <= k
  <2>1. T \in SUBSET Nat
    OBVIOUS
  <2> HIDE DEF T
  <2> QED BY <1>1, <2>1, LeastNumber
<1>3. ASSUME NEW j \in 1 .. i - 1
      PROVE  j <= Len(s) /\ j <= Len(t) /\ s[j] = t[j]
  <2>1. i \in Nat /\ j \in Nat \ {0} /\ ~(i <= j) /\ (i <= Len(s) \/ i <= Len(t))
    OBVIOUS
  <2>2. j \notin T
    BY <1>2, <2>1
  <2> QED BY <1>0, <2>1, <2>2
<1> QED BY <1>3

\* Of two different sequences of bytes one is less.
LEMMA BytesTotal ==
  ASSUME NEW s \in Bytes, NEW t \in Bytes, s # t
  PROVE  BytesLess(s, t) \/ BytesLess(t, s)
<1>0. Len(s) \in Nat /\ Len(t) \in Nat
  BY BytesAre
<1>1. PICK i \in Nat \ {0} :
        /\ \A j \in 1 .. i - 1 : j <= Len(s) /\ j <= Len(t) /\ s[j] = t[j]
        /\ i <= Len(s) \/ i <= Len(t)
        /\ i <= Len(s) /\ i <= Len(t) => s[i] # t[i]
  BY FirstDifference DEF Bytes
<1>2. CASE i > Len(s)
  <2>1. i \in 1 .. Len(t)
    BY <1>0, <1>1, <1>2
  <2> QED BY <1>1, <1>2, <2>1 DEF BytesLess, Lexicographic
<1>3. CASE i > Len(t)
  <2>1. i \in 1 .. Len(s)
    BY <1>0, <1>1, <1>3
  <2> QED BY <1>1, <1>3, <2>1 DEF BytesLess, Lexicographic
<1>4. CASE i <= Len(s) /\ i <= Len(t)
  <2>1. i \in 1 .. Len(s) /\ i \in 1 .. Len(t)
    BY <1>0, <1>4
  <2>2. s[i] \in Int /\ t[i] \in Int
    <3>1. s[i] \in Byte /\ t[i] \in Byte
      BY <2>1, BytesAre
    <3> QED BY <3>1 DEF Byte
  <2>3. s[i] < t[i] \/ t[i] < s[i]
    BY <1>1, <1>4, <2>2
  <2> QED BY <1>1, <2>1, <2>3 DEF BytesLess, Lexicographic, NumberLess
<1> QED BY <1>0, <1>2, <1>3, <1>4

-----------------------------------------------------------------------------
(* Numbers in bytes *)

\* Powers of 256 are what their definition says, of every number.
LEMMA PowerIs ==
  /\ Power[0] = 1
  /\ \A k \in Nat : Power[k] \in Nat \ {0} /\ Power[k + 1] = 256 * Power[k]
<1> DEFINE To(m, f) == f \in [Nat -> Nat] /\ f[0] = 1 /\ \A k \in 1 .. m : f[k] = 256 * f[k - 1]
           T == {m \in Nat : \E f : To(m, f)}
           F(m) == CHOOSE f : To(m, f)
           g == [k \in Nat |-> F(k)[k]]
           Is(f) == f = [k \in Nat |-> IF k = 0 THEN 1 ELSE 256 * f[k - 1]]
<1>1. 0 \in T
  <2>1. To(0, [k \in Nat |-> 1])
    OBVIOUS
  <2> QED BY <2>1
<1>2. ASSUME NEW m \in Nat, m \in T
      PROVE  m + 1 \in T
  <2>1. PICK f : To(m, f)
    BY <1>2
  <2> DEFINE h == [f EXCEPT ![m + 1] = 256 * f[m]]
  <2>2. 256 * f[m] \in Nat
    BY <2>1
  <2>3. h \in [Nat -> Nat] /\ h[0] = 1 /\ h[m + 1] = 256 * f[m]
        /\ \A k \in 0 .. m : h[k] = f[k]
    BY <2>1, <2>2
  <2>4. ASSUME NEW k \in 1 .. m + 1
        PROVE  h[k] = 256 * h[k - 1]
    <3>1. k - 1 \in 0 .. m
      OBVIOUS
    <3>2. CASE k = m + 1
      BY <2>3, <3>1, <3>2
    <3>3. CASE k # m + 1
      <4>1. k \in 1 .. m /\ k \in 0 .. m
        BY <3>3
      <4> QED BY <2>1, <2>3, <3>1, <4>1
    <3> QED BY <3>2, <3>3
  <2>5. To(m + 1, h)
    BY <2>3, <2>4
  <2> HIDE DEF To, h
  <2> QED BY <2>5
<1>3. \A m \in Nat : To(m, F(m))
  <2>1. Nat \subseteq T
    <3> HIDE DEF T
    <3> QED BY <1>1, <1>2, Induction
  <2> HIDE DEF To
  <2> QED BY <2>1
<1> HIDE DEF F
<1>4. \A m \in Nat : F(m + 1)[m] = F(m)[m]
  <2> SUFFICES ASSUME NEW m \in Nat
               PROVE  F(m + 1)[m] = F(m)[m]
    OBVIOUS
  <2> DEFINE A == {k \in Nat : k <= m => F(m + 1)[k] = F(m)[k]}
  <2>1. 0 \in A
    <3>1. F(m)[0] = 1 /\ F(m + 1)[0] = 1
      BY <1>3
    <3> QED BY <3>1
  <2>2. ASSUME NEW k \in Nat, k \in A
        PROVE  k + 1 \in A
    <3>1. CASE k + 1 <= m
      <4>1. k <= m /\ k + 1 \in 1 .. m /\ k + 1 \in 1 .. m + 1 /\ (k + 1) - 1 = k
        BY <3>1
      <4>2. F(m + 1)[k + 1] = 256 * F(m + 1)[k]
        BY <1>3, <4>1
      <4>3. F(m)[k + 1] = 256 * F(m)[k]
        BY <1>3, <4>1
      <4>4. F(m + 1)[k] = F(m)[k]
        BY <2>2, <4>1
      <4>5. F(m + 1)[k + 1] = F(m)[k + 1]
        BY <4>2, <4>3, <4>4
      <4> QED BY <4>5
    <3>2. CASE ~(k + 1 <= m)
      BY <3>2
    <3> QED BY <3>1, <3>2
  <2>3. Nat \subseteq A
    <3> HIDE DEF A
    <3> QED BY <2>1, <2>2, Induction
  <2> QED BY <2>3
<1>5. /\ g \in [Nat -> Nat] /\ g[0] = 1
      /\ \A k \in Nat : g[k + 1] = 256 * g[k]
  <2>1. \A k \in Nat : F(k)[k] \in Nat
    BY <1>3
  <2>2. F(0)[0] = 1
    BY <1>3
  <2>3. ASSUME NEW k \in Nat
        PROVE  F(k + 1)[k + 1] = 256 * F(k)[k]
    <3>1. k + 1 \in 1 .. k + 1 /\ (k + 1) - 1 = k
      OBVIOUS
    <3>2. F(k + 1)[k + 1] = 256 * F(k + 1)[k]
      BY <1>3, <3>1
    <3> QED BY <1>4, <3>2
  <2> QED BY <2>1, <2>2, <2>3
<1>6. Is(g)
  <2> HIDE DEF g
  <2>1. ASSUME NEW k \in Nat
        PROVE  g[k] = IF k = 0 THEN 1 ELSE 256 * g[k - 1]
    <3>1. CASE k = 0
      BY <1>5, <3>1
    <3>2. CASE k # 0
      <4>1. k - 1 \in Nat /\ (k - 1) + 1 = k
        BY <3>2
      <4> QED BY <1>5, <3>2, <4>1
    <3> QED BY <3>1, <3>2
  <2> QED BY <1>5, <2>1
<1>7. Is(Power)
  <2>1. Power = CHOOSE f : Is(f)
    BY DEF Power
  <2> HIDE DEF Is, g
  <2> QED BY <1>6, <2>1
<1>8. Power[0] = 1 /\ \A k \in Nat : Power[k + 1] = 256 * Power[k]
  <2>1. \A k \in Nat : Power[k] = IF k = 0 THEN 1 ELSE 256 * Power[k - 1]
    BY <1>7
  <2>2. ASSUME NEW k \in Nat
        PROVE  Power[k + 1] = 256 * Power[k]
    <3>1. k + 1 \in Nat /\ k + 1 # 0 /\ (k + 1) - 1 = k
      OBVIOUS
    <3> QED BY <2>1, <3>1
  <2> QED BY <2>1, <2>2
<1>9. Nat \subseteq {k \in Nat : Power[k] \in Nat \ {0}}
  <2> DEFINE P == {k \in Nat : Power[k] \in Nat \ {0}}
  <2>1. 0 \in P
    BY <1>8
  <2>2. \A k \in Nat : k \in P => k + 1 \in P
    BY <1>8
  <2> HIDE DEF P
  <2>3. Nat \subseteq P
    BY <2>1, <2>2, Induction
  <2> QED BY <2>3 DEF P
<1> QED BY <1>8, <1>9

\* A product tells which factor is less.
LEMMA Cancel ==
  ASSUME NEW a \in Int, NEW b \in Int, NEW n \in Nat \ {0}, a * n < b * n
  PROVE  a < b
<1> SUFFICES ASSUME b <= a
             PROVE  FALSE
  OBVIOUS
<1>1. b * n <= a * n
  OBVIOUS
<1> QED BY <1>1

\* A quotient, by what it is multiplied with.
LEMMA Quotient ==
  ASSUME NEW m \in Nat, NEW n \in Nat \ {0}
  PROVE  m \div n \in Nat /\ (m \div n) * n <= m /\ m < ((m \div n) + 1) * n
<1> QED OBVIOUS

\* A digit of a number, from two of its quotients.
Digit(m, n) == (m \div n) % 256 = (m \div n) - 256 * (m \div (256 * n))

\* The quotient by 256 times as much is the quotient's by 256.
LEMMA QuotientTwice ==
  ASSUME NEW m \in Nat, NEW n \in Nat \ {0}
  PROVE  Digit(m, n)
<1> DEFINE y == m \div n
           x == m \div (256 * n)
<1>1. 256 * n \in Nat \ {0}
  OBVIOUS
<1>2. y \in Nat /\ y * n <= m /\ m < (y + 1) * n
  BY Quotient
<1>3. x \in Nat /\ x * (256 * n) <= m /\ m < (x + 1) * (256 * n)
  <2> DEFINE k == 256 * n
  <2>1. k \in Nat \ {0}
    BY <1>1
  <2> HIDE DEF k
  <2>2. m \div k \in Nat /\ (m \div k) * k <= m /\ m < ((m \div k) + 1) * k
    BY <2>1, Quotient
  <2> QED BY <2>2 DEF k
<1> HIDE DEF x, y
<1>4. x * (256 * n) = (256 * x) * n /\ (x + 1) * (256 * n) = (256 * (x + 1)) * n
  BY <1>2, <1>3
<1>5. y * n \in Int /\ (y + 1) * n \in Int /\ (256 * x) * n \in Int /\ (256 * (x + 1)) * n \in Int
  BY <1>2, <1>3
<1>6. 256 * x < y + 1
  <2>1. (256 * x) * n < (y + 1) * n
    BY <1>2, <1>3, <1>4, <1>5
  <2>2. 256 * x \in Int /\ y + 1 \in Int
    BY <1>2, <1>3
  <2> QED BY <2>1, <2>2, Cancel
<1>7. y < 256 * (x + 1)
  <2>1. y * n < (256 * (x + 1)) * n
    BY <1>2, <1>3, <1>4, <1>5
  <2>2. y \in Int /\ 256 * (x + 1) \in Int
    BY <1>2, <1>3
  <2> QED BY <2>1, <2>2, Cancel
<1>8. y % 256 = y - 256 * x
  BY <1>2, <1>3, <1>6, <1>7
<1> QED BY <1>8 DEF Digit, x, y

\* The integers of the code's width: behind the flip of the sign they are the
\* numbers below the power.
LEMMA Shifted ==
  ASSUME NEW i \in -(Power[Number] \div 2) .. Power[Number] \div 2 - 1
  PROVE  /\ (i + Power[Number] \div 2) % Power[Number] = i + Power[Number] \div 2
         /\ i + Power[Number] \div 2 \in Nat /\ i + Power[Number] \div 2 < Power[Number]
         /\ i \in Int /\ Power[Number] \div 2 \in Int
<1> DEFINE P == Power[Number]
           H == P \div 2
<1>1. Number - 1 \in Nat /\ (Number - 1) + 1 = Number
  BY WidthAssumption
<1>2. P \in Nat \ {0} /\ Power[Number - 1] \in Nat \ {0} /\ P = 256 * Power[Number - 1]
  BY <1>1, PowerIs
<1>3. H \in Nat /\ P = H + H
  <2> HIDE DEF P
  <2> QED BY <1>2
<1>4. i \in Int /\ i + H \in Nat /\ i + H < P
  <2> HIDE DEF P, H
  <2>1. i \in -H .. H - 1
    BY DEF P, H
  <2> QED BY <1>2, <1>3, <2>1
<1>5. (i + H) % P = i + H
  <2> HIDE DEF P, H
  <2> QED BY <1>2, <1>4
<1> QED BY <1>3, <1>4, <1>5 DEF H, P

\* The bytes of an integer of this width.
LEMMA BigEndianIs ==
  ASSUME NEW i \in -(Power[Number] \div 2) .. Power[Number] \div 2 - 1
  PROVE  /\ BigEndian(i) \in Bytes /\ Len(BigEndian(i)) = Number
         /\ \A b \in 1 .. Number :
              BigEndian(i)[b] = ((i + Power[Number] \div 2) \div Power[Number - b]) % 256
<1> DEFINE u == i + Power[Number] \div 2
           B == BigEndian(i)
<1>0. Number \in Nat /\ u \in Nat
  BY Shifted, WidthAssumption
<1>1. B = [b \in 1 .. Number |-> (u \div Power[Number - b]) % 256]
  BY Shifted DEF BigEndian
<1> HIDE DEF u, B
<1>2. ASSUME NEW b \in 1 .. Number
      PROVE  (u \div Power[Number - b]) % 256 \in Byte
  <2>1. Power[Number - b] \in Nat \ {0}
    BY <1>0, PowerIs
  <2>2. u \div Power[Number - b] \in Nat
    BY <1>0, <2>1, Quotient
  <2>3. \A y \in Nat : y % 256 \in 0 .. 255
    OBVIOUS
  <2> QED BY <2>2, <2>3 DEF Byte
<1>3. B \in [1 .. Number -> Byte]
  BY <1>1, <1>2
<1>4. B \in Bytes /\ Len(B) = Number
  BY <1>0, <1>3 DEF Bytes
<1> QED BY <1>1, <1>4 DEF u, B

\* Integers sort by their bytes.
LEMMA BigEndianOrder ==
  ASSUME NEW i \in -(Power[Number] \div 2) .. Power[Number] \div 2 - 1,
         NEW j \in -(Power[Number] \div 2) .. Power[Number] \div 2 - 1,
         i < j
  PROVE  Sorts(BigEndian(i), BigEndian(j))
<1> DEFINE u == i + Power[Number] \div 2
           w == j + Power[Number] \div 2
           q(b) == u \div Power[Number - b]
           r(b) == w \div Power[Number - b]
           T == {b \in 0 .. Number : q(b) # r(b)}
<1>0. /\ Number \in Nat /\ u \in Nat /\ w \in Nat /\ u < w
      /\ w < Power[Number] /\ Power[Number] \in Nat \ {0} /\ Power[0] = 1
  <2>1. Number \in Nat /\ u \in Nat /\ w \in Nat /\ w < Power[Number] /\ i \in Int /\ j \in Int
        /\ Power[Number] \div 2 \in Int
    BY Shifted, WidthAssumption
  <2>2. u < w
    BY <2>1
  <2> QED BY <2>1, <2>2, PowerIs
<1>1. /\ Len(BigEndian(i)) = Number /\ Len(BigEndian(j)) = Number
      /\ \A b \in 1 .. Number : BigEndian(i)[b] = q(b) % 256 /\ BigEndian(j)[b] = r(b) % 256
  BY BigEndianIs
<1> HIDE DEF u, w
<1>2. \A b \in 0 .. Number :
        /\ Power[Number - b] \in Nat \ {0}
        /\ q(b) \in Nat /\ q(b) * Power[Number - b] <= u
        /\ r(b) \in Nat /\ w < (r(b) + 1) * Power[Number - b]
  <2> SUFFICES ASSUME NEW b \in 0 .. Number
               PROVE  /\ Power[Number - b] \in Nat \ {0}
                      /\ q(b) \in Nat /\ q(b) * Power[Number - b] <= u
                      /\ r(b) \in Nat /\ w < (r(b) + 1) * Power[Number - b]
    OBVIOUS
  <2>1. Power[Number - b] \in Nat \ {0}
    BY <1>0, PowerIs
  <2> QED BY <1>0, <2>1, Quotient
<1>3. Number \in T
  <2>1. Number - Number = 0
    BY <1>0
  <2>2. q(Number) = u /\ r(Number) = w
    BY <1>0, <2>1
  <2> HIDE DEF q, r
  <2> QED BY <1>0, <2>2
<1>4. 0 \notin T
  <2>1. \A m \in Nat : m < Power[Number] => m \div Power[Number] = 0
    <3> SUFFICES ASSUME NEW m \in Nat, m < Power[Number]
                 PROVE  m \div Power[Number] = 0
      OBVIOUS
    <3> DEFINE n == Power[Number]
               d == m \div n
    <3>1. d \in Nat /\ d * n <= m /\ n \in Nat \ {0}
      BY <1>0, Quotient
    <3> HIDE DEF d, n
    <3>2. m < n
      BY DEF n
    <3>3. d * n < 1 * n
      BY <3>1, <3>2
    <3>4. d < 1
      BY <3>1, <3>3, Cancel
    <3>5. d = 0
      BY <3>1, <3>4
    <3> QED BY <3>5 DEF d, n
  <2>2. Number - 0 = Number /\ u < Power[Number]
    BY <1>0
  <2>3. q(0) = 0 /\ r(0) = 0
    BY <1>0, <2>1, <2>2
  <2> QED BY <2>3
<1> HIDE DEF q, r
<1>5. PICK b \in T : \A k \in T : b <= k
  <2>1. T \in SUBSET Nat
    BY <1>0
  <2> HIDE DEF T
  <2> QED BY <1>3, <2>1, LeastNumber
<1>6. b \in 1 .. Number /\ b \in 0 .. Number /\ b - 1 \in 0 .. Number /\ q(b) # r(b)
  BY <1>0, <1>4, <1>5
<1>7. \A k \in 0 .. b - 1 : q(k) = r(k)
  <2> SUFFICES ASSUME NEW k \in 0 .. b - 1
               PROVE  q(k) = r(k)
    OBVIOUS
  <2>1. k \in 0 .. Number /\ ~(b <= k)
    BY <1>0, <1>6
  <2> QED BY <1>5, <2>1
<1>8. q(b) < r(b)
  <2> DEFINE n == Power[Number - b]
  <2>1. n \in Nat \ {0} /\ q(b) \in Nat /\ r(b) \in Nat /\ q(b) * n <= u /\ w < (r(b) + 1) * n
    BY <1>2, <1>6
  <2> HIDE DEF n
  <2>2. q(b) * n \in Int /\ (r(b) + 1) * n \in Int
    BY <2>1
  <2>3. q(b) * n < (r(b) + 1) * n
    BY <1>0, <2>1, <2>2
  <2>4. q(b) < r(b) + 1
    <3>1. q(b) \in Int /\ r(b) + 1 \in Int
      BY <2>1
    <3> QED BY <2>1, <2>3, <3>1, Cancel
  <2> QED BY <1>6, <2>1, <2>4
<1>9. BigEndian(i)[b] < BigEndian(j)[b]
  <2>1. /\ Number - b \in Nat /\ Number - (b - 1) = (Number - b) + 1
        /\ Power[Number - b] \in Nat \ {0}
        /\ Power[Number - (b - 1)] = 256 * Power[Number - b]
    BY <1>0, <1>6, PowerIs
  <2>2. q(b) % 256 = q(b) - 256 * q(b - 1)
    <3>1. q(b) = u \div Power[Number - b] /\ q(b - 1) = u \div (256 * Power[Number - b])
      BY <2>1 DEF q
    <3>2. (u \div Power[Number - b]) % 256
            = (u \div Power[Number - b]) - 256 * (u \div (256 * Power[Number - b]))
      <4>1. Digit(u, Power[Number - b])
        BY <1>0, <2>1, QuotientTwice
      <4> QED BY <4>1 DEF Digit
    <3> QED BY <3>1, <3>2
  <2>3. r(b) % 256 = r(b) - 256 * r(b - 1)
    <3>1. r(b) = w \div Power[Number - b] /\ r(b - 1) = w \div (256 * Power[Number - b])
      BY <2>1 DEF r
    <3>2. (w \div Power[Number - b]) % 256
            = (w \div Power[Number - b]) - 256 * (w \div (256 * Power[Number - b]))
      <4>1. Digit(w, Power[Number - b])
        BY <1>0, <2>1, QuotientTwice
      <4> QED BY <4>1 DEF Digit
    <3> QED BY <3>1, <3>2
  <2>4. q(b - 1) = r(b - 1) /\ q(b) \in Nat /\ r(b) \in Nat /\ q(b - 1) \in Nat
    BY <1>2, <1>6, <1>7
  <2>5. BigEndian(i)[b] = q(b) % 256 /\ BigEndian(j)[b] = r(b) % 256
    BY <1>1, <1>6
  <2> QED BY <1>8, <2>2, <2>3, <2>4, <2>5
<1>10. \A k \in 1 .. b - 1 : BigEndian(i)[k] = BigEndian(j)[k]
  <2> SUFFICES ASSUME NEW k \in 1 .. b - 1
               PROVE  BigEndian(i)[k] = BigEndian(j)[k]
    OBVIOUS
  <2>1. k \in 0 .. b - 1 /\ k \in 1 .. Number
    BY <1>0, <1>6
  <2> QED BY <1>1, <1>7, <2>1
<1>11. b \in 1 .. Len(BigEndian(i)) /\ b <= Len(BigEndian(j))
  BY <1>0, <1>1, <1>6
<1> QED BY <1>9, <1>10, <1>11 DEF Sorts

-----------------------------------------------------------------------------
(* The order of keys *)

\* What is written of a value behind its type.
Payload(v) ==
  CASE v.type = Null -> <<>>
    [] v.type \in {Type, Bool} -> <<v.data + 1>>
    [] v.type \in {UuidType, Float} -> v.data
    [] v.type = Integer -> BigEndian(v.data)
    [] v.type \in {Text, Json, Blob} -> Escaped(v.data)

\* A value by its type: its data, what is written of it, and how many bytes.
LEMMA PayloadIs ==
  ASSUME NEW v, IsValue(v)
  PROVE  /\ v = [type |-> v.type, data |-> v.data] /\ v.type \in 0 .. 8
         /\ v.type = Null => v.data = <<>> /\ Payload(v) = <<>>
         /\ v.type \in {Type, Bool} => v.data \in 0 .. 8 /\ Payload(v) = <<v.data + 1>>
         /\ v.type = UuidType =>
              v.data \in Bytes /\ Len(v.data) = Uuid /\ Payload(v) = v.data
         /\ v.type = Float =>
              v.data \in Bytes /\ Len(v.data) = Number /\ Payload(v) = v.data
         /\ v.type = Integer =>
              /\ v.data \in -(Power[Number] \div 2) .. Power[Number] \div 2 - 1
              /\ Payload(v) = BigEndian(v.data)
         /\ v.type \in {Text, Json, Blob} => v.data \in Bytes /\ Payload(v) = Escaped(v.data)
<1> USE DEF Null, Type, UuidType, Bool, Integer, Float, Text, Json, Blob
<1>1. v = [type |-> v.type, data |-> v.data] /\ v.type \in 0 .. 8
  BY DEF IsValue
<1>2. v.type = Null => v.data = <<>> /\ Payload(v) = <<>>
  BY DEF IsValue, Payload
<1>3. v.type \in {Type, Bool} => v.data \in 0 .. 8 /\ Payload(v) = <<v.data + 1>>
  <2>1. v.type = Type => v.data \in 0 .. 8
    BY DEF IsValue
  <2>2. v.type = Bool => v.data \in 0 .. 1
    BY DEF IsValue
  <2>3. v.type \in {Type, Bool} => v.data \in 0 .. 8
    BY <2>1, <2>2
  <2>4. v.type \in {Type, Bool} => Payload(v) = <<v.data + 1>>
    BY DEF Payload
  <2> QED BY <2>3, <2>4
<1>4. v.type = UuidType => v.data \in [1 .. Uuid -> Byte] /\ Payload(v) = v.data
  BY DEF IsValue, Payload
<1>5. v.type = Float => v.data \in [1 .. Number -> Byte] /\ Payload(v) = v.data
  BY DEF IsValue, Payload
<1>6. v.type = Integer =>
        /\ v.data \in -(Power[Number] \div 2) .. Power[Number] \div 2 - 1
        /\ Payload(v) = BigEndian(v.data)
  BY DEF IsValue, Payload
<1>7. v.type \in {Text, Json, Blob} => v.data \in Bytes /\ Payload(v) = Escaped(v.data)
  <2>1. v.type = Text => v.data \in Bytes
    BY DEF IsValue, Bytes
  <2>2. v.type = Json => v.data \in Bytes
    BY DEF IsValue, Bytes
  <2>3. v.type = Blob => v.data \in Bytes
    BY DEF IsValue, Bytes
  <2>4. v.type \in {Text, Json, Blob} => Payload(v) = Escaped(v.data)
    BY DEF Payload
  <2> QED BY <2>1, <2>2, <2>3, <2>4
<1>8. \A n \in Nat : \A d \in [1 .. n -> Byte] : d \in Bytes /\ Len(d) = n
  BY DEF Bytes
<1> QED BY <1>1, <1>2, <1>3, <1>4, <1>5, <1>6, <1>7, <1>8, WidthAssumption

\* The bytes of a value: its type's first, then these.
LEMMA ValueBytes ==
  ASSUME NEW v, IsValue(v)
  PROVE  /\ <<v.type + 1>> \in Bytes /\ Len(<<v.type + 1>>) = 1
         /\ <<v.type + 1>>[1] = v.type + 1 /\ v.type + 1 \in Byte
         /\ Payload(v) \in Bytes
         /\ EncodeValueOrder(v) = <<v.type + 1>> \o Payload(v)
         /\ EncodeValueOrder(v) \in Bytes
         /\ Len(EncodeValueOrder(v)) = 1 + Len(Payload(v))
         /\ EncodeValueOrder(v)[1] = v.type + 1
<1>0. v.type \in 0 .. 8
  BY PayloadIs
<1>1. v.type + 1 \in Byte
  BY <1>0 DEF Byte
<1>2. <<v.type + 1>> \in Bytes /\ Len(<<v.type + 1>>) = 1 /\ <<v.type + 1>>[1] = v.type + 1
  BY <1>1, FewBytes
<1>3. Payload(v) \in Bytes
  <2>1. CASE v.type \in {Type, Bool}
    <3>1. v.data + 1 \in Byte
      <4>1. v.data \in 0 .. 8
        BY <2>1, PayloadIs
      <4> QED BY <4>1 DEF Byte
    <3> QED BY <2>1, <3>1, PayloadIs, FewBytes
  <2>2. CASE v.type = Integer
    BY <2>2, PayloadIs, BigEndianIs
  <2>3. CASE v.type \in {Text, Json, Blob}
    BY <2>3, PayloadIs, PiecesAre
  <2>4. CASE v.type \in {Null, UuidType, Float}
    BY <2>4, PayloadIs, BytesAre
  <2> QED BY <1>0, <2>1, <2>2, <2>3, <2>4
          DEF Null, Type, UuidType, Bool, Integer, Float, Text, Json, Blob
<1>4. EncodeValueOrder(v) = <<v.type + 1>> \o Payload(v)
  BY DEF EncodeValueOrder, Payload
<1>5. 1 \in 1 .. Len(<<v.type + 1>>)
  BY <1>2
<1> QED BY <1>1, <1>2, <1>3, <1>4, <1>5, Concatenated

\* Of as many bytes, the less sort first.
LEMMA SameLength ==
  ASSUME NEW s \in Bytes, NEW t \in Bytes, Len(s) = Len(t), BytesLess(s, t)
  PROVE  Sorts(s, t)
<1>0. Len(s) \in Nat
  BY BytesAre
<1>1. PICK i \in 1 .. Len(t) :
        /\ \A j \in 1 .. i - 1 : j <= Len(s) /\ s[j] = t[j]
        /\ i > Len(s) \/ s[i] < t[i]
  BY DEF BytesLess, Lexicographic, NumberLess
<1>2. i \in 1 .. Len(s) /\ i <= Len(t) /\ s[i] < t[i]
  BY <1>0, <1>1
<1> QED BY <1>1, <1>2 DEF Sorts

\* Of values the less sorts first.
LEMMA ValueOrder ==
  ASSUME NEW x, IsValue(x), NEW y, IsValue(y), ValueLess(x, y)
  PROVE  Sorts(EncodeValueOrder(x), EncodeValueOrder(y))
<1>0. x.type \in 0 .. 8 /\ y.type \in 0 .. 8
  BY PayloadIs
<1>1. CASE x.type < y.type
  <2>1. /\ EncodeValueOrder(x) \in Bytes /\ EncodeValueOrder(y) \in Bytes
        /\ EncodeValueOrder(x)[1] = x.type + 1 /\ EncodeValueOrder(y)[1] = y.type + 1
    BY ValueBytes
  <2>2. Len(EncodeValueOrder(x)) # 0 /\ Len(EncodeValueOrder(y)) # 0
    <3>1. /\ Len(EncodeValueOrder(x)) = 1 + Len(Payload(x)) /\ Payload(x) \in Bytes
          /\ Len(EncodeValueOrder(y)) = 1 + Len(Payload(y)) /\ Payload(y) \in Bytes
      BY ValueBytes
    <3>2. Len(Payload(x)) \in Nat /\ Len(Payload(y)) \in Nat
      BY <3>1, BytesAre
    <3> QED BY <3>1, <3>2
  <2>3. x.type + 1 < y.type + 1
    BY <1>0, <1>1
  <2> QED BY <2>1, <2>2, <2>3, FirstSorts
<1>2. CASE /\ x.type = y.type
           /\ IF x.type \in {Type, Bool, Integer} THEN x.data < y.data
                                                  ELSE BytesLess(x.data, y.data)
  <2>1. Sorts(Payload(x), Payload(y))
    <3>1. CASE x.type \in {Type, Bool}
      <4>1. /\ x.data \in 0 .. 8 /\ y.data \in 0 .. 8 /\ x.data < y.data
            /\ Payload(x) = <<x.data + 1>> /\ Payload(y) = <<y.data + 1>>
        BY <1>2, <3>1, PayloadIs
      <4>2. x.data + 1 \in Byte /\ y.data + 1 \in Byte /\ x.data + 1 < y.data + 1
        BY <4>1 DEF Byte
      <4>3. /\ <<x.data + 1>> \in Bytes /\ Len(<<x.data + 1>>) = 1
            /\ <<x.data + 1>>[1] = x.data + 1
            /\ <<y.data + 1>> \in Bytes /\ Len(<<y.data + 1>>) = 1
            /\ <<y.data + 1>>[1] = y.data + 1
        BY <4>2, FewBytes
      <4> QED BY <4>1, <4>2, <4>3, FirstSorts
    <3>2. CASE x.type = Integer
      <4>1. /\ x.data \in -(Power[Number] \div 2) .. Power[Number] \div 2 - 1
            /\ y.data \in -(Power[Number] \div 2) .. Power[Number] \div 2 - 1
            /\ Payload(x) = BigEndian(x.data) /\ Payload(y) = BigEndian(y.data)
            /\ x.data < y.data
        BY <1>2, <3>2, PayloadIs
      <4> QED BY <4>1, BigEndianOrder
    <3>3. CASE x.type \in {UuidType, Float}
      <4>1. /\ x.data \in Bytes /\ y.data \in Bytes /\ Len(x.data) = Len(y.data)
            /\ Payload(x) = x.data /\ Payload(y) = y.data
        BY <1>2, <3>3, PayloadIs
      <4>2. BytesLess(x.data, y.data)
        BY <1>2, <3>3 DEF Type, UuidType, Bool, Integer, Float
      <4> QED BY <4>1, <4>2, SameLength
    <3>4. CASE x.type \in {Text, Json, Blob}
      <4>1. /\ x.data \in Bytes /\ y.data \in Bytes
            /\ Payload(x) = Escaped(x.data) /\ Payload(y) = Escaped(y.data)
        BY <1>2, <3>4, PayloadIs
      <4>2. BytesLess(x.data, y.data)
        BY <1>2, <3>4 DEF Type, Bool, Integer, Text, Json, Blob
      <4> QED BY <4>1, <4>2, EscapedOrder
    <3>5. CASE x.type = Null
      <4>1. x.data = <<>> /\ y.data = <<>>
        BY <1>2, <3>5, PayloadIs
      <4>2. BytesLess(<<>>, <<>>)
        BY <1>2, <3>5, <4>1 DEF Null, Type, Bool, Integer
      <4>3. Len(<<>>) = 0
        BY BytesAre
      <4> QED BY <4>2, <4>3 DEF BytesLess, Lexicographic
    <3> QED BY <1>0, <3>1, <3>2, <3>3, <3>4, <3>5
            DEF Null, Type, UuidType, Bool, Integer, Float, Text, Json, Blob
  <2>2. /\ <<x.type + 1>> \in Bytes /\ Payload(x) \in Bytes /\ Payload(y) \in Bytes
        /\ EncodeValueOrder(x) = <<x.type + 1>> \o Payload(x)
        /\ EncodeValueOrder(y) = <<x.type + 1>> \o Payload(y)
    BY <1>2, ValueBytes
  <2>3. /\ EncodeValueOrder(x) = <<x.type + 1>> \o (Payload(x) \o <<>>)
        /\ EncodeValueOrder(y) = <<x.type + 1>> \o (Payload(y) \o <<>>)
        /\ <<>> \in Bytes
    BY <2>2, BytesAre
  <2> QED BY <2>1, <2>2, <2>3, SortsWithin
<1> QED BY <1>1, <1>2 DEF ValueLess

\* Of two different values one is less.
LEMMA ValueTotal ==
  ASSUME NEW x, IsValue(x), NEW y, IsValue(y), x # y
  PROVE  ValueLess(x, y) \/ ValueLess(y, x)
<1>0. x.type \in 0 .. 8 /\ y.type \in 0 .. 8
  BY PayloadIs
<1>1. CASE x.type # y.type
  <2>1. x.type < y.type \/ y.type < x.type
    BY <1>0, <1>1
  <2> QED BY <2>1 DEF ValueLess
<1>2. CASE x.type = y.type
  <2>1. x.data # y.data
    <3>1. x = [type |-> x.type, data |-> x.data] /\ y = [type |-> y.type, data |-> y.data]
      BY PayloadIs
    <3> QED BY <1>2, <3>1
  <2>2. CASE x.type \in {Type, Bool, Integer}
    <3>1. x.data \in Int /\ y.data \in Int
      <4>1. CASE x.type \in {Type, Bool}
        BY <1>2, <4>1, PayloadIs
      <4>2. CASE x.type = Integer
        <5>1. /\ x.data \in -(Power[Number] \div 2) .. Power[Number] \div 2 - 1
              /\ y.data \in -(Power[Number] \div 2) .. Power[Number] \div 2 - 1
          BY <1>2, <4>2, PayloadIs
        <5> QED BY <5>1, Shifted
      <4> QED BY <2>2, <4>1, <4>2
    <3>2. x.data < y.data \/ y.data < x.data
      BY <2>1, <3>1
    <3> QED BY <1>2, <2>2, <3>2 DEF ValueLess
  <2>3. CASE x.type \notin {Type, Bool, Integer}
    <3>1. x.data \in Bytes /\ y.data \in Bytes
      <4>1. CASE x.type = Null
        BY <1>2, <4>1, PayloadIs, BytesAre
      <4>2. CASE x.type \in {UuidType, Float}
        BY <1>2, <4>2, PayloadIs
      <4>3. CASE x.type \in {Text, Json, Blob}
        BY <1>2, <4>3, PayloadIs
      <4> QED BY <1>0, <2>3, <4>1, <4>2, <4>3
              DEF Null, Type, UuidType, Bool, Integer, Float, Text, Json, Blob
    <3>2. BytesLess(x.data, y.data) \/ BytesLess(y.data, x.data)
      BY <2>1, <3>1, BytesTotal
    <3> QED BY <1>2, <2>3, <3>2 DEF ValueLess
  <2> QED BY <2>2, <2>3
<1> QED BY <1>1, <1>2

\* What is written for each value of a row.
Codes(row) == [i \in DOMAIN row |-> EncodeValueOrder(row[i])]

\* A row is a sequence of values.
LEMMA RowIs ==
  ASSUME NEW row \in Rows
  PROVE  /\ row \in Seq(Values) /\ Len(row) \in Nat
         /\ \A i \in 1 .. Len(row) : IsValue(row[i])
<1>1. PICK n \in 0 .. MaxColumns : row \in [1 .. n -> Values]
  BY DEF Rows
<1>2. n \in Nat
  BY WidthAssumption
<1>3. row \in Seq(Values) /\ Len(row) = n
  BY <1>1, <1>2
<1> QED BY <1>1, <1>2, <1>3, ValueAssumption

\* A key is the values' bytes, one after another, and two zeros (encode_key).
LEMMA CodesAre ==
  ASSUME NEW row \in Rows
  PROVE  /\ Codes(row) \in Seq(Bytes) /\ Len(Codes(row)) = Len(row)
         /\ \A i \in 1 .. Len(row) : Codes(row)[i] = EncodeValueOrder(row[i])
         /\ EncodeKey(row) = FlattenSeq(Codes(row)) \o <<0, 0>>
<1>1. DOMAIN row = 1 .. Len(row) /\ Len(row) \in Nat
  BY RowIs, LenProperties
<1>2. \A i \in 1 .. Len(row) :
        Codes(row)[i] = EncodeValueOrder(row[i]) /\ Codes(row)[i] \in Bytes
  BY <1>1, RowIs, ValueBytes DEF Codes
<1>3. Codes(row) \in [1 .. Len(row) -> Bytes]
  <2>1. Codes(row) = [i \in 1 .. Len(row) |-> Codes(row)[i]]
    BY <1>1 DEF Codes
  <2> QED BY <1>2, <2>1
<1>4. Codes(row) \in Seq(Bytes) /\ Len(Codes(row)) = Len(row)
  BY <1>1, <1>3
<1>5. EncodeKey(row) = FlattenSeq(Codes(row)) \o <<0, 0>>
  BY DEF EncodeKey, Codes
<1> QED BY <1>2, <1>4, <1>5

\* Of rows the less sorts first.
LEMMA RowOrder ==
  ASSUME NEW r \in Rows, NEW s \in Rows, RowLess(r, s)
  PROVE  Sorts(EncodeKey(r), EncodeKey(s))
<1> DEFINE p == Codes(r)
           q == Codes(s)
<1>0. Len(r) \in Nat /\ Len(s) \in Nat
  BY RowIs
<1>1. PICK i \in 1 .. Len(s) :
        /\ \A j \in 1 .. i - 1 : j <= Len(r) /\ r[j] = s[j]
        /\ i > Len(r) \/ ValueLess(r[i], s[i])
  BY DEF RowLess, Lexicographic
<1>2. /\ p \in Seq(Bytes) /\ Len(p) = Len(r) /\ q \in Seq(Bytes) /\ Len(q) = Len(s)
      /\ \A j \in 1 .. Len(r) : p[j] = EncodeValueOrder(r[j])
      /\ \A j \in 1 .. Len(s) : q[j] = EncodeValueOrder(s[j])
  BY CodesAre
<1> HIDE DEF p, q
<1>3. IsValue(s[i])
  BY RowIs
<1>4. ASSUME NEW j \in 1 .. i - 1
      PROVE  j <= Len(p) /\ p[j] = q[j]
  <2>1. j \in 1 .. Len(r) /\ j \in 1 .. Len(s) /\ r[j] = s[j]
    BY <1>0, <1>1
  <2>2. j <= Len(p)
    BY <1>0, <1>2, <2>1
  <2>3. p[j] = q[j]
    BY <1>2, <2>1
  <2> QED BY <2>2, <2>3
<1>5. i <= Len(p) => Sorts(p[i], q[i])
  <2> SUFFICES ASSUME i <= Len(p)
               PROVE  Sorts(p[i], q[i])
    OBVIOUS
  <2>1. i \in 1 .. Len(r) /\ ValueLess(r[i], s[i])
    BY <1>0, <1>1, <1>2
  <2>2. IsValue(r[i])
    BY <2>1, RowIs
  <2>3. Sorts(EncodeValueOrder(r[i]), EncodeValueOrder(s[i]))
    BY <1>3, <2>1, <2>2, ValueOrder
  <2> QED BY <1>2, <2>1, <2>3
<1>6. Sorts(<<0, 0>>, q[i])
  <2>1. /\ q[i] = EncodeValueOrder(s[i]) /\ q[i] \in Bytes
        /\ q[i][1] = s[i].type + 1 /\ Len(q[i]) = 1 + Len(Payload(s[i]))
        /\ Payload(s[i]) \in Bytes
    BY <1>2, <1>3, ValueBytes
  <2>2. Len(q[i]) # 0
    <3>1. Len(Payload(s[i])) \in Nat
      BY <2>1, BytesAre
    <3> QED BY <2>1, <3>1
  <2>3. 0 < q[i][1]
    <3>1. s[i].type \in 0 .. 8
      BY <1>3, PayloadIs
    <3> QED BY <2>1, <3>1
  <2>4. <<0, 0>> \in Bytes /\ Len(<<0, 0>>) = 2 /\ <<0, 0>>[1] = 0
    <3>1. 0 \in Byte
      BY DEF Byte
    <3> QED BY <3>1, FewBytes
  <2>5. Len(<<0, 0>>) # 0 /\ <<0, 0>>[1] < q[i][1]
    BY <2>3, <2>4
  <2> QED BY <2>1, <2>2, <2>4, <2>5, FirstSorts
<1>7. Sorts(FlattenSeq(p) \o <<0, 0>>, FlattenSeq(q) \o <<0, 0>>)
  <2>1. i \in 1 .. Len(q)
    BY <1>2
  <2> QED BY <1>2, <1>4, <1>5, <1>6, <2>1, FlattenedOrder
<1> QED BY <1>7, CodesAre DEF p, q

\* Of two different rows one is less.
LEMMA RowTotal ==
  ASSUME NEW r \in Rows, NEW s \in Rows, r # s
  PROVE  RowLess(r, s) \/ RowLess(s, r)
<1>0. Len(r) \in Nat /\ Len(s) \in Nat /\ r \in Seq(Values) /\ s \in Seq(Values)
  BY RowIs
<1>1. PICK i \in Nat \ {0} :
        /\ \A j \in 1 .. i - 1 : j <= Len(r) /\ j <= Len(s) /\ r[j] = s[j]
        /\ i <= Len(r) \/ i <= Len(s)
        /\ i <= Len(r) /\ i <= Len(s) => r[i] # s[i]
  BY <1>0, FirstDifference
<1>2. CASE i > Len(r)
  <2>1. i \in 1 .. Len(s)
    BY <1>0, <1>1, <1>2
  <2> QED BY <1>1, <1>2, <2>1 DEF RowLess, Lexicographic
<1>3. CASE i > Len(s)
  <2>1. i \in 1 .. Len(r)
    BY <1>0, <1>1, <1>3
  <2> QED BY <1>1, <1>3, <2>1 DEF RowLess, Lexicographic
<1>4. CASE i <= Len(r) /\ i <= Len(s)
  <2>1. i \in 1 .. Len(r) /\ i \in 1 .. Len(s)
    BY <1>0, <1>4
  <2>2. ValueLess(r[i], s[i]) \/ ValueLess(s[i], r[i])
    BY <1>1, <1>4, <2>1, RowIs, ValueTotal
  <2> QED BY <1>1, <2>1, <2>2 DEF RowLess, Lexicographic
<1> QED BY <1>0, <1>2, <1>3, <1>4

\* What a key of an entry of a document has, and its bytes (encode_ordered).
LEMMA ChangeIs ==
  ASSUME NEW k \in ChangeKeys
  PROVE  /\ k = [doc |-> k.doc, type |-> k.type, hash |-> k.hash]
         /\ k.doc \in Bytes /\ k.type \in Byte /\ k.hash \in Bytes
         /\ Escaped(k.doc) \in Bytes /\ <<k.type>> \in Bytes
         /\ Len(<<k.type>>) = 1 /\ <<k.type>>[1] = k.type
         /\ EncodeOrdered(k) = Escaped(k.doc) \o (<<k.type>> \o k.hash)
         /\ EncodeOrdered(k) = (Escaped(k.doc) \o <<k.type>>) \o k.hash
<1>1. k \in [doc : Bytes, type : Byte, hash : Bytes]
  BY ChangeAssumption DEF Bytes
<1>2. Escaped(k.doc) \in Bytes
  BY <1>1, PiecesAre
<1>3. <<k.type>> \in Bytes /\ Len(<<k.type>>) = 1 /\ <<k.type>>[1] = k.type
  BY <1>1, FewBytes
<1>4. EncodeOrdered(k) = (Escaped(k.doc) \o <<k.type>>) \o k.hash
  BY DEF EncodeOrdered
<1>5. EncodeOrdered(k) = Escaped(k.doc) \o (<<k.type>> \o k.hash)
  <2>1. Regroup(Escaped(k.doc), <<k.type>>, k.hash)
    BY <1>1, <1>2, <1>3, <1>4, Associative
  <2> QED BY <1>4, <2>1 DEF Regroup
<1> QED BY <1>1, <1>2, <1>3, <1>4, <1>5

\* Of keys of entries of documents the less sorts first.
LEMMA ChangeOrder ==
  ASSUME NEW k \in ChangeKeys, NEW l \in ChangeKeys, ChangeLess(k, l)
  PROVE  Sorts(EncodeOrdered(k), EncodeOrdered(l))
<1>0. <<>> \in Bytes
  BY BytesAre
<1>1. CASE BytesLess(k.doc, l.doc)
  <2>1. Sorts(Escaped(k.doc), Escaped(l.doc))
    BY <1>1, ChangeIs, EscapedOrder
  <2>2. <<k.type>> \o k.hash \in Bytes /\ <<l.type>> \o l.hash \in Bytes
    BY ChangeIs, Concatenated
  <2>3. Sorts(<<>> \o (Escaped(k.doc) \o (<<k.type>> \o k.hash)),
              <<>> \o (Escaped(l.doc) \o (<<l.type>> \o l.hash)))
    BY <1>0, <2>1, <2>2, ChangeIs, SortsWithin
  <2>4. /\ <<>> \o (Escaped(k.doc) \o (<<k.type>> \o k.hash)) = EncodeOrdered(k)
        /\ <<>> \o (Escaped(l.doc) \o (<<l.type>> \o l.hash)) = EncodeOrdered(l)
    <3>1. /\ Escaped(k.doc) \o (<<k.type>> \o k.hash) \in Bytes
          /\ Escaped(l.doc) \o (<<l.type>> \o l.hash) \in Bytes
      BY <2>2, ChangeIs, Concatenated
    <3> QED BY <3>1, BytesAre, ChangeIs
  <2> QED BY <2>3, <2>4
<1>2. CASE k.doc = l.doc /\ k.type < l.type
  <2>1. Sorts(<<k.type>>, <<l.type>>)
    <3>1. Len(<<k.type>>) # 0 /\ Len(<<l.type>>) # 0 /\ <<k.type>>[1] < <<l.type>>[1]
      BY <1>2, ChangeIs
    <3> QED BY <3>1, ChangeIs, FirstSorts
  <2>2. Sorts(Escaped(k.doc) \o (<<k.type>> \o k.hash), Escaped(k.doc) \o (<<l.type>> \o l.hash))
    BY <2>1, ChangeIs, SortsWithin
  <2> QED BY <1>2, <2>2, ChangeIs
<1>3. CASE k.doc = l.doc /\ k.type = l.type /\ BytesLess(k.hash, l.hash)
  <2>1. Sorts(k.hash, l.hash)
    BY <1>3, ChangeIs, ChangeAssumption, SameLength
  <2> DEFINE s == Escaped(k.doc) \o <<k.type>>
  <2>2. s \in Bytes
    BY ChangeIs, Concatenated
  <2>3. /\ EncodeOrdered(k) = s \o k.hash /\ EncodeOrdered(l) = s \o l.hash
        /\ k.hash \in Bytes /\ l.hash \in Bytes
    BY <1>3, ChangeIs
  <2> HIDE DEF s
  <2>4. EncodeOrdered(k) = s \o (k.hash \o <<>>) /\ EncodeOrdered(l) = s \o (l.hash \o <<>>)
    BY <2>3, BytesAre
  <2> QED BY <1>0, <2>1, <2>2, <2>3, <2>4, SortsWithin
<1> QED BY <1>1, <1>2, <1>3 DEF ChangeLess

-----------------------------------------------------------------------------
(* Decoding *)

\* Indexes of bytes.
Index == Nat \ {0}

\* G[j][f] reads f behind j only, and nothing of it when j is behind N.
ReadsLater(G, S, N) ==
  /\ G \in [Index -> [[Index -> S] -> S]]
  /\ \A f, g \in [Index -> S] : \A j \in Index :
       j > N \/ (\A k \in Index : k > j => f[k] = g[k]) => G[j][f] = G[j][g]

\* f is what G makes of it.
Recurs(f, G, S) == f \in [Index -> S] /\ \A j \in Index : f[j] = G[j][f]

\* A function that reads only its later values, up to a last index, exists.
LEMMA Backwards ==
  ASSUME NEW S, S # {}, NEW N \in Nat, NEW G, ReadsLater(G, S, N)
  PROVE  \E f : Recurs(f, G, S)
<1> USE DEF Index, ReadsLater, Recurs
<1> PICK c \in S : TRUE
  OBVIOUS
<1> DEFINE I == Index
           T == {m \in Nat : \E f \in [I -> S] : \A j \in I : j + m > N => f[j] = G[j][f]}
<1>1. 0 \in T
  <2> DEFINE f0 == [j \in I |-> c]
             f == [j \in I |-> G[j][f0]]
  <2>1. f0 \in [I -> S]
    OBVIOUS
  <2>2. f \in [I -> S]
    <3> HIDE DEF f0
    <3> QED BY <2>1
  <2>3. ASSUME NEW j \in I, j + 0 > N
        PROVE  f[j] = G[j][f]
    <3>1. f[j] = G[j][f0] /\ j > N
      BY <2>3
    <3> HIDE DEF f, f0
    <3>2. G[j][f0] = G[j][f]
      BY <2>1, <2>2, <3>1
    <3> QED BY <3>1, <3>2
  <2> HIDE DEF f
  <2> QED BY <2>2, <2>3
<1>2. ASSUME NEW m \in Nat, m \in T
      PROVE  m + 1 \in T
  <2>1. PICK f \in [I -> S] : \A j \in I : j + m > N => f[j] = G[j][f]
    BY <1>2
  <2>2. CASE N - m \in I
    <3> DEFINE n == N - m
               h == [f EXCEPT ![n] = G[n][f]]
    <3>1. G[n][f] \in S
      BY <2>2
    <3>2. h \in [I -> S] /\ h[n] = G[n][f] /\ \A k \in I : k # n => h[k] = f[k]
      BY <2>2, <3>1
    <3> HIDE DEF h
    <3>3. ASSUME NEW j \in I, j + (m + 1) > N
          PROVE  h[j] = G[j][h]
      <4>1. \A k \in I : k > j => f[k] = h[k]
        <5>1. \A k \in I : k > j => k # n
          BY <2>2, <3>3
        <5> QED BY <3>2, <5>1
      <4>2. G[j][f] = G[j][h]
        BY <3>2, <4>1
      <4>3. CASE j = n
        BY <3>2, <4>2, <4>3
      <4>4. CASE j # n
        <5>1. j + m > N
          BY <2>2, <3>3, <4>4
        <5> QED BY <2>1, <3>2, <4>2, <4>4, <5>1
      <4> QED BY <4>3, <4>4
    <3>4. \E g \in [I -> S] : \A j \in I : j + (m + 1) > N => g[j] = G[j][g]
      BY <3>2, <3>3
    <3> QED BY <3>4
  <2>3. CASE N - m \notin I
    <3>1. \A j \in I : j + m > N
      BY <2>3
    <3>2. \A j \in I : j + (m + 1) > N => f[j] = G[j][f]
      BY <2>1, <3>1
    <3> QED BY <3>2
  <2> QED BY <2>2, <2>3
<1>3. N \in T
  <2> HIDE DEF T
  <2> QED BY <1>1, <1>2, Induction
<1>4. PICK f \in [I -> S] : \A j \in I : j + N > N => f[j] = G[j][f]
  BY <1>3
<1>5. \A j \in I : f[j] = G[j][f]
  BY <1>4
<1> QED BY <1>5

\* SkipEscaped is what its definition says, of every index, and never before it.
LEMMA SkipIs ==
  ASSUME NEW bytes \in Bytes
  PROVE  \A j \in Nat \ {0} :
           /\ SkipEscaped(bytes, j) =
                CASE j > Len(bytes) -> j
                  [] At(bytes, j, <<0, 0>>) -> j + 2
                  [] At(bytes, j, <<0, 255>>) -> SkipEscaped(bytes, j + 2)
                  [] OTHER -> SkipEscaped(bytes, j + 1)
           /\ SkipEscaped(bytes, j) \in Nat /\ SkipEscaped(bytes, j) >= j
<1> DEFINE I == Index
           N == Len(bytes)
           Body(f, j) ==
             CASE j > N -> j
               [] At(bytes, j, <<0, 0>>) -> j + 2
               [] At(bytes, j, <<0, 255>>) -> f[j + 2]
               [] OTHER -> f[j + 1]
           G == [j \in I |-> [f \in [I -> I] |-> Body(f, j)]]
           Is(f) == f = [j \in I |-> Body(f, j)]
           skip == CHOOSE f : Is(f)
<1> USE DEF Index
<1>0. N \in Nat
  BY BytesAre
<1>1. 1 \in I /\ \A j \in I : j + 1 \in I /\ j + 2 \in I
  BY DEF Index
<1> HIDE DEF N
<1>2. G \in [I -> [[I -> I] -> I]]
  BY <1>1
<1>3. ASSUME NEW f \in [I -> I], NEW g \in [I -> I], NEW j \in I,
             j > N \/ (\A k \in I : k > j => f[k] = g[k])
      PROVE  G[j][f] = G[j][g]
  <2>1. Body(f, j) = Body(g, j)
    <3>1. CASE j > N
      <4>1. ~At(bytes, j, <<0, 0>>) /\ ~At(bytes, j, <<0, 255>>)
        BY <1>0, <3>1 DEF At, N
      <4> QED BY <3>1, <4>1
    <3>2. CASE ~(j > N)
      <4>1. f[j + 1] = g[j + 1] /\ f[j + 2] = g[j + 2]
        BY <1>1, <1>3, <3>2
      <4> QED BY <4>1
    <3> QED BY <3>1, <3>2
  <2> QED BY <2>1
<1>4. \E f \in [I -> I] : Is(f)
  <2> HIDE DEF G, Body, Index
  <2>1. I # {}
    BY <1>1
  <2>2. PICK f : Recurs(f, G, I)
    <3>1. ReadsLater(G, I, N)
      BY <1>2, <1>3 DEF ReadsLater
    <3> QED BY <1>0, <2>1, <3>1, Backwards
  <2>3. f \in [I -> I] /\ \A j \in I : f[j] = G[j][f]
    BY <2>2 DEF Recurs
  <2>4. \A j \in I : G[j][f] = Body(f, j)
    BY <2>3 DEF G
  <2>5. Is(f)
    BY <2>3, <2>4
  <2> HIDE DEF Is
  <2> QED BY <2>3, <2>5
<1>5. Is(skip)
  <2> HIDE DEF Is
  <2> QED BY <1>4
<1> HIDE DEF skip
<1>6. \A j \in I : skip[j] = Body(skip, j)
  BY <1>5
<1>7. \A j \in I : SkipEscaped(bytes, j) = skip[j]
  BY DEF SkipEscaped, skip, N
<1> DEFINE T == {m \in Nat : \A j \in I : j + m > N => skip[j] \in Nat /\ skip[j] >= j}
<1>8. 0 \in T
  <2>1. ASSUME NEW j \in I, j + 0 > N
        PROVE  skip[j] = j
    <3>1. j > N
      BY <1>0, <2>1
    <3>2. ~At(bytes, j, <<0, 0>>) /\ ~At(bytes, j, <<0, 255>>)
      BY <1>0, <3>1 DEF At, N
    <3> QED BY <1>6, <3>1, <3>2
  <2> QED BY <2>1
<1>9. ASSUME NEW m \in Nat, m \in T
      PROVE  m + 1 \in T
  <2>1. ASSUME NEW j \in I, j + (m + 1) > N
        PROVE  skip[j] \in Nat /\ skip[j] >= j
    <3>1. \A k \in I : k > j => skip[k] \in Nat /\ skip[k] >= k
      <4>1. \A k \in I : k > j => k + m > N
        BY <1>0, <2>1
      <4> QED BY <1>9, <4>1
    <3>2. skip[j + 1] \in Nat /\ skip[j + 1] >= j /\ skip[j + 2] \in Nat /\ skip[j + 2] >= j
      <4>1. j + 1 \in I /\ j + 1 > j /\ j + 2 \in I /\ j + 2 > j
        OBVIOUS
      <4>2. /\ skip[j + 1] \in Nat /\ skip[j + 1] >= j + 1
            /\ skip[j + 2] \in Nat /\ skip[j + 2] >= j + 2
        BY <3>1, <4>1
      <4> QED BY <4>2
    <3>3. Body(skip, j) \in {j, j + 2, skip[j + 1], skip[j + 2]}
      OBVIOUS
    <3>4. skip[j] \in {j, j + 2, skip[j + 1], skip[j + 2]}
      BY <1>6, <3>3
    <3> QED BY <3>2, <3>4
  <2> QED BY <2>1
<1>10. \A j \in I : skip[j] \in Nat /\ skip[j] >= j
  <2>1. N \in T
    <3> HIDE DEF T
    <3> QED BY <1>0, <1>8, <1>9, Induction
  <2>2. \A j \in I : j + N > N
    BY <1>0
  <2> QED BY <2>1, <2>2
<1> QED BY <1>1, <1>6, <1>7, <1>10 DEF N

\* Bytes between others, in what they make together.
Framed(a, b, c) ==
  /\ a \o (b \o c) \in Bytes
  /\ Len(a \o (b \o c)) = Len(a) + Len(b) + Len(c)
  /\ \A i \in 1 .. Len(b) : (a \o (b \o c))[Len(a) + i] = b[i]
  /\ \A i \in 1 .. Len(c) : (a \o (b \o c))[Len(a) + Len(b) + i] = c[i]

\* Bytes between others are found behind the ones before them.
LEMMA Between ==
  ASSUME NEW a \in Bytes, NEW b \in Bytes, NEW c \in Bytes
  PROVE  Framed(a, b, c)
<1>0. Len(a) \in Nat /\ Len(b) \in Nat /\ Len(c) \in Nat
  BY BytesAre
<1>1. /\ b \o c \in Bytes /\ Len(b \o c) = Len(b) + Len(c)
      /\ \A i \in 1 .. Len(b) : (b \o c)[i] = b[i]
      /\ \A i \in 1 .. Len(c) : (b \o c)[Len(b) + i] = c[i]
  BY Concatenated
<1>2. /\ a \o (b \o c) \in Bytes /\ Len(a \o (b \o c)) = Len(a) + (Len(b) + Len(c))
      /\ \A i \in 1 .. Len(b) + Len(c) : (a \o (b \o c))[Len(a) + i] = (b \o c)[i]
  BY <1>1, Concatenated
<1>3. \A i \in 1 .. Len(b) : (a \o (b \o c))[Len(a) + i] = b[i]
  <2>1. \A i \in 1 .. Len(b) : i \in 1 .. Len(b) + Len(c)
    BY <1>0
  <2> QED BY <1>1, <1>2, <2>1
<1>4. ASSUME NEW i \in 1 .. Len(c)
      PROVE  (a \o (b \o c))[Len(a) + Len(b) + i] = c[i]
  <2>1. Len(b) + i \in 1 .. Len(b) + Len(c)
    BY <1>0
  <2>2. (a \o (b \o c))[Len(a) + (Len(b) + i)] = c[i]
    BY <1>1, <1>2, <2>1
  <2>3. Len(a) + (Len(b) + i) = Len(a) + Len(b) + i
    BY <1>0
  <2> QED BY <2>2, <2>3
<1>5. Len(a) + (Len(b) + Len(c)) = Len(a) + Len(b) + Len(c)
  BY <1>0
<1> QED BY <1>2, <1>3, <1>4, <1>5 DEF Framed

\* Escaped bytes s between others.
EscapedIn(s, b, c, bytes) ==
  s \in Bytes /\ b \in Bytes /\ c \in Bytes /\ bytes = b \o (Escaped(s) \o c)

\* What a decoder finds of escaped bytes s, which follow b and precede c: u[m] are
\* the first m of them, escaped.
LEMMA EscapedAt ==
  ASSUME NEW s, NEW b, NEW c, NEW bytes, EscapedIn(s, b, c, bytes),
         NEW u, Partials(Pieces(s), u)
  PROVE  /\ bytes \in Bytes /\ \A m \in 0 .. Len(s) : u[m] \in Bytes
         /\ \A m \in 0 .. Len(s) - 1 :
              LET j == Len(b) + Len(u[m]) + 1
              IN  /\ j \in Nat \ {0} /\ j < Len(bytes) /\ ~At(bytes, j, <<0, 0>>)
                  /\ s[m + 1] = 0 => /\ At(bytes, j, <<0, 255>>)
                                     /\ Len(u[m + 1]) = Len(u[m]) + 2
                  /\ s[m + 1] # 0 => /\ ~At(bytes, j, <<0, 255>>)
                                     /\ bytes[j] = s[m + 1]
                                     /\ Len(u[m + 1]) = Len(u[m]) + 1
         /\ LET j == Len(b) + Len(u[Len(s)]) + 1
            IN  /\ j \in Nat \ {0} /\ j < Len(bytes) /\ At(bytes, j, <<0, 0>>)
                /\ Len(Escaped(s)) = Len(u[Len(s)]) + 2
<1> DEFINE n == Len(s)
           p == Pieces(s)
           F == FlattenSeq(p)
<1>10. s \in Bytes
  BY DEF EscapedIn
<1>11. b \in Bytes
  BY DEF EscapedIn
<1>12. c \in Bytes
  BY DEF EscapedIn
<1>0. n \in Nat /\ Len(b) \in Nat /\ 0 \in Byte /\ 255 \in Byte
  BY <1>10, <1>11, BytesAre DEF Byte
<1>1. /\ p \in Seq(Bytes) /\ Len(p) = n /\ Escaped(s) = F \o <<0, 0>> /\ Escaped(s) \in Bytes
      /\ \A i \in 1 .. n : p[i] = (IF s[i] = 0 THEN <<0, 255>> ELSE <<s[i]>>) /\ p[i] \in Bytes
  BY <1>10, PiecesAre
<1>2. \A m \in 0 .. n : u[m] \in Bytes
  BY <1>1 DEF Partials
<1>3. <<0, 0>> \in Bytes /\ <<0, 255>> \in Bytes
  BY PairsOfBytes
<1>8. /\ Len(<<0, 0>>) = 2 /\ <<0, 0>>[1] = 0 /\ <<0, 0>>[2] = 0
      /\ Len(<<0, 255>>) = 2 /\ <<0, 255>>[1] = 0 /\ <<0, 255>>[2] = 255
  BY <1>0, FewBytes
<1>4. <<0, 0>> \o c \in Bytes
  BY <1>3, <1>12, Concatenated
<1>9. Len(<<0, 0>> \o c) = 2 + Len(c) /\ Len(c) \in Nat
  <2>1. Len(<<0, 0>> \o c) = Len(<<0, 0>>) + Len(c)
    BY <1>3, <1>12, Concatenated
  <2> QED BY <1>8, <1>12, <2>1, BytesAre
<1>5. bytes \in Bytes
  <2>1. Escaped(s) \o c \in Bytes
    BY <1>1, <1>12, Concatenated
  <2> QED BY <1>11, <2>1, Concatenated DEF EscapedIn
<1> HIDE DEF n, p, F
<1>6. ASSUME NEW m \in 0 .. n - 1, NEW j, j = Len(b) + Len(u[m]) + 1
      PROVE  /\ j \in Nat \ {0} /\ j < Len(bytes) /\ ~At(bytes, j, <<0, 0>>)
             /\ s[m + 1] = 0 => /\ At(bytes, j, <<0, 255>>)
                                /\ Len(u[m + 1]) = Len(u[m]) + 2
             /\ s[m + 1] # 0 => /\ ~At(bytes, j, <<0, 255>>)
                                /\ bytes[j] = s[m + 1]
                                /\ Len(u[m + 1]) = Len(u[m]) + 1
  <2>0. m + 1 \in 1 .. n /\ (m + 1) - 1 = m /\ m \in 0 .. n
    BY <1>0
  <2> DEFINE q == p[m + 1]
  <2>1. u[m] \in Bytes /\ q \in Bytes
    BY <1>1, <1>2, <2>0
  <2>2. u[m + 1] = u[m] \o q
    BY <1>1, <2>0 DEF Partials, p
  <2>3. PICK x : x \in Bytes /\ F = u[m] \o (q \o x)
    <3>1. Partials(p, u) /\ m + 1 \in 1 .. Len(p)
      BY <1>1, <2>0 DEF p
    <3>2. \E x \in Bytes : F = u[(m + 1) - 1] \o (p[m + 1] \o x)
      <4>1. Splits(p, u, m + 1)
        BY <1>1, <3>1, Split
      <4> QED BY <4>1 DEF Splits, F
    <3> QED BY <2>0, <3>2
  <2> HIDE DEF q
  <2> DEFINE d == b \o u[m]
             e == x \o (<<0, 0>> \o c)
  <2>12. x \in Bytes
    BY <2>3
  <2>4. d \in Bytes /\ e \in Bytes
    <3>1. d \in Bytes
      BY <1>11, <2>1, Concatenated
    <3>2. e \in Bytes
      BY <1>4, <2>12, Concatenated
    <3> QED BY <3>1, <3>2
  <2>11. Len(d) = Len(b) + Len(u[m]) /\ Len(e) = Len(x) + (2 + Len(c))
    <3>1. Len(d) = Len(b) + Len(u[m])
      BY <1>11, <2>1, Concatenated
    <3>2. Len(e) = Len(x) + Len(<<0, 0>> \o c)
      BY <1>4, <2>12, Concatenated
    <3> QED BY <1>9, <3>1, <3>2
  <2>5. bytes = d \o (q \o e)
    <3>1. Escaped(s) \o c = F \o (<<0, 0>> \o c)
      <4>1. F \in Bytes
        BY <1>1, FlattenedBytes DEF F
      <4>2. (F \o <<0, 0>>) \o c = F \o (<<0, 0>> \o c)
        <5>1. Regroup(F, <<0, 0>>, c)
          BY <1>3, <1>12, <4>1, Associative
        <5> QED BY <5>1 DEF Regroup
      <4> QED BY <1>1, <4>2
    <3>2. F \o (<<0, 0>> \o c) = u[m] \o ((q \o x) \o (<<0, 0>> \o c))
      <4>1. q \o x \in Bytes
        BY <2>1, <2>12, Concatenated
      <4>2. (u[m] \o (q \o x)) \o (<<0, 0>> \o c) = u[m] \o ((q \o x) \o (<<0, 0>> \o c))
        <5>1. Regroup(u[m], q \o x, <<0, 0>> \o c)
          BY <1>4, <2>1, <4>1, Associative
        <5> QED BY <5>1 DEF Regroup
      <4> QED BY <2>3, <4>2
    <3>3. (q \o x) \o (<<0, 0>> \o c) = q \o e
      <4>1. Regroup(q, x, <<0, 0>> \o c)
        BY <1>4, <2>1, <2>12, Associative
      <4> QED BY <4>1 DEF Regroup
    <3>4. b \o (u[m] \o (q \o e)) = d \o (q \o e)
      <4>1. q \o e \in Bytes
        BY <2>1, <2>4, Concatenated
      <4>2. Regroup(b, u[m], q \o e)
        BY <1>11, <2>1, <4>1, Associative
      <4> QED BY <4>2 DEF Regroup
    <3> QED BY <3>1, <3>2, <3>3, <3>4 DEF EscapedIn
  <2> HIDE DEF d, e
  <2>6. /\ Len(bytes) = Len(d) + Len(q) + Len(e)
        /\ \A i \in 1 .. Len(q) : bytes[Len(d) + i] = q[i]
    <3>1. /\ Len(d \o (q \o e)) = Len(d) + Len(q) + Len(e)
          /\ \A i \in 1 .. Len(q) : (d \o (q \o e))[Len(d) + i] = q[i]
      <4>1. Framed(d, q, e)
        BY <2>1, <2>4, Between
      <4> QED BY <4>1 DEF Framed
    <3> QED BY <2>5, <3>1
  <2>7. Len(u[m]) \in Nat /\ Len(q) \in Nat /\ Len(x) \in Nat /\ Len(u[m + 1]) = Len(u[m]) + Len(q)
    <3>1. Len(u[m]) \in Nat /\ Len(q) \in Nat /\ Len(x) \in Nat
      BY <2>1, <2>12, BytesAre
    <3>2. Len(u[m + 1]) = Len(u[m]) + Len(q)
      BY <2>1, <2>2, Concatenated
    <3> QED BY <3>1, <3>2
  <2>8. j = Len(d) + 1 /\ j \in Nat \ {0} /\ Len(d) \in Nat /\ Len(e) >= 2 /\ Len(e) \in Int
    BY <1>0, <1>9, <1>6, <2>7, <2>11
  <2>9. CASE s[m + 1] = 0
    <3>1. q = <<0, 255>>
      BY <1>1, <2>0, <2>9 DEF q
    <3>2. Len(q) = 2 /\ q[1] = 0 /\ q[2] = 255
      BY <1>8, <3>1
    <3>3. bytes[j] = 0 /\ bytes[j + 1] = 255
      <4>1. 1 \in 1 .. Len(q) /\ 2 \in 1 .. Len(q) /\ j + 1 = Len(d) + 2
        BY <2>8, <3>2
      <4> QED BY <2>6, <2>8, <3>2, <4>1
    <3>4. j < Len(bytes)
      BY <2>6, <2>8, <3>2
    <3>5. ~At(bytes, j, <<0, 0>>) /\ At(bytes, j, <<0, 255>>)
      BY <1>8, <3>3, <3>4 DEF At
    <3> QED BY <2>7, <2>8, <2>9, <3>2, <3>4, <3>5
  <2>10. CASE s[m + 1] # 0
    <3>1. q = <<s[m + 1]>>
      BY <1>1, <2>0, <2>10 DEF q
    <3>2. s[m + 1] \in Byte
      BY <1>10, <2>0, BytesAre DEF n
    <3>3. Len(q) = 1 /\ q[1] = s[m + 1]
      BY <3>1, <3>2, FewBytes
    <3>4. bytes[j] = s[m + 1]
      <4>1. 1 \in 1 .. Len(q)
        BY <3>3
      <4> QED BY <2>6, <2>8, <3>3, <4>1
    <3>5. j < Len(bytes)
      BY <2>6, <2>8, <3>3
    <3>6. ~At(bytes, j, <<0, 0>>) /\ ~At(bytes, j, <<0, 255>>)
      BY <1>8, <2>10, <3>4 DEF At
    <3> QED BY <2>7, <2>8, <2>10, <3>3, <3>4, <3>5, <3>6
  <2> QED BY <2>9, <2>10
<1>7. ASSUME NEW j, j = Len(b) + Len(u[n]) + 1
      PROVE  /\ j \in Nat \ {0} /\ j < Len(bytes) /\ At(bytes, j, <<0, 0>>)
             /\ Len(Escaped(s)) = Len(u[n]) + 2
  <2>1. F = u[n] /\ u[n] \in Bytes
    <3>1. Partials(p, u)
      BY DEF p
    <3>2. FlattenSeq(p) = u[Len(p)]
      BY <1>1, <3>1, FlattenIs
    <3> QED BY <1>0, <1>1, <1>2, <3>2 DEF F
  <2>2. Len(Escaped(s)) = Len(u[n]) + 2
    <3>1. Len(u[n] \o <<0, 0>>) = Len(u[n]) + Len(<<0, 0>>)
      BY <1>3, <2>1, Concatenated
    <3> QED BY <1>1, <1>8, <2>1, <3>1
  <2> DEFINE d == b \o u[n]
  <2>3. d \in Bytes /\ Len(d) = Len(b) + Len(u[n]) /\ Len(u[n]) \in Nat
    <3>1. d \in Bytes /\ Len(d) = Len(b) + Len(u[n])
      BY <1>11, <2>1, Concatenated
    <3> QED BY <2>1, <3>1, BytesAre
  <2>4. bytes = d \o (<<0, 0>> \o c)
    <3>1. (u[n] \o <<0, 0>>) \o c = u[n] \o (<<0, 0>> \o c)
      <4>1. Regroup(u[n], <<0, 0>>, c)
        BY <1>3, <1>12, <2>1, Associative
      <4> QED BY <4>1 DEF Regroup
    <3>2. b \o (u[n] \o (<<0, 0>> \o c)) = d \o (<<0, 0>> \o c)
      <4>1. Regroup(b, u[n], <<0, 0>> \o c)
        BY <1>4, <1>11, <2>1, Associative
      <4> QED BY <4>1 DEF Regroup
    <3> QED BY <1>1, <2>1, <3>1, <3>2 DEF EscapedIn
  <2> HIDE DEF d
  <2>5. /\ Len(bytes) = Len(d) + 2 + Len(c)
        /\ bytes[Len(d) + 1] = 0 /\ bytes[Len(d) + 2] = 0
    <3> DEFINE z == <<0, 0>>
    <3>1. d \in Bytes /\ z \in Bytes
      BY <1>3, <2>3
    <3>2. Len(z) = 2 /\ z[1] = 0 /\ z[2] = 0 /\ bytes = d \o (z \o c)
      BY <1>8, <2>4
    <3> HIDE DEF z
    <3>3. /\ Len(d \o (z \o c)) = Len(d) + Len(z) + Len(c)
          /\ \A i \in 1 .. Len(z) : (d \o (z \o c))[Len(d) + i] = z[i]
      <4>1. Framed(d, z, c)
        BY <1>12, <3>1, Between
      <4> QED BY <4>1 DEF Framed
    <3>4. 1 \in 1 .. Len(z) /\ 2 \in 1 .. Len(z)
      BY <3>2
    <3> QED BY <3>2, <3>3, <3>4
  <2>6. j = Len(d) + 1 /\ j + 1 = Len(d) + 2 /\ j \in Nat \ {0} /\ j < Len(bytes)
    BY <1>0, <1>9, <1>7, <2>3, <2>5
  <2>7. At(bytes, j, <<0, 0>>)
    BY <1>8, <2>5, <2>6 DEF At
  <2> QED BY <2>2, <2>6, <2>7
<1> QED BY <1>2, <1>5, <1>6, <1>7 DEF n

\* The index behind escaped bytes.
LEMMA SkipsEscaped ==
  ASSUME NEW s, NEW b, NEW c, NEW bytes, EscapedIn(s, b, c, bytes)
  PROVE  /\ bytes \in Bytes /\ Len(b) + 1 \in Nat \ {0}
         /\ SkipEscaped(bytes, Len(b) + 1) = Len(b) + Len(Escaped(s)) + 1
<1> DEFINE n == Len(s)
<1>0. s \in Bytes /\ b \in Bytes /\ n \in Nat /\ Len(b) \in Nat
  BY BytesAre DEF EscapedIn
<1>1. PICK u : Partials(Pieces(s), u)
  BY <1>0, PiecesAre, PartialsExist
<1>2. /\ bytes \in Bytes /\ \A m \in 0 .. n : u[m] \in Bytes
      /\ \A m \in 0 .. n - 1 :
           LET j == Len(b) + Len(u[m]) + 1
           IN  /\ j \in Nat \ {0} /\ j < Len(bytes) /\ ~At(bytes, j, <<0, 0>>)
               /\ s[m + 1] = 0 => At(bytes, j, <<0, 255>>) /\ Len(u[m + 1]) = Len(u[m]) + 2
               /\ s[m + 1] # 0 => /\ ~At(bytes, j, <<0, 255>>)
                                  /\ Len(u[m + 1]) = Len(u[m]) + 1
      /\ LET j == Len(b) + Len(u[n]) + 1
         IN  /\ j \in Nat \ {0} /\ j < Len(bytes) /\ At(bytes, j, <<0, 0>>)
             /\ Len(Escaped(s)) = Len(u[n]) + 2
  BY <1>1, EscapedAt
<1> DEFINE skip(m) == SkipEscaped(bytes, Len(b) + Len(u[m]) + 1)
           T == {m \in Nat : m <= n => skip(m) = SkipEscaped(bytes, Len(b) + 1)}
<1> HIDE DEF n
<1>3. Len(bytes) \in Nat
  BY <1>2, BytesAre
<1>4. 0 \in T
  <2>1. Len(u[0]) = 0
    BY <1>1, BytesAre DEF Partials
  <2>2. Len(b) + Len(u[0]) + 1 = Len(b) + 1
    BY <1>0, <2>1
  <2> QED BY <2>2
<1>5. ASSUME NEW m \in Nat, m \in T
      PROVE  m + 1 \in T
  <2>1. CASE m + 1 <= n
    <3> DEFINE j == Len(b) + Len(u[m]) + 1
    <3>1. m \in 0 .. n - 1 /\ m \in 0 .. n /\ m <= n
      BY <1>0, <2>1
    <3>2. /\ j \in Nat \ {0} /\ j < Len(bytes) /\ ~At(bytes, j, <<0, 0>>)
          /\ s[m + 1] = 0 => At(bytes, j, <<0, 255>>) /\ Len(u[m + 1]) = Len(u[m]) + 2
          /\ s[m + 1] # 0 => /\ ~At(bytes, j, <<0, 255>>)
                             /\ Len(u[m + 1]) = Len(u[m]) + 1
      BY <1>2, <3>1
    <3>3. Len(u[m]) \in Nat
      BY <1>2, <3>1, BytesAre
    <3>4. skip(m) = SkipEscaped(bytes, Len(b) + 1) /\ skip(m) = SkipEscaped(bytes, j)
      BY <1>5, <3>1
    <3>5. skip(m + 1) = SkipEscaped(bytes, j)
      <4>1. ~(j > Len(bytes))
        BY <1>3, <3>2
      <4>2. CASE s[m + 1] = 0
        <5>1. SkipEscaped(bytes, j) = SkipEscaped(bytes, j + 2)
          BY <1>2, <3>2, <4>1, <4>2, SkipIs
        <5>2. Len(b) + Len(u[m + 1]) + 1 = j + 2
          BY <1>0, <3>2, <3>3, <4>2
        <5> QED BY <5>1, <5>2
      <4>3. CASE s[m + 1] # 0
        <5>1. SkipEscaped(bytes, j) = SkipEscaped(bytes, j + 1)
          BY <1>2, <3>2, <4>1, <4>3, SkipIs
        <5>2. Len(b) + Len(u[m + 1]) + 1 = j + 1
          <6>1. Len(u[m + 1]) = Len(u[m]) + 1
            BY <3>2, <4>3
          <6> QED BY <1>0, <3>3, <6>1
        <5> QED BY <5>1, <5>2
      <4> QED BY <4>2, <4>3
    <3> HIDE DEF skip
    <3>6. skip(m + 1) = SkipEscaped(bytes, Len(b) + 1)
      BY <3>4, <3>5
    <3> QED BY <3>6
  <2>2. CASE ~(m + 1 <= n)
    BY <2>2
  <2> QED BY <2>1, <2>2
<1>6. n \in T
  <2> HIDE DEF T
  <2> QED BY <1>0, <1>4, <1>5, Induction
<1>7. skip(n) = Len(b) + Len(Escaped(s)) + 1
  <2> DEFINE j == Len(b) + Len(u[n]) + 1
  <2>1. /\ j \in Nat \ {0} /\ j < Len(bytes) /\ At(bytes, j, <<0, 0>>)
        /\ Len(Escaped(s)) = Len(u[n]) + 2
    BY <1>2
  <2>2. ~(j > Len(bytes)) /\ ~At(bytes, j, <<0, 255>>)
    BY <1>3, <2>1 DEF At
  <2>3. SkipEscaped(bytes, j) = j + 2
    BY <1>2, <2>1, <2>2, SkipIs
  <2>4. Len(u[n]) \in Nat
    BY <1>0, <1>2, BytesAre
  <2>5. j + 2 = Len(b) + Len(Escaped(s)) + 1
    BY <1>0, <2>1, <2>4
  <2> QED BY <2>3, <2>5
<1>8. skip(n) = SkipEscaped(bytes, Len(b) + 1)
  <2> HIDE DEF skip
  <2> QED BY <1>0, <1>6
<1> QED BY <1>0, <1>2, <1>7, <1>8

\* Unescaped is what its definition says, of every index.
LEMMA UnescapedIs ==
  ASSUME NEW bytes \in Bytes
  PROVE  \A j \in Nat \ {0} :
           /\ Unescaped(bytes, j) =
                CASE j >= Len(bytes) \/ At(bytes, j, <<0, 0>>) -> <<>>
                  [] At(bytes, j, <<0, 255>>) -> <<0>> \o Unescaped(bytes, j + 2)
                  [] OTHER -> <<bytes[j]>> \o Unescaped(bytes, j + 1)
           /\ Unescaped(bytes, j) \in Bytes
<1> USE DEF Index
<1> DEFINE I == Index
           N == Len(bytes)
           Body(f, j) ==
             CASE j >= N \/ At(bytes, j, <<0, 0>>) -> <<>>
               [] At(bytes, j, <<0, 255>>) -> <<0>> \o f[j + 2]
               [] OTHER -> <<bytes[j]>> \o f[j + 1]
           G == [j \in I |-> [f \in [I -> Bytes] |-> Body(f, j)]]
           Is(f) == f = [j \in I |-> Body(f, j)]
           rest == CHOOSE f : Is(f)
<1>0. N \in Nat
  BY BytesAre
<1>1. \A j \in I : j + 1 \in I /\ j + 2 \in I
  OBVIOUS
<1>9. \A j \in I : j < N => <<bytes[j]>> \in Bytes
  <2> SUFFICES ASSUME NEW j \in I, j < N
               PROVE  <<bytes[j]>> \in Bytes
    OBVIOUS
  <2>1. bytes[j] \in Byte
    <3>1. j \in 1 .. Len(bytes)
      BY <1>0
    <3> QED BY <3>1, BytesAre
  <2> QED BY <2>1, FewBytes
<1>10. <<0>> \in Bytes /\ <<>> \in Bytes
  <2>1. 0 \in Byte
    BY DEF Byte
  <2> QED BY <2>1, BytesAre, FewBytes
<1>11. \A j \in I : j >= N => ~At(bytes, j, <<0, 255>>)
  BY <1>0 DEF At
<1>12. \A j \in I : ~(At(bytes, j, <<0, 0>>) /\ At(bytes, j, <<0, 255>>))
  BY DEF At
<1> HIDE DEF N
<1>13. ASSUME NEW f \in [I -> Bytes], NEW j \in I
       PROVE  Body(f, j) \in Bytes
  <2>1. f[j + 1] \in Bytes /\ f[j + 2] \in Bytes
    BY <1>1
  <2>2. <<0>> \o f[j + 2] \in Bytes
    BY <1>10, <2>1, Concatenated
  <2>3. CASE j >= N \/ At(bytes, j, <<0, 0>>)
    BY <1>10, <1>11, <1>12, <2>3
  <2>4. CASE ~(j >= N \/ At(bytes, j, <<0, 0>>)) /\ At(bytes, j, <<0, 255>>)
    BY <2>2, <2>4
  <2>5. CASE ~(j >= N \/ At(bytes, j, <<0, 0>>)) /\ ~At(bytes, j, <<0, 255>>)
    <3>1. <<bytes[j]>> \in Bytes
      BY <1>0, <1>9, <2>5
    <3>2. <<bytes[j]>> \o f[j + 1] \in Bytes
      BY <2>1, <3>1, Concatenated
    <3> QED BY <2>5, <3>2
  <2> QED BY <2>3, <2>4, <2>5
<1>2. G \in [I -> [[I -> Bytes] -> Bytes]]
  <2> HIDE DEF Body
  <2> QED BY <1>13
<1>3. ASSUME NEW f \in [I -> Bytes], NEW g \in [I -> Bytes], NEW j \in I,
             j > N \/ (\A k \in I : k > j => f[k] = g[k])
      PROVE  G[j][f] = G[j][g]
  <2>1. Body(f, j) = Body(g, j)
    <3>1. CASE j > N
      <4>1. j >= N /\ ~At(bytes, j, <<0, 255>>)
        BY <1>0, <1>11, <3>1
      <4> QED BY <4>1
    <3>2. CASE ~(j > N)
      <4>1. f[j + 1] = g[j + 1] /\ f[j + 2] = g[j + 2]
        BY <1>1, <1>3, <3>2
      <4> QED BY <4>1
    <3> QED BY <3>1, <3>2
  <2> QED BY <2>1
<1>4. \E f \in [I -> Bytes] : Is(f)
  <2> HIDE DEF G, Body, Index
  <2>1. Bytes # {}
    BY <1>10
  <2>2. PICK f : Recurs(f, G, Bytes)
    <3>1. ReadsLater(G, Bytes, N)
      BY <1>2, <1>3 DEF ReadsLater
    <3> QED BY <1>0, <2>1, <3>1, Backwards
  <2>3. f \in [I -> Bytes] /\ \A j \in I : f[j] = G[j][f]
    BY <2>2 DEF Recurs
  <2>4. \A j \in I : G[j][f] = Body(f, j)
    BY <2>3 DEF G
  <2>5. Is(f)
    BY <2>3, <2>4
  <2> HIDE DEF Is
  <2> QED BY <2>3, <2>5
<1>5. Is(rest)
  <2> HIDE DEF Is
  <2> QED BY <1>4
<1> HIDE DEF rest
<1>6. \A j \in I : rest[j] = Body(rest, j)
  BY <1>5
<1>7. \A j \in I : Unescaped(bytes, j) = rest[j]
  BY DEF Unescaped, rest, N
<1> DEFINE T == {m \in Nat : \A j \in I : j + m > N => rest[j] \in Bytes}
<1>8. 0 \in T
  <2>1. ASSUME NEW j \in I, j + 0 > N
        PROVE  rest[j] \in Bytes
    <3>1. j >= N /\ ~At(bytes, j, <<0, 255>>)
      BY <1>0, <1>11, <2>1
    <3>2. rest[j] = <<>>
      BY <1>6, <3>1
    <3> QED BY <1>10, <3>2
  <2> QED BY <2>1
<1>14. ASSUME NEW m \in Nat, m \in T
       PROVE  m + 1 \in T
  <2>1. ASSUME NEW j \in I, j + (m + 1) > N
        PROVE  rest[j] \in Bytes
    <3>1. rest[j + 1] \in Bytes /\ rest[j + 2] \in Bytes
      <4>1. /\ j + 1 \in I /\ j + 2 \in I /\ (j + 1) + m > N /\ (j + 2) + m > N
        BY <1>0, <2>1
      <4> QED BY <1>14, <4>1
    <3> DEFINE g == [k \in I |-> IF k = j + 1 \/ k = j + 2 THEN rest[k] ELSE <<>>]
    <3>2. g \in [I -> Bytes] /\ g[j + 1] = rest[j + 1] /\ g[j + 2] = rest[j + 2]
      BY <1>1, <1>10, <3>1
    <3> HIDE DEF g
    <3>3. Body(g, j) = Body(rest, j)
      BY <3>2
    <3>4. Body(g, j) \in Bytes
      <4> HIDE DEF Body
      <4> QED BY <1>13, <3>2
    <3> HIDE DEF Body
    <3> QED BY <1>6, <3>3, <3>4
  <2> QED BY <2>1
<1>15. \A j \in I : rest[j] \in Bytes
  <2>1. N \in T
    <3> HIDE DEF T
    <3> QED BY <1>0, <1>8, <1>14, Induction
  <2>2. \A j \in I : j + N > N
    BY <1>0
  <2> QED BY <2>1, <2>2
<1> QED BY <1>1, <1>6, <1>7, <1>15 DEF N

\* Escaped bytes are found again.
LEMMA UnescapesEscaped ==
  ASSUME NEW s, NEW c, NEW bytes, EscapedIn(s, <<>>, c, bytes)
  PROVE  Unescaped(bytes, 1) = s
<1> DEFINE n == Len(s)
<1>0. s \in Bytes /\ n \in Nat
  BY BytesAre DEF EscapedIn
<1>1. PICK u : Partials(Pieces(s), u)
  BY <1>0, PiecesAre, PartialsExist
<1>2. /\ bytes \in Bytes /\ \A m \in 0 .. n : u[m] \in Bytes
      /\ \A m \in 0 .. n - 1 :
           LET j == Len(<<>>) + Len(u[m]) + 1
           IN  /\ j \in Nat \ {0} /\ j < Len(bytes) /\ ~At(bytes, j, <<0, 0>>)
               /\ s[m + 1] = 0 => At(bytes, j, <<0, 255>>) /\ Len(u[m + 1]) = Len(u[m]) + 2
               /\ s[m + 1] # 0 => /\ ~At(bytes, j, <<0, 255>>)
                                  /\ bytes[j] = s[m + 1]
                                  /\ Len(u[m + 1]) = Len(u[m]) + 1
      /\ LET j == Len(<<>>) + Len(u[n]) + 1
         IN  j \in Nat \ {0} /\ j < Len(bytes) /\ At(bytes, j, <<0, 0>>)
  BY <1>1, EscapedAt
<1>3. /\ Len(bytes) \in Nat /\ \A m \in 0 .. n : Len(u[m]) \in Nat
      /\ \A m \in 0 .. n : Len(<<>>) + Len(u[m]) + 1 = Len(u[m]) + 1
  <2>1. Len(bytes) \in Nat /\ \A m \in 0 .. n : Len(u[m]) \in Nat
    BY <1>2, BytesAre
  <2>2. Len(<<>>) = 0
    BY BytesAre
  <2> QED BY <2>1, <2>2
<1> DEFINE rest(m) == Unescaped(bytes, Len(u[m]) + 1)
           T == {m \in Nat : m <= n => SubSeq(s, 1, m) \o rest(m) = Unescaped(bytes, 1)}
<1> HIDE DEF n
<1>4. 0 \in T
  <2>1. Len(u[0]) = 0
    BY <1>1, BytesAre DEF Partials
  <2>2. Len(u[0]) + 1 = 1
    BY <2>1
  <2>3. SubSeq(s, 1, 0) = <<>>
    BY SubSeqEmpty
  <2>4. Unescaped(bytes, 1) \in Bytes
    <3>1. 1 \in Nat \ {0}
      OBVIOUS
    <3> QED BY <1>2, <3>1, UnescapedIs
  <2>5. SubSeq(s, 1, 0) \o rest(0) = Unescaped(bytes, 1)
    BY <2>2, <2>3, <2>4, BytesAre
  <2> HIDE DEF rest
  <2> QED BY <2>5
<1>5. ASSUME NEW m \in Nat, m \in T
      PROVE  m + 1 \in T
  <2>1. CASE m + 1 <= n
    <3> DEFINE j == Len(u[m]) + 1
    <3>1. m \in 0 .. n - 1 /\ m \in 0 .. n /\ m <= n /\ m + 1 \in 1 .. n /\ m + 1 \in 0 .. n
      BY <1>0, <2>1
    <3>2. /\ j \in Nat \ {0} /\ j < Len(bytes) /\ ~At(bytes, j, <<0, 0>>)
          /\ s[m + 1] = 0 => At(bytes, j, <<0, 255>>) /\ Len(u[m + 1]) = Len(u[m]) + 2
          /\ s[m + 1] # 0 => /\ ~At(bytes, j, <<0, 255>>)
                             /\ bytes[j] = s[m + 1]
                             /\ Len(u[m + 1]) = Len(u[m]) + 1
      BY <1>2, <1>3, <3>1
    <3>3. SubSeq(s, 1, m) \o rest(m) = Unescaped(bytes, 1) /\ rest(m) = Unescaped(bytes, j)
      BY <1>5, <3>1
    <3>4. rest(m) = <<s[m + 1]>> \o rest(m + 1)
      <4>1. ~(j >= Len(bytes))
        BY <1>3, <3>2
      <4>2. CASE s[m + 1] = 0
        <5>1. Unescaped(bytes, j) = <<0>> \o Unescaped(bytes, j + 2)
          BY <1>2, <3>2, <4>1, <4>2, UnescapedIs
        <5>2. Len(u[m + 1]) + 1 = j + 2
          BY <1>3, <3>1, <3>2, <4>2
        <5> QED BY <3>3, <4>2, <5>1, <5>2
      <4>3. CASE s[m + 1] # 0
        <5>1. Unescaped(bytes, j) = <<bytes[j]>> \o Unescaped(bytes, j + 1)
          BY <1>2, <3>2, <4>1, <4>3, UnescapedIs
        <5>2. Len(u[m + 1]) + 1 = j + 1
          BY <1>3, <3>1, <3>2, <4>3
        <5> QED BY <3>2, <3>3, <4>3, <5>1, <5>2
      <4> QED BY <4>2, <4>3
    <3>5. SubSeq(s, 1, m) \in Bytes /\ <<s[m + 1]>> \in Bytes /\ rest(m + 1) \in Bytes
      <4>1. \A i \in 1 .. m : s[i] \in Byte
        BY <1>0, <3>1, BytesAre DEF n
      <4>2. SubSeq(s, 1, m) \in Bytes
        BY <4>1, SubSeqProperties DEF Bytes
      <4>3. <<s[m + 1]>> \in Bytes
        <5>1. s[m + 1] \in Byte
          BY <1>0, <3>1, BytesAre DEF n
        <5> QED BY <5>1, FewBytes
      <4>4. rest(m + 1) \in Bytes
        <5>1. Len(u[m + 1]) + 1 \in Nat \ {0}
          BY <1>3, <3>1
        <5> QED BY <1>2, <5>1, UnescapedIs
      <4> QED BY <4>2, <4>3, <4>4
    <3> HIDE DEF rest
    <3>6. (SubSeq(s, 1, m) \o <<s[m + 1]>>) \o rest(m + 1)
            = SubSeq(s, 1, m) \o (<<s[m + 1]>> \o rest(m + 1))
      <4>1. Regroup(SubSeq(s, 1, m), <<s[m + 1]>>, rest(m + 1))
        BY <3>5, Associative
      <4> QED BY <4>1 DEF Regroup
    <3>7. SubSeq(s, 1, m + 1) = SubSeq(s, 1, m) \o <<s[m + 1]>>
      <4>1. (m + 1) - 1 = m /\ m + 1 \in Int /\ 1 <= m + 1
        OBVIOUS
      <4>2. \A i \in 1 .. m + 1 : s[i] \in Byte
        BY <1>0, <3>1, BytesAre DEF n
      <4>3. SubSeq(s, 1, m + 1) = SubSeq(s, 1, (m + 1) - 1) \o <<s[m + 1]>>
        BY <4>1, <4>2, SubSeqRecursiveSecond
      <4> QED BY <4>1, <4>3
    <3>8. SubSeq(s, 1, m + 1) \o rest(m + 1) = Unescaped(bytes, 1)
      BY <3>3, <3>4, <3>6, <3>7
    <3> QED BY <3>8
  <2>2. CASE ~(m + 1 <= n)
    BY <2>2
  <2> QED BY <2>1, <2>2
<1>6. n \in T
  <2> HIDE DEF T
  <2> QED BY <1>0, <1>4, <1>5, Induction
<1>7. rest(n) = <<>>
  <2>1. n \in 0 .. n
    BY <1>0
  <2>2. LET j == Len(u[n]) + 1
        IN  j \in Nat \ {0} /\ j < Len(bytes) /\ At(bytes, j, <<0, 0>>)
    BY <1>2, <1>3, <2>1
  <2>3. LET j == Len(u[n]) + 1 IN ~At(bytes, j, <<0, 255>>)
    BY <2>2 DEF At
  <2> QED BY <1>2, <2>2, <2>3, UnescapedIs
<1>8. SubSeq(s, 1, n) = s
  BY <1>0, SubSeqFull DEF n, Bytes
<1>9. SubSeq(s, 1, n) \o rest(n) = Unescaped(bytes, 1)
  <2> HIDE DEF rest
  <2> QED BY <1>0, <1>6
<1>10. s \o <<>> = s
  BY <1>0, BytesAre
<1> QED BY <1>7, <1>8, <1>9, <1>10

\* The key of an entry of a document is found again.
LEMMA ChangeDecodes ==
  ASSUME NEW k \in ChangeKeys
  PROVE  DecodeOrdered(EncodeOrdered(k)) = k
<1> DEFINE bytes == EncodeOrdered(k)
           c == <<k.type>> \o k.hash
           i == Len(Escaped(k.doc)) + 1
<1>1. /\ k = [doc |-> k.doc, type |-> k.type, hash |-> k.hash]
      /\ k.doc \in Bytes /\ k.hash \in Bytes /\ <<k.type>> \in Bytes
      /\ Len(<<k.type>>) = 1 /\ <<k.type>>[1] = k.type /\ bytes = Escaped(k.doc) \o c
      /\ Escaped(k.doc) \in Bytes
  BY ChangeIs
<1>2. /\ c \in Bytes /\ Len(c) = 1 + Len(k.hash) /\ c[1] = k.type
      /\ \A m \in 1 .. Len(k.hash) : c[1 + m] = k.hash[m]
  <2>1. 1 \in 1 .. 1
    OBVIOUS
  <2> QED BY <1>1, <2>1, Concatenated
<1> HIDE DEF bytes, c
<1>3. EscapedIn(k.doc, <<>>, c, bytes)
  <2>1. Escaped(k.doc) \o c \in Bytes
    BY <1>1, <1>2, Concatenated
  <2>2. bytes = <<>> \o (Escaped(k.doc) \o c)
    BY <1>1, <2>1, BytesAre
  <2>3. <<>> \in Bytes
    BY BytesAre
  <2> QED BY <1>1, <1>2, <2>2, <2>3 DEF EscapedIn
<1>4. Len(Escaped(k.doc)) \in Nat /\ Len(k.hash) \in Nat /\ Len(<<>>) = 0
  BY <1>1, BytesAre
<1>5. SkipEscaped(bytes, 1) = i
  <2>1. SkipEscaped(bytes, Len(<<>>) + 1) = Len(<<>>) + Len(Escaped(k.doc)) + 1
    BY <1>3, SkipsEscaped
  <2>2. Len(<<>>) + 1 = 1 /\ Len(<<>>) + Len(Escaped(k.doc)) + 1 = i
    BY <1>4
  <2> QED BY <2>1, <2>2
<1>6. Unescaped(bytes, 1) = k.doc
  BY <1>3, UnescapesEscaped
<1>7. /\ bytes \in Bytes /\ Len(bytes) = Len(Escaped(k.doc)) + (1 + Len(k.hash))
      /\ bytes[i] = k.type
      /\ \A m \in 1 .. Len(k.hash) : bytes[i + m] = k.hash[m]
  <2>1. /\ bytes \in Bytes /\ Len(bytes) = Len(Escaped(k.doc)) + Len(c)
        /\ \A m \in 1 .. Len(c) : bytes[Len(Escaped(k.doc)) + m] = c[m]
    BY <1>1, <1>2, Concatenated
  <2>2. bytes[i] = k.type
    <3>1. 1 \in 1 .. Len(c)
      BY <1>2, <1>4
    <3> QED BY <1>2, <2>1, <3>1
  <2>3. ASSUME NEW m \in 1 .. Len(k.hash)
        PROVE  bytes[i + m] = k.hash[m]
    <3>1. 1 + m \in 1 .. Len(c) /\ Len(Escaped(k.doc)) + (1 + m) = i + m
      BY <1>2, <1>4
    <3> QED BY <1>2, <2>1, <3>1
  <2> QED BY <1>2, <2>1, <2>2, <2>3
<1>8. SubSeq(bytes, i + 1, Len(bytes)) = k.hash
  <2> DEFINE h == SubSeq(bytes, i + 1, Len(bytes))
  <2>1. \A m \in i + 1 .. Len(bytes) : bytes[m] \in Byte
    <3>1. \A m \in i + 1 .. Len(bytes) : m \in 1 .. Len(bytes)
      <4>1. i \in Nat /\ i >= 1
        BY <1>4
      <4>2. Len(bytes) \in Nat
        BY <1>7, BytesAre
      <4> HIDE DEF i
      <4> QED BY <4>1, <4>2
    <3> QED BY <1>7, <3>1, BytesAre
  <2>2. i + 1 \in Int /\ Len(bytes) \in Int
    BY <1>4, <1>7
  <2>3. /\ h \in Bytes
        /\ Len(h) = IF i + 1 <= Len(bytes) THEN Len(bytes) - (i + 1) + 1 ELSE 0
        /\ \A m \in 1 .. Len(bytes) - (i + 1) + 1 : h[m] = bytes[(i + 1) + m - 1]
    BY <2>1, <2>2, SubSeqProperties DEF Bytes
  <2> HIDE DEF h
  <2>4. Len(h) = Len(k.hash)
    BY <1>4, <1>7, <2>3
  <2>5. ASSUME NEW m \in 1 .. Len(h)
        PROVE  h[m] = k.hash[m]
    <3>1. /\ m \in 1 .. Len(k.hash) /\ m \in 1 .. Len(bytes) - (i + 1) + 1
          /\ (i + 1) + m - 1 = i + m
      BY <1>4, <1>7, <2>4
    <3> QED BY <1>7, <2>3, <3>1
  <2>6. h = k.hash
    BY <1>1, <2>3, <2>4, <2>5, SeqEqual DEF Bytes
  <2> QED BY <2>6 DEF h
<1>9. DecodeOrdered(bytes) = [doc |-> k.doc, type |-> k.type, hash |-> k.hash]
  BY <1>5, <1>6, <1>7, <1>8 DEF DecodeOrdered
<1> QED BY <1>1, <1>9 DEF bytes

\* RowFrom is what its definition says, of every index.
LEMMA FromIs ==
  ASSUME NEW bytes \in Bytes
  PROVE  \A j \in Nat \ {0} :
           RowFrom(bytes, j) = IF j > Len(bytes) THEN 0
                               ELSE IF At(bytes, j, <<0, 0>>) THEN j + 2
                               ELSE RowFrom(bytes, SkipValue(bytes, j))
<1> USE DEF Index
<1> DEFINE I == Index
           N == Len(bytes)
           Body(f, j) == IF j > N THEN 0
                         ELSE IF At(bytes, j, <<0, 0>>) THEN j + 2
                         ELSE f[SkipValue(bytes, j)]
           G == [j \in I |-> [f \in [I -> Nat] |-> Body(f, j)]]
           Is(f) == f = [j \in I |-> Body(f, j)]
           from == CHOOSE f : Is(f)
<1>0. N \in Nat
  BY BytesAre
<1>1. \A j \in I : j <= N => SkipValue(bytes, j) \in I /\ SkipValue(bytes, j) > j
  <2> SUFFICES ASSUME NEW j \in I, j <= N
               PROVE  SkipValue(bytes, j) \in I /\ SkipValue(bytes, j) > j
    OBVIOUS
  <2>1. j + 1 \in Nat \ {0} /\ Uuid \in Nat /\ Number \in Nat
    BY WidthAssumption
  <2>2. SkipEscaped(bytes, j + 1) \in Nat /\ SkipEscaped(bytes, j + 1) >= j + 1
    BY <2>1, SkipIs
  <2>3. SkipValue(bytes, j) \in {j + 1, j + 2, j + 1 + Uuid, j + 1 + Number,
                                 SkipEscaped(bytes, j + 1), N + 1}
    BY DEF SkipValue
  <2> HIDE DEF N
  <2> QED BY <1>0, <2>1, <2>2, <2>3
<1> HIDE DEF N
<1>2. ASSUME NEW f \in [I -> Nat], NEW j \in I
      PROVE  Body(f, j) \in Nat
  <2>1. CASE j <= N
    <3>1. f[SkipValue(bytes, j)] \in Nat
      BY <1>1, <2>1
    <3> QED BY <3>1
  <2>2. CASE ~(j <= N)
    BY <1>0, <2>2
  <2> QED BY <2>1, <2>2
<1>3. G \in [I -> [[I -> Nat] -> Nat]]
  <2> HIDE DEF Body
  <2> QED BY <1>2
<1>4. ASSUME NEW f \in [I -> Nat], NEW g \in [I -> Nat], NEW j \in I,
             j > N \/ (\A k \in I : k > j => f[k] = g[k])
      PROVE  G[j][f] = G[j][g]
  <2>1. Body(f, j) = Body(g, j)
    <3>1. CASE j > N
      BY <3>1
    <3>2. CASE ~(j > N)
      <4>1. f[SkipValue(bytes, j)] = g[SkipValue(bytes, j)]
        BY <1>0, <1>1, <1>4, <3>2
      <4> QED BY <4>1
    <3> QED BY <3>1, <3>2
  <2> QED BY <2>1
<1>5. \E f \in [I -> Nat] : Is(f)
  <2> HIDE DEF G, Body, Index
  <2>1. Nat # {}
    OBVIOUS
  <2>2. PICK f : Recurs(f, G, Nat)
    <3>1. ReadsLater(G, Nat, N)
      BY <1>3, <1>4 DEF ReadsLater
    <3> QED BY <1>0, <2>1, <3>1, Backwards
  <2>3. f \in [I -> Nat] /\ \A j \in I : f[j] = G[j][f]
    BY <2>2 DEF Recurs
  <2>4. \A j \in I : G[j][f] = Body(f, j)
    BY <2>3 DEF G
  <2>5. Is(f)
    BY <2>3, <2>4
  <2> HIDE DEF Is
  <2> QED BY <2>3, <2>5
<1>6. Is(from)
  <2> HIDE DEF Is
  <2> QED BY <1>5
<1> HIDE DEF from
<1>7. \A j \in I : from[j] = Body(from, j)
  BY <1>6
<1>8. \A j \in I : RowFrom(bytes, j) = from[j]
  BY DEF RowFrom, from, N
<1>9. ASSUME NEW j \in I
      PROVE  RowFrom(bytes, j) = IF j > N THEN 0
                                 ELSE IF At(bytes, j, <<0, 0>>) THEN j + 2
                                 ELSE RowFrom(bytes, SkipValue(bytes, j))
  <2>1. CASE j <= N
    <3>1. from[SkipValue(bytes, j)] = RowFrom(bytes, SkipValue(bytes, j))
      BY <1>1, <1>8, <2>1
    <3> QED BY <1>7, <1>8, <3>1
  <2>2. CASE ~(j <= N)
    <3>1. j > N
      BY <1>0, <2>2
    <3> QED BY <1>7, <1>8, <3>1
  <2> QED BY <2>1, <2>2
<1> QED BY <1>9 DEF N

\* The bytes of a value between others.
ValueIn(v, a, e, bytes) ==
  IsValue(v) /\ a \in Bytes /\ e \in Bytes /\ bytes = a \o (EncodeValueOrder(v) \o e)

\* The index behind a value.
LEMMA SkipsValue ==
  ASSUME NEW v, NEW a, NEW e, NEW bytes, ValueIn(v, a, e, bytes)
  PROVE  RowFrom(bytes, Len(a) + 1) = RowFrom(bytes, Len(a) + Len(EncodeValueOrder(v)) + 1)
<1> DEFINE t == v.type
           P == Payload(v)
           C == EncodeValueOrder(v)
           j == Len(a) + 1
<1>0. t \in 0 .. 8 /\ Number \in Nat /\ Uuid \in Nat
  BY PayloadIs, WidthAssumption DEF ValueIn
<1>1. /\ <<t + 1>> \in Bytes /\ Len(<<t + 1>>) = 1 /\ P \in Bytes /\ C = <<t + 1>> \o P
      /\ C \in Bytes /\ Len(C) = 1 + Len(P) /\ C[1] = t + 1
  BY ValueBytes DEF ValueIn
<1>2. a \in Bytes /\ e \in Bytes /\ bytes = a \o (C \o e)
  BY DEF ValueIn
<1> HIDE DEF C
<1>3. Len(a) \in Nat /\ Len(P) \in Nat /\ Len(e) \in Nat
  BY <1>1, <1>2, BytesAre
<1>4. bytes \in Bytes /\ Len(bytes) = Len(a) + Len(C) + Len(e) /\ bytes[Len(a) + 1] = C[1]
  <2>1. C \in Bytes /\ 1 \in 1 .. Len(C)
    BY <1>1, <1>3
  <2>2. LET l == a \o (C \o e)
        IN  /\ l \in Bytes /\ Len(l) = Len(a) + Len(C) + Len(e)
            /\ \A i \in 1 .. Len(C) : l[Len(a) + i] = C[i]
    <3>1. Framed(a, C, e)
      BY <1>2, <2>1, Between
    <3> QED BY <3>1 DEF Framed
  <2> QED BY <1>2, <2>1, <2>2
<1>5. j \in Nat \ {0} /\ ~(j > Len(bytes)) /\ bytes[j] = t + 1
  BY <1>1, <1>3, <1>4
<1>6. ~At(bytes, j, <<0, 0>>)
  <2>1. <<0, 0>>[1] = 0
    OBVIOUS
  <2> QED BY <1>0, <1>5, <2>1 DEF At
<1>7. RowFrom(bytes, j) = RowFrom(bytes, SkipValue(bytes, j))
  BY <1>4, <1>5, <1>6, FromIs
<1>8. SkipValue(bytes, j) = j + Len(C)
  <2> USE DEF Null, Type, UuidType, Bool, Integer, Float, Text, Json, Blob
  <2>1. IsValue(v)
    BY DEF ValueIn
  <2> HIDE DEF P, j
  <2>2. CASE t = Null
    <3>1. Len(P) = 0
      BY <2>1, <2>2, PayloadIs, BytesAre DEF P
    <3>2. SkipValue(bytes, j) = j + 1
      BY <1>5, <2>2 DEF SkipValue
    <3> QED BY <1>1, <1>5, <3>1, <3>2
  <2>3. CASE t \in {Type, Bool}
    <3>1. Len(P) = 1
      <4>1. v.data \in 0 .. 8 /\ P = <<v.data + 1>>
        BY <2>1, <2>3, PayloadIs DEF P
      <4>2. v.data + 1 \in Byte
        BY <4>1 DEF Byte
      <4> QED BY <4>1, <4>2, FewBytes
    <3>2. SkipValue(bytes, j) = j + 2
      <4>1. bytes[j] \in {Type + 1, Bool + 1} /\ bytes[j] # Null + 1
        BY <1>5, <2>3
      <4> QED BY <4>1 DEF SkipValue
    <3> QED BY <1>1, <1>5, <3>1, <3>2
  <2>4. CASE t = UuidType
    <3>1. Len(P) = Uuid
      BY <2>1, <2>4, PayloadIs DEF P
    <3>2. SkipValue(bytes, j) = j + 1 + Uuid
      BY <1>5, <2>4 DEF SkipValue
    <3>3. j \in Nat /\ Uuid \in Nat
      BY <1>5, WidthAssumption
    <3>4. Len(C) = 1 + Uuid
      BY <1>1, <3>1
    <3> HIDE DEF C
    <3> QED BY <3>2, <3>3, <3>4
  <2>5. CASE t \in {Integer, Float}
    <3>1. Len(P) = Number
      BY <2>1, <2>5, PayloadIs, BigEndianIs DEF P
    <3>2. SkipValue(bytes, j) = j + 1 + Number
      BY <1>5, <2>5 DEF SkipValue
    <3>3. j \in Nat /\ Number \in Nat
      BY <1>5, WidthAssumption
    <3>4. Len(C) = 1 + Number
      BY <1>1, <3>1
    <3> HIDE DEF C
    <3> QED BY <3>2, <3>3, <3>4
  <2>6. CASE t \in {Text, Json, Blob}
    <3>1. v.data \in Bytes /\ P = Escaped(v.data)
      BY <2>1, <2>6, PayloadIs DEF P
    <3>2. SkipValue(bytes, j) = SkipEscaped(bytes, j + 1)
      BY <1>5, <2>6 DEF SkipValue
    <3> DEFINE b == a \o <<t + 1>>
    <3>3. b \in Bytes /\ Len(b) = Len(a) + 1
      <4>1. <<t + 1>> \in Bytes
        BY <1>1
      <4>2. b \in Bytes /\ Len(b) = Len(a) + Len(<<t + 1>>)
        BY <1>2, <4>1, Concatenated
      <4> QED BY <1>1, <4>2
    <3>4. bytes = b \o (P \o e)
      <4>1. <<t + 1>> \in Bytes /\ P \in Bytes
        BY <1>1
      <4>2. P \o e \in Bytes
        BY <1>2, <4>1, Concatenated
      <4>3. (<<t + 1>> \o P) \o e = <<t + 1>> \o (P \o e)
        <5>1. Regroup(<<t + 1>>, P, e)
          BY <1>2, <4>1, Associative
        <5> QED BY <5>1 DEF Regroup
      <4>4. (a \o <<t + 1>>) \o (P \o e) = a \o (<<t + 1>> \o (P \o e))
        <5>1. Regroup(a, <<t + 1>>, P \o e)
          BY <1>2, <4>1, <4>2, Associative
        <5> QED BY <5>1 DEF Regroup
      <4> QED BY <1>1, <1>2, <4>3, <4>4
    <3> HIDE DEF b
    <3>5. EscapedIn(v.data, b, e, bytes)
      BY <1>2, <3>1, <3>3, <3>4 DEF EscapedIn
    <3>6. SkipEscaped(bytes, Len(b) + 1) = Len(b) + Len(P) + 1
      BY <3>1, <3>5, SkipsEscaped
    <3>7. Len(b) + 1 = j + 1 /\ Len(b) + Len(P) + 1 = j + Len(C)
      BY <1>1, <1>3, <3>3 DEF j
    <3> QED BY <3>2, <3>6, <3>7
  <2> QED BY <1>0, <2>2, <2>3, <2>4, <2>5, <2>6
<1>9. j + Len(C) = Len(a) + Len(C) + 1
  BY <1>1, <1>3
<1> QED BY <1>7, <1>8, <1>9 DEF C

\* decode_key finds the end of the values.
LEMMA RowDecodes ==
  ASSUME NEW row \in Rows
  PROVE  DecodesKey(row)
<1> DEFINE n == Len(row)
           p == Codes(row)
           F == FlattenSeq(p)
           z == <<0, 0>>
           bytes == F \o z
<1>0. n \in Nat
  BY RowIs
<1>1. /\ p \in Seq(Bytes) /\ Len(p) = n /\ EncodeKey(row) = bytes
      /\ \A i \in 1 .. n : p[i] = EncodeValueOrder(row[i])
  BY CodesAre
<1>2. PICK u : Partials(p, u)
  BY <1>1, PartialsExist
<1>3. \A m \in 0 .. n : u[m] \in Bytes
  BY <1>1, <1>2 DEF Partials
<1>4. F \in Bytes /\ F = u[n]
  BY <1>1, <1>2, FlattenedBytes, FlattenIs
<1>5. z \in Bytes /\ Len(z) = 2 /\ z[1] = 0 /\ z[2] = 0
  <2>1. 0 \in Byte
    BY DEF Byte
  <2> QED BY <2>1, FewBytes
<1> HIDE DEF n, p, F, z, bytes
<1> DEFINE from(m) == RowFrom(bytes, Len(u[m]) + 1)
           T == {m \in Nat : m <= n => from(m) = RowFrom(bytes, 1)}
<1>6. 0 \in T
  <2>1. Len(u[0]) + 1 = 1
    BY <1>2, BytesAre DEF Partials
  <2> QED BY <2>1
<1>7. ASSUME NEW m \in Nat, m \in T
      PROVE  m + 1 \in T
  <2>1. CASE m + 1 <= n
    <3>1. m \in 0 .. n /\ m + 1 \in 1 .. n /\ (m + 1) - 1 = m /\ m <= n
      BY <1>0, <2>1
    <3> DEFINE v == row[m + 1]
               C == EncodeValueOrder(v)
    <3>2. IsValue(v) /\ p[m + 1] = C
      BY <1>1, <3>1, RowIs DEF n
    <3>3. u[m] \in Bytes /\ C \in Bytes
      BY <1>3, <3>1, <3>2, ValueBytes
    <3> HIDE DEF v, C
    <3>4. u[m + 1] = u[m] \o C
      BY <1>1, <1>2, <3>1, <3>2 DEF Partials
    <3>5. PICK x : x \in Bytes /\ F = u[m] \o (C \o x)
      <4>1. m + 1 \in 1 .. Len(p)
        BY <1>1, <3>1
      <4>2. \E x \in Bytes : FlattenSeq(p) = u[(m + 1) - 1] \o (p[m + 1] \o x)
        <5>1. Splits(p, u, m + 1)
          BY <1>1, <1>2, <4>1, Split
        <5> QED BY <5>1 DEF Splits
      <4> QED BY <3>1, <3>2, <4>2 DEF F
    <3>6. x \in Bytes /\ z \in Bytes
      BY <1>5, <3>5
    <3>7. C \o x \in Bytes /\ x \o z \in Bytes
      BY <3>3, <3>6, Concatenated
    <3>8. bytes = u[m] \o (C \o (x \o z))
      <4>1. (u[m] \o (C \o x)) \o z = u[m] \o ((C \o x) \o z)
        <5>1. Regroup(u[m], C \o x, z)
          BY <3>3, <3>6, <3>7, Associative
        <5> QED BY <5>1 DEF Regroup
      <4>2. (C \o x) \o z = C \o (x \o z)
        <5>1. Regroup(C, x, z)
          BY <3>3, <3>6, Associative
        <5> QED BY <5>1 DEF Regroup
      <4> QED BY <3>5, <4>1, <4>2 DEF bytes
    <3>9. ValueIn(v, u[m], x \o z, bytes)
      BY <3>2, <3>3, <3>7, <3>8 DEF ValueIn, C
    <3>10. from(m) = RowFrom(bytes, Len(u[m]) + Len(C) + 1)
      BY <3>9, SkipsValue DEF C
    <3>11. Len(u[m + 1]) = Len(u[m]) + Len(C)
      BY <3>3, <3>4, Concatenated
    <3>12. from(m + 1) = RowFrom(bytes, 1)
      BY <1>7, <3>1, <3>10, <3>11
    <3> HIDE DEF from
    <3> QED BY <3>12
  <2>2. CASE ~(m + 1 <= n)
    BY <2>2
  <2> QED BY <2>1, <2>2
<1>8. n \in T
  <2> HIDE DEF T
  <2> QED BY <1>0, <1>6, <1>7, Induction
<1>9. from(n) = Len(bytes) + 1
  <2>1. /\ bytes \in Bytes /\ Len(bytes) = Len(F) + 2 /\ Len(F) \in Nat
        /\ bytes[Len(F) + 1] = 0 /\ bytes[Len(F) + 2] = 0
    <3>1. /\ bytes \in Bytes /\ Len(bytes) = Len(F) + Len(z)
          /\ \A i \in 1 .. Len(z) : bytes[Len(F) + i] = z[i]
      BY <1>4, <1>5, Concatenated DEF bytes
    <3>2. 1 \in 1 .. Len(z) /\ 2 \in 1 .. Len(z)
      BY <1>5
    <3>3. Len(F) \in Nat
      BY <1>4, BytesAre
    <3> QED BY <1>5, <3>1, <3>2, <3>3
  <2> DEFINE j == Len(F) + 1
  <2>2. j \in Nat \ {0} /\ ~(j > Len(bytes)) /\ j < Len(bytes) /\ j + 1 = Len(F) + 2
    BY <2>1
  <2>3. At(bytes, j, <<0, 0>>)
    BY <2>1, <2>2 DEF At
  <2>4. RowFrom(bytes, j) = j + 2
    BY <2>1, <2>2, <2>3, FromIs
  <2>5. j + 2 = Len(bytes) + 1 /\ from(n) = RowFrom(bytes, j)
    BY <1>4, <2>1
  <2> QED BY <2>4, <2>5
<1>10. from(n) = RowFrom(bytes, 1)
  <2> HIDE DEF from
  <2> QED BY <1>0, <1>8
<1> QED BY <1>1, <1>9, <1>10 DEF DecodesKey

-----------------------------------------------------------------------------
(* The theorems about keys *)

\* The pairs are of rows or of keys of documents.
KeyTypeOK ==
  \/ kind = "row" /\ left \in Rows /\ right \in Rows
  \/ kind = "change" /\ left \in ChangeKeys /\ right \in ChangeKeys

\* A row has up to MaxColumns values.
LEMMA RowsGrow ==
  /\ <<>> \in Rows
  /\ \A r \in Rows, v \in Values : Len(r) < MaxColumns => Append(r, v) \in Rows
<1>1. <<>> \in Rows
  <2>1. 0 \in 0 .. MaxColumns /\ <<>> \in [1 .. 0 -> Values]
    BY WidthAssumption
  <2> QED BY <2>1 DEF Rows
<1>2. ASSUME NEW r \in Rows, NEW v \in Values, Len(r) < MaxColumns
      PROVE  Append(r, v) \in Rows
  <2>1. r \in Seq(Values) /\ Len(r) \in Nat
    BY RowIs
  <2>2. Append(r, v) \in [1 .. Len(r) + 1 -> Values]
    <3>1. Append(r, v) \in Seq(Values) /\ Len(Append(r, v)) = Len(r) + 1
      BY <2>1, AppendProperties
    <3> QED BY <3>1, LenProperties
  <2>3. Len(r) + 1 \in 0 .. MaxColumns
    BY <1>2, <2>1, WidthAssumption
  <2> QED BY <2>2, <2>3 DEF Rows
<1> QED BY <1>1, <1>2

\* The pairs stay of their kind.
LEMMA KeysTyped == KeySpec => []KeyTypeOK
<1>1. KeyInit => KeyTypeOK
  BY RowsGrow DEF KeyInit, KeyTypeOK
<1>2. KeyTypeOK /\ [KeyNext]_keyVars => KeyTypeOK'
  <2> SUFFICES ASSUME KeyTypeOK, [KeyNext]_keyVars PROVE KeyTypeOK'
    OBVIOUS
  <2>1. CASE NextRow
    BY <2>1, RowsGrow DEF NextRow, KeyTypeOK
  <2>2. CASE NextChange
    BY <2>2 DEF NextChange, KeyTypeOK
  <2>3. CASE UNCHANGED keyVars
    BY <2>3 DEF keyVars, KeyTypeOK
  <2> QED BY <2>1, <2>2, <2>3 DEF KeyNext
<1> QED BY <1>1, <1>2, PTL DEF KeySpec

\* The bytes of any two rows, and of any two keys of entries of documents, sort
\* as they do, at a byte both have, and each is found again in its bytes: for
\* values of any bytes, numbers of any width and rows of any length
\* (row_table.rs encode_key and decode_key, DocumentChangeKey encode_ordered and
\* decode_ordered).
THEOREM KeysAlwaysSort == KeySpec => []KeysSort
<1>1. KeyTypeOK => KeysSort
  <2>1. CASE kind = "row" /\ left \in Rows /\ right \in Rows
    BY <2>1, RowOrder, RowTotal, RowDecodes DEF KeysSort
  <2>2. CASE kind = "change" /\ left \in ChangeKeys /\ right \in ChangeKeys
    BY <2>2, ChangeOrder, ChangeDecodes DEF KeysSort
  <2> QED BY <2>1, <2>2 DEF KeyTypeOK
<1> QED BY <1>1, KeysTyped, PTL
=============================================================================
